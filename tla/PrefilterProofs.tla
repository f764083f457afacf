---------------------------- MODULE PrefilterProofs ----------------------------
(***************************************************************************)
(* Proofs about Prefilter.                                                 *)
(***************************************************************************)
EXTENDS Prefilter, SliceLemmas, FiniteSetTheorems

-----------------------------------------------------------------------------
(* What the recursive functions of the tokenizers lead to.                 *)
LEMMA ClosingIs ==
  ASSUME NEW s \in Seq(Octet)
  PROVE  Closing(s) = [i \in 1 .. Len(s) + 1 |->
           IF i > Len(s) \/ s[i] = Quote THEN i
           ELSE Closing(s)[IF s[i] = Backslash /\ i < Len(s) THEN i + 2 ELSE i + 1]]
<1> DEFINE n == Len(s)
           T == 1 .. n + 1
           next == [i \in 1 .. n |-> IF s[i] = Backslash /\ i < n THEN i + 2 ELSE i + 1]
           step == [i \in 1 .. n |-> IF s[i] = Quote THEN [x \in T |-> i] ELSE [x \in T |-> x]]
           Body(f) == [i \in 1 .. Len(s) + 1 |->
             IF i > Len(s) \/ s[i] = Quote THEN i
             ELSE f[IF s[i] = Backslash /\ i < Len(s) THEN i + 2 ELSE i + 1]]
<1>1. n \in Nat /\ n + 1 \in T
  OBVIOUS
<1>2. next \in [1 .. n -> 1 .. n + 1] /\ \A i \in 1 .. n : next[i] > i
  OBVIOUS
<1>3. step \in [1 .. n -> [T -> T]]
  OBVIOUS
<1>4. PICK f \in [1 .. n + 1 -> T] :
             f[n + 1] = n + 1 /\ \A i \in 1 .. n : f[i] = step[i][f[next[i]]]
  <2> HIDE DEF n, T, next, step
  <2> QED
    <3>1. Onward(next, n)
      BY <1>2 DEF Onward
    <3>2. \E f \in [1 .. n + 1 -> T] : Follows(f, n, n + 1, next, step)
      BY <1>1, <1>3, <3>1, BackwardRecursion
    <3> QED
      BY <3>2 DEF Follows
<1>5. ASSUME NEW i \in 1 .. n + 1 PROVE f[i] = Body(f)[i]
  <2>1. CASE i = n + 1
    BY <1>4, <2>1
  <2>2. CASE i # n + 1
    <3>1. i \in 1 .. n /\ f[i] = step[i][f[next[i]]]
      <4> HIDE DEF step, next
      <4> QED
        BY <1>1, <1>4, <2>2
    <3>2. f[next[i]] \in T
      BY <1>2, <1>4, <3>1
    <3>3. step[i][f[next[i]]] = IF s[i] = Quote THEN i ELSE f[next[i]]
      BY <3>1, <3>2
    <3>4. next[i] = IF s[i] = Backslash /\ i < n THEN i + 2 ELSE i + 1
      BY <3>1
    <3> HIDE DEF step, next
    <3> QED
      BY <3>1, <3>3, <3>4
  <2> QED
    BY <2>1, <2>2
<1>6. f = Body(f)
  <2> HIDE DEF step, next
  <2> QED
    BY <1>4, <1>5
<1>7. (CHOOSE g : g = Body(g)) = Body(CHOOSE g : g = Body(g))
  <2> HIDE DEF Body
  <2> QED
    BY <1>6
<1> QED
  BY <1>7 DEF Closing

LEMMA ClosingRange ==
  ASSUME NEW s \in Seq(Octet)
  PROVE  \A i \in 1 .. Len(s) + 1 : Closing(s)[i] \in i .. Len(s) + 1
<1> DEFINE n == Len(s)
           c == Closing(s)
           Good == {i \in 1 .. n + 1 : c[i] \in i .. n + 1}
<1>1. \A i \in 1 .. n + 1 : c[i] = IF i > n \/ s[i] = Quote THEN i
              ELSE c[IF s[i] = Backslash /\ i < n THEN i + 2 ELSE i + 1]
  <2>1. c = [i \in 1 .. Len(s) + 1 |->
           IF i > Len(s) \/ s[i] = Quote THEN i
           ELSE c[IF s[i] = Backslash /\ i < Len(s) THEN i + 2 ELSE i + 1]]
    BY ClosingIs
  <2> HIDE DEF c
  <2> QED
    BY <2>1
<1> HIDE DEF c
<1>2. n \in Nat /\ n + 1 \in Good
  BY <1>1
<1>3. ASSUME NEW i \in 1 .. n, \A j \in i + 1 .. n + 1 : j \in Good
      PROVE  i \in Good
  <2> DEFINE j == IF s[i] = Backslash /\ i < n THEN i + 2 ELSE i + 1
  <2>1. j \in i + 1 .. n + 1
    OBVIOUS
  <2>2. c[j] \in j .. n + 1
    BY <1>3, <2>1
  <2>3. c[i] = IF s[i] = Quote THEN i ELSE c[j]
    BY <1>1
  <2> HIDE DEF j
  <2> QED
    BY <2>1, <2>2, <2>3
<1> HIDE DEF Good
<1>4. \A i \in 1 .. n + 1 : i \in Good
  BY <1>2, <1>3, BackwardInduction
<1> QED
  BY <1>4 DEF Good, c

LEMMA FirstOfIs ==
  ASSUME NEW S, NEW s \in Seq(Octet)
  PROVE  FirstOf(S, s) = [i \in 1 .. Len(s) + 1 |->
           IF i > Len(s) \/ s[i] \in S THEN i ELSE FirstOf(S, s)[i + 1]]
<1> DEFINE n == Len(s)
           T == 1 .. n + 1
           next == [i \in 1 .. n |-> i + 1]
           step == [i \in 1 .. n |-> IF s[i] \in S THEN [x \in T |-> i] ELSE [x \in T |-> x]]
           Body(f) == [i \in 1 .. Len(s) + 1 |->
             IF i > Len(s) \/ s[i] \in S THEN i ELSE f[i + 1]]
<1>1. n \in Nat /\ n + 1 \in T
  OBVIOUS
<1>2. next \in [1 .. n -> 1 .. n + 1] /\ \A i \in 1 .. n : next[i] = i + 1
  OBVIOUS
<1>3. step \in [1 .. n -> [T -> T]]
  OBVIOUS
<1>4. PICK f \in [1 .. n + 1 -> T] :
             f[n + 1] = n + 1 /\ \A i \in 1 .. n : f[i] = step[i][f[i + 1]]
  <2> HIDE DEF n, T, next, step
  <2>1. Onward(next, n)
    BY <1>1, <1>2 DEF Onward
  <2>2. \E f \in [1 .. n + 1 -> T] : Follows(f, n, n + 1, next, step)
    BY <1>1, <1>3, <2>1, BackwardRecursion
  <2> QED
    BY <1>2, <2>2 DEF Follows
<1>5. ASSUME NEW i \in 1 .. n + 1 PROVE f[i] = Body(f)[i]
  <2>1. CASE i = n + 1
    BY <1>4, <2>1
  <2>2. CASE i # n + 1
    <3>1. i \in 1 .. n /\ f[i] = step[i][f[i + 1]]
      <4> HIDE DEF step, next
      <4> QED
        BY <1>1, <1>4, <2>2
    <3>2. f[i + 1] \in T
      BY <1>4, <3>1
    <3>3. step[i][f[i + 1]] = IF s[i] \in S THEN i ELSE f[i + 1]
      BY <3>1, <3>2
    <3> HIDE DEF step, next
    <3> QED
      BY <3>1, <3>3
  <2> QED
    BY <2>1, <2>2
<1>6. f = Body(f)
  <2> HIDE DEF step, next
  <2> QED
    BY <1>4, <1>5
<1>7. (CHOOSE g : g = Body(g)) = Body(CHOOSE g : g = Body(g))
  <2> HIDE DEF Body
  <2> QED
    BY <1>6
<1> QED
  BY <1>7 DEF FirstOf

LEMMA FirstOfRange ==
  ASSUME NEW S, NEW s \in Seq(Octet)
  PROVE  \A i \in 1 .. Len(s) + 1 :
           /\ FirstOf(S, s)[i] \in i .. Len(s) + 1
           /\ i <= Len(s) /\ s[i] \notin S => FirstOf(S, s)[i] > i
<1> DEFINE n == Len(s)
           c == FirstOf(S, s)
           Good == {i \in 1 .. n + 1 : c[i] \in i .. n + 1}
<1>1. \A i \in 1 .. n + 1 : c[i] = IF i > n \/ s[i] \in S THEN i ELSE c[i + 1]
  <2>1. c = [i \in 1 .. Len(s) + 1 |-> IF i > Len(s) \/ s[i] \in S THEN i ELSE c[i + 1]]
    BY FirstOfIs
  <2> HIDE DEF c
  <2> QED
    BY <2>1
<1> HIDE DEF c
<1>2. n \in Nat /\ n + 1 \in Good
  BY <1>1
<1>3. ASSUME NEW i \in 1 .. n, \A j \in i + 1 .. n + 1 : j \in Good
      PROVE  i \in Good
  <2>1. c[i + 1] \in i + 1 .. n + 1
    BY <1>3
  <2> QED
    BY <1>1, <2>1
<1> HIDE DEF Good
<1>4. \A i \in 1 .. n + 1 : i \in Good
  BY <1>2, <1>3, BackwardInduction
<1>5. \A i \in 1 .. n + 1 : c[i] \in i .. n + 1
  BY <1>4 DEF Good
<1>6. ASSUME NEW i \in 1 .. n + 1, i <= n, s[i] \notin S PROVE c[i] > i
  <2>1. i + 1 \in 1 .. n + 1
    BY <1>6
  <2>2. c[i] = c[i + 1] /\ c[i + 1] \in i + 1 .. n + 1
    BY <1>1, <1>5, <1>6, <2>1
  <2> QED
    BY <2>2
<1> QED
  BY <1>5, <1>6 DEF c

(* What both tokenizers collect: pieces of at least four bytes.            *)
Pieces(max) == {t \in Seq(Octet) : Len(t) \in 4 .. max}

LEMMA JsonTokenType ==
  ASSUME NEW s \in Seq(Octet), NEW i \in 1 .. Len(s), NEW q \in i + 1 .. Len(s)
  PROVE  JsonToken(s, i, q) \in Seq(Octet)
<1> DEFINE ink == FirstOf(Octet \ Blanks, s)
<1>1. \A j \in 1 .. Len(s) + 1 : ink[j] \in j .. Len(s) + 1
  BY FirstOfRange
<1> HIDE DEF ink
<1>2. CASE ink[q + 1] <= Len(s) /\ s[ink[q + 1]] = Colon
  <2>1. ink[q + 1] \in q + 1 .. Len(s) + 1
    BY <1>1
  <2>2. ink[q + 1] + 1 \in 1 .. Len(s) + 1
    BY <1>2, <2>1
  <2>3. ink[ink[q + 1] + 1] - 1 \in 0 .. Len(s)
    BY <1>1, <2>1, <2>2
  <2>4. SubSeq(s, i, ink[ink[q + 1] + 1] - 1) \in Seq(Octet)
    BY <2>3, SliceType
  <2> QED
    BY <1>2, <2>4 DEF JsonToken, ink
<1>3. CASE ~(ink[q + 1] <= Len(s) /\ s[ink[q + 1]] = Colon)
  <2>1. SubSeq(s, i, q) \in Seq(Octet)
    BY SliceType
  <2> QED
    BY <1>3, <2>1 DEF JsonToken, ink
<1> QED
  BY <1>2, <1>3

LEMMA KeptIs ==
  ASSUME NEW t \in Seq(Octet), Kept(t)
  PROVE  t \in Pieces(MaxJsonToken)
BY LimitsAssumption DEF Kept, Pieces

LEMMA JsonTokensType ==
  ASSUME NEW s \in Seq(Octet)
  PROVE  JsonTokens(s) \in Seq(Pieces(MaxJsonToken))
<1> DEFINE n == Len(s)
           T == Seq(Pieces(MaxJsonToken))
           Q(i) == Closing(s)[i + 1]
           next == [i \in 1 .. n |-> IF s[i] # Quote \/ Q(i) > n THEN i + 1 ELSE Q(i) + 1]
           New(i) == IF Kept(JsonToken(s, i, Q(i))) THEN <<JsonToken(s, i, Q(i))>> ELSE <<>>
           step == [i \in 1 .. n |-> [x \in T |->
                      IF s[i] # Quote THEN x ELSE IF Q(i) > n THEN <<>> ELSE New(i) \o x]]
           Body(f) == [i \in 1 .. Len(s) + 1 |->
             IF i > Len(s) THEN <<>>
             ELSE IF s[i] # Quote THEN f[i + 1]
             ELSE LET q == Closing(s)[i + 1]
                      t == JsonToken(s, i, q)
                  IN IF q > Len(s) THEN <<>>
                     ELSE (IF Kept(t) THEN <<t>> ELSE <<>>) \o f[q + 1]]
           g == CHOOSE f : f = Body(f)
<1>1. n \in Nat /\ <<>> \in T
  OBVIOUS
<1>2. \A i \in 1 .. n : Q(i) \in i + 1 .. n + 1
  <2>1. \A i \in 1 .. n : i + 1 \in 1 .. n + 1
    OBVIOUS
  <2> QED
    BY <2>1, ClosingRange
<1> HIDE DEF Q
<1>3. next \in [1 .. n -> 1 .. n + 1] /\ \A i \in 1 .. n : next[i] > i
  BY <1>2
<1>4. ASSUME NEW i \in 1 .. n, Q(i) <= n PROVE New(i) \in T
  <2>1. JsonToken(s, i, Q(i)) \in Seq(Octet)
    BY <1>2, <1>4, JsonTokenType
  <2>2. CASE Kept(JsonToken(s, i, Q(i)))
    <3>1. JsonToken(s, i, Q(i)) \in Pieces(MaxJsonToken)
      BY <2>1, <2>2, KeptIs
    <3> QED
      BY <2>2, <3>1
  <2>3. CASE ~Kept(JsonToken(s, i, Q(i)))
    BY <2>3
  <2> QED
    BY <2>2, <2>3
<1> HIDE DEF New
<1>5. ASSUME NEW i \in 1 .. n, NEW x \in T, Q(i) <= n PROVE New(i) \o x \in T
  <2> HIDE DEF T, n
  <2>1. New(i) \in T
    BY <1>4, <1>5
  <2> QED
    BY <2>1, ConcatLength DEF T
<1>6. step \in [1 .. n -> [T -> T]]
  <2>1. ASSUME NEW i \in 1 .. n, NEW x \in T
        PROVE  (IF s[i] # Quote THEN x ELSE IF Q(i) > n THEN <<>> ELSE New(i) \o x) \in T
    <3>1. Q(i) > n \/ Q(i) <= n
      BY <1>2
    <3> HIDE DEF T
    <3> QED
      BY <1>1, <1>5, <3>1
  <2> HIDE DEF T
  <2> QED
    BY <2>1
<1>7. PICK f \in [1 .. n + 1 -> T] :
             f[n + 1] = <<>> /\ \A i \in 1 .. n : f[i] = step[i][f[next[i]]]
  <2> HIDE DEF n, T, next, step
  <2>1. Onward(next, n)
    BY <1>3 DEF Onward
  <2>2. \E f \in [1 .. n + 1 -> T] : Follows(f, n, <<>>, next, step)
    BY <1>1, <1>6, <2>1, BackwardRecursion
  <2> QED
    BY <2>2 DEF Follows
<1>8. \A h : \A i \in 1 .. n + 1 :
        Body(h)[i] = IF i = n + 1 THEN <<>> ELSE IF s[i] # Quote THEN h[i + 1]
                     ELSE IF Q(i) > n THEN <<>> ELSE New(i) \o h[Q(i) + 1]
  BY <1>1 DEF Q, New
<1>9. ASSUME NEW i \in 1 .. n + 1 PROVE f[i] = Body(f)[i]
  <2>1. CASE i = n + 1
    <3> HIDE DEF Body
    <3> QED
      BY <1>7, <1>8, <2>1
  <2>2. CASE i # n + 1
    <3>1. i \in 1 .. n /\ f[i] = step[i][f[next[i]]]
      <4> HIDE DEF step, next
      <4> QED
        BY <1>1, <1>7, <2>2
    <3>2. next[i] \in 1 .. n + 1 /\ f[next[i]] \in T
      <4> HIDE DEF step, next, T
      <4> QED
        BY <1>3, <1>7, <3>1
    <3>3. step[i][f[next[i]]] = IF s[i] # Quote THEN f[next[i]]
                                ELSE IF Q(i) > n THEN <<>> ELSE New(i) \o f[next[i]]
      <4> HIDE DEF T, next
      <4> QED
        BY <3>1, <3>2
    <3>4. next[i] = IF s[i] # Quote \/ Q(i) > n THEN i + 1 ELSE Q(i) + 1
      BY <3>1
    <3> HIDE DEF step, next, Body
    <3> QED
      BY <1>8, <2>2, <3>1, <3>3, <3>4
  <2> QED
    BY <2>1, <2>2
<1>10. f = Body(f)
  <2>1. \A h : Body(h) = [i \in 1 .. n + 1 |-> Body(h)[i]]
    OBVIOUS
  <2>2. f = [i \in 1 .. n + 1 |-> f[i]]
    BY <1>7
  <2> HIDE DEF step, next, Body
  <2> QED
    BY <1>9, <2>1, <2>2
<1>11. g = Body(g)
  <2> HIDE DEF Body
  <2> QED
    BY <1>10
<1>12. \A i \in 1 .. n + 1 :
        g[i] = IF i = n + 1 THEN <<>> ELSE IF s[i] # Quote THEN g[i + 1]
               ELSE IF Q(i) > n THEN <<>> ELSE New(i) \o g[Q(i) + 1]
  <2> HIDE DEF Body, g
  <2> QED
    BY <1>8, <1>11
<1> DEFINE Good == {i \in 1 .. n + 1 : g[i] \in T}
<1>13. n + 1 \in Good
  <2> HIDE DEF g, T
  <2>1. n + 1 \in 1 .. n + 1
    BY <1>1
  <2>2. g[n + 1] = <<>>
    BY <1>12, <2>1
  <2> QED
    BY <1>1, <2>1, <2>2
<1>14. ASSUME NEW i \in 1 .. n, \A j \in i + 1 .. n + 1 : j \in Good
       PROVE  i \in Good
  <2> HIDE DEF g, T
  <2>1. i + 1 \in i + 1 .. n + 1 /\ i # n + 1 /\ i \in 1 .. n + 1
    BY <1>1
  <2>2. CASE s[i] # Quote
    BY <1>12, <1>14, <2>1, <2>2
  <2>3. CASE s[i] = Quote /\ Q(i) > n
    BY <1>1, <1>12, <2>1, <2>3
  <2>4. CASE s[i] = Quote /\ ~(Q(i) > n)
    <3>1. Q(i) + 1 \in i + 1 .. n + 1 /\ Q(i) <= n
      BY <1>1, <1>2, <2>4
    <3>2. g[Q(i) + 1] \in T
      BY <1>14, <3>1
    <3>3. New(i) \o g[Q(i) + 1] \in T
      BY <1>5, <3>1, <3>2
    <3> QED
      BY <1>12, <2>1, <2>4, <3>3
  <2> QED
    BY <2>2, <2>3, <2>4
<1>15. 1 \in Good
  <2> HIDE DEF Good
  <2>1. \A i \in 1 .. n + 1 : i \in Good
    BY <1>1, <1>13, <1>14, BackwardInduction
  <2> QED
    BY <1>1, <2>1
<1> QED
  BY <1>15 DEF JsonTokens

LEMMA LesserOf ==
  ASSUME NEW a \in Int, NEW b \in Int
  PROVE  Min({a, b}) = IF a <= b THEN a ELSE b
BY DEF Min

LEMMA WordsType ==
  ASSUME NEW s \in Seq(Octet)
  PROVE  Words(s) \in Seq(Pieces(MaxTokenLen))
<1> DEFINE n == Len(s)
           T == Seq(Pieces(MaxTokenLen))
           W(i) == s[i] \in Whitespace
           E(i) == Min({FirstOf(Whitespace, s)[i], i + MaxTokenLen})
           next == [i \in 1 .. n |-> IF W(i) THEN i + 1 ELSE E(i)]
           New(i) == IF E(i) - i >= 4 THEN <<SubSeq(s, i, E(i) - 1)>> ELSE <<>>
           step == [i \in 1 .. n |-> [x \in T |-> IF W(i) THEN x ELSE New(i) \o x]]
           Body(f) == [i \in 1 .. Len(s) + 1 |->
             IF i > Len(s) THEN <<>>
             ELSE IF s[i] \in Whitespace THEN f[i + 1]
             ELSE LET end == Min({FirstOf(Whitespace, s)[i], i + MaxTokenLen}) IN
                  (IF end - i >= 4 THEN <<SubSeq(s, i, end - 1)>> ELSE <<>>) \o f[end]]
           g == CHOOSE f : f = Body(f)
<1>1. n \in Nat /\ <<>> \in T
  OBVIOUS
<1>2. \A i \in 1 .. n : ~W(i) => E(i) \in i + 1 .. n + 1 /\ E(i) <= i + MaxTokenLen
  <2> SUFFICES ASSUME NEW i \in 1 .. n, ~W(i)
               PROVE  E(i) \in i + 1 .. n + 1 /\ E(i) <= i + MaxTokenLen
    OBVIOUS
  <2> DEFINE a == FirstOf(Whitespace, s)[i]
             b == i + MaxTokenLen
  <2>1. a \in i + 1 .. n + 1
    <3>1. i \in 1 .. Len(s) + 1 /\ i <= Len(s) /\ s[i] \notin Whitespace
      OBVIOUS
    <3>2. a \in i .. Len(s) + 1 /\ a > i
      BY <3>1, FirstOfRange
    <3> QED
      BY <3>2
  <2>2. MaxTokenLen \in Nat /\ MaxTokenLen >= 4
    BY LimitsAssumption, ClassesAssumption
  <2>3. b \in Int /\ b > i
    BY <2>2
  <2> HIDE DEF a, b
  <2>4. Min({a, b}) = IF a <= b THEN a ELSE b
    BY <2>1, <2>3, LesserOf
  <2>5. E(i) = Min({a, b})
    BY DEF a, b
  <2> HIDE DEF E
  <2>6. E(i) \in i + 1 .. n + 1 /\ E(i) <= b
    BY <2>1, <2>3, <2>4, <2>5
  <2> QED
    BY <2>6 DEF b
<1> HIDE DEF E
<1>3. next \in [1 .. n -> 1 .. n + 1] /\ \A i \in 1 .. n : next[i] > i
  <2>1. \A i \in 1 .. n : ~W(i) => E(i) \in 1 .. n + 1 /\ E(i) > i
    BY <1>2
  <2> HIDE DEF W
  <2> QED
    BY <2>1
<1>4. ASSUME NEW i \in 1 .. n, ~W(i) PROVE New(i) \in T
  <2>1. CASE E(i) - i >= 4
    <3>1. MaxTokenLen \in Nat
      BY LimitsAssumption, ClassesAssumption
    <3>2. E(i) - 1 \in 0 .. Len(s) /\ i \in Nat \ {0} /\ E(i) \in Int /\ E(i) <= i + MaxTokenLen
      BY <1>2, <1>4
    <3>3. SubSeq(s, i, E(i) - 1) \in Seq(Octet)
      BY <3>2, SliceType
    <3>4. Len(SubSeq(s, i, E(i) - 1)) = E(i) - i
      <4>1. i <= E(i) - 1 /\ E(i) - 1 - i + 1 = E(i) - i
        BY <2>1, <3>2
      <4> QED
        BY <3>2, <4>1, SliceType
    <3>5. SubSeq(s, i, E(i) - 1) \in Pieces(MaxTokenLen)
      BY <2>1, <3>1, <3>2, <3>3, <3>4 DEF Pieces
    <3> QED
      BY <2>1, <3>5
  <2>2. CASE ~(E(i) - i >= 4)
    BY <2>2
  <2> QED
    BY <2>1, <2>2
<1> HIDE DEF New
<1>5. ASSUME NEW i \in 1 .. n, NEW x \in T, ~W(i) PROVE New(i) \o x \in T
  <2> HIDE DEF T, n
  <2>1. New(i) \in T
    BY <1>4, <1>5
  <2> QED
    BY <2>1, ConcatLength DEF T
<1>6. step \in [1 .. n -> [T -> T]]
  <2>1. ASSUME NEW i \in 1 .. n, NEW x \in T
        PROVE  (IF W(i) THEN x ELSE New(i) \o x) \in T
    <3> HIDE DEF T, W
    <3> QED
      BY <1>1, <1>5
  <2> HIDE DEF T
  <2> QED
    BY <2>1
<1>7. PICK f \in [1 .. n + 1 -> T] :
             f[n + 1] = <<>> /\ \A i \in 1 .. n : f[i] = step[i][f[next[i]]]
  <2> HIDE DEF n, T, next, step
  <2>1. Onward(next, n)
    BY <1>3 DEF Onward
  <2>2. \E f \in [1 .. n + 1 -> T] : Follows(f, n, <<>>, next, step)
    BY <1>1, <1>6, <2>1, BackwardRecursion
  <2> QED
    BY <2>2 DEF Follows
<1>8. \A h : \A i \in 1 .. n + 1 :
        Body(h)[i] = IF i = n + 1 THEN <<>> ELSE IF W(i) THEN h[i + 1]
                     ELSE New(i) \o h[E(i)]
  BY <1>1 DEF E, New
<1>9. ASSUME NEW i \in 1 .. n + 1 PROVE f[i] = Body(f)[i]
  <2>1. CASE i = n + 1
    <3> HIDE DEF Body
    <3> QED
      BY <1>7, <1>8, <2>1
  <2>2. CASE i # n + 1
    <3>1. i \in 1 .. n /\ f[i] = step[i][f[next[i]]]
      <4> HIDE DEF step, next
      <4> QED
        BY <1>1, <1>7, <2>2
    <3>2. next[i] \in 1 .. n + 1 /\ f[next[i]] \in T
      <4> HIDE DEF step, next, T
      <4> QED
        BY <1>3, <1>7, <3>1
    <3>3. step[i][f[next[i]]] = IF W(i) THEN f[next[i]] ELSE New(i) \o f[next[i]]
      <4> HIDE DEF T, next
      <4> QED
        BY <3>1, <3>2
    <3>4. next[i] = IF W(i) THEN i + 1 ELSE E(i)
      BY <3>1
    <3> HIDE DEF step, next, Body
    <3> QED
      BY <1>8, <2>2, <3>1, <3>3, <3>4
  <2> QED
    BY <2>1, <2>2
<1>10. f = Body(f)
  <2>1. \A h : Body(h) = [i \in 1 .. n + 1 |-> Body(h)[i]]
    OBVIOUS
  <2>2. f = [i \in 1 .. n + 1 |-> f[i]]
    BY <1>7
  <2> HIDE DEF step, next, Body
  <2> QED
    BY <1>9, <2>1, <2>2
<1>11. g = Body(g)
  <2> HIDE DEF Body
  <2> QED
    BY <1>10
<1>12. \A i \in 1 .. n + 1 :
        g[i] = IF i = n + 1 THEN <<>> ELSE IF W(i) THEN g[i + 1]
               ELSE New(i) \o g[E(i)]
  <2> HIDE DEF Body, g
  <2> QED
    BY <1>8, <1>11
<1> DEFINE Good == {i \in 1 .. n + 1 : g[i] \in T}
<1>13. n + 1 \in Good
  <2> HIDE DEF g, T
  <2>1. n + 1 \in 1 .. n + 1
    BY <1>1
  <2>2. g[n + 1] = <<>>
    BY <1>12, <2>1
  <2> QED
    BY <1>1, <2>1, <2>2
<1>14. ASSUME NEW i \in 1 .. n, \A j \in i + 1 .. n + 1 : j \in Good
       PROVE  i \in Good
  <2> HIDE DEF g, T
  <2>1. i + 1 \in i + 1 .. n + 1 /\ i # n + 1 /\ i \in 1 .. n + 1
    BY <1>1
  <2>2. CASE W(i)
    BY <1>12, <1>14, <2>1, <2>2
  <2>3. CASE ~W(i)
    <3>1. E(i) \in i + 1 .. n + 1
      BY <1>2, <2>3
    <3>2. g[E(i)] \in T
      BY <1>14, <3>1
    <3>3. New(i) \o g[E(i)] \in T
      BY <1>5, <2>3, <3>2
    <3> QED
      BY <1>12, <2>1, <2>3, <3>3
  <2> QED
    BY <2>2, <2>3
<1>15. 1 \in Good
  <2> HIDE DEF Good
  <2>1. \A i \in 1 .. n + 1 : i \in Good
    BY <1>1, <1>13, <1>14, BackwardInduction
  <2> QED
    BY <1>1, <2>1
<1> QED
  BY <1>15 DEF Words

-----------------------------------------------------------------------------
(* In a finite set in which R is a strict total order, something has each  *)
(* rank.                                                                   *)
StrictOrder(R, W) ==
  /\ \A t \in W : <<t, t>> \notin R
  /\ \A t, u \in W : t # u => <<t, u>> \in R \/ <<u, t>> \in R
  /\ \A t, u, v \in W : <<t, u>> \in R /\ <<u, v>> \in R => <<t, v>> \in R

LEMMA RankOnto ==
  ASSUME NEW W, IsFiniteSet(W), NEW R, StrictOrder(R, W)
  PROVE  \A r \in 1 .. Cardinality(W) :
           \E t \in W : Cardinality({u \in W : <<u, t>> \in R}) + 1 = r
<1> DEFINE n == Cardinality(W)
           Below(t) == {u \in W : <<u, t>> \in R}
           rank == [t \in W |-> Cardinality(Below(t)) + 1]
<1>1. n \in Nat
  BY FS_CardinalityType
<1>2. \A t \in W : Below(t) \in SUBSET (W \ {t})
  BY DEF StrictOrder
<1>3. ASSUME NEW t \in W PROVE IsFiniteSet(Below(t)) /\ Cardinality(Below(t)) \in 0 .. n - 1
  <2>1. IsFiniteSet(W \ {t}) /\ Cardinality(W \ {t}) = n - 1
    BY FS_RemoveElement
  <2> HIDE DEF Below
  <2>2. IsFiniteSet(Below(t)) /\ Cardinality(Below(t)) <= n - 1
    BY <1>2, <2>1, FS_Subset
  <2>3. Cardinality(Below(t)) \in Nat
    BY <2>2, FS_CardinalityType
  <2> QED
    BY <1>1, <2>2, <2>3
<1>4. rank \in [W -> 1 .. n]
  <2> HIDE DEF Below
  <2> QED
    BY <1>1, <1>3
<1>5. ASSUME NEW t \in W, NEW u \in W, <<t, u>> \in R PROVE rank[t] # rank[u]
  <2>1. Below(t) \in SUBSET Below(u)
    BY <1>5 DEF StrictOrder
  <2>2. Below(t) # Below(u)
    BY <1>5 DEF StrictOrder
  <2> HIDE DEF Below
  <2>3. Cardinality(Below(t)) # Cardinality(Below(u))
    BY <1>3, <2>1, <2>2, FS_Subset
  <2>4. Cardinality(Below(t)) \in Int /\ Cardinality(Below(u)) \in Int
    BY <1>3
  <2> QED
    BY <2>3, <2>4
<1> HIDE DEF rank
<1>6. \A t, u \in W : rank[t] = rank[u] => t = u
  BY <1>5 DEF StrictOrder
<1>7. rank \in Injection(W, 1 .. n)
  BY <1>4, <1>6 DEF Injection, IsInjective
<1>8. IsFiniteSet(1 .. n) /\ Cardinality(1 .. n) = n
  <2>1. 1 \in Int /\ n \in Int /\ (1 > n => n = 0) /\ n - 1 + 1 = n
    BY <1>1
  <2> QED
    BY <2>1, FS_Interval
<1>9. rank \in Surjection(W, 1 .. n)
  BY <1>7, <1>8, FS_Injection
<1> QED
  BY <1>9 DEF Surjection, rank

(* The order of byte slices, byte by byte.                                 *)
LEMMA LessIs ==
  ASSUME NEW s \in Seq(Octet), NEW t \in Seq(Octet)
  PROVE  Less(s, t) <=>
           \E k \in 0 .. Len(s) :
             /\ k < Len(t) /\ \A i \in 1 .. k : s[i] = t[i]
             /\ k < Len(s) => s[k + 1] < t[k + 1]
<1>1. ASSUME NEW k \in 0 .. Len(s), k < Len(t)
      PROVE  SubSeq(s, 1, k) = SubSeq(t, 1, k) <=> \A i \in 1 .. k : s[i] = t[i]
  <2> DEFINE a == SubSeq(s, 1, k)
             b == SubSeq(t, 1, k)
  <2>1. k \in 0 .. Len(t) /\ k \in 0 .. k
    BY <1>1
  <2>2. a \in Seq(Octet) /\ Len(a) = k
    BY <2>1, PrefixOfPrefix
  <2>3. b \in Seq(Octet) /\ Len(b) = k
    BY <2>1, PrefixOfPrefix
  <2>4. (\A i \in 1 .. k : a[i] = s[i]) /\ \A i \in 1 .. k : b[i] = t[i]
    BY <2>1, PrefixElements
  <2> HIDE DEF a, b
  <2>5. a = b <=> \A i \in 1 .. k : a[i] = b[i]
    BY <2>2, <2>3, SeqEqual
  <2> QED
    BY <2>4, <2>5 DEF a, b
<1> QED
  BY <1>1 DEF Less

LEMMA LessIsAnOrder ==
  ASSUME NEW s \in Seq(Octet), NEW t \in Seq(Octet)
  PROVE  /\ ~Less(s, s)
         /\ s # t => Less(s, t) \/ Less(t, s)
         /\ \A u \in Seq(Octet) : Less(s, t) /\ Less(t, u) => Less(s, u)
<1>1. Octet \subseteq Int /\ Len(s) \in Nat /\ Len(t) \in Nat
  BY ClassesAssumption DEF Octet
<1>2. ~Less(s, s)
  <2>1. \A k \in 0 .. Len(s) : k < Len(s) => s[k + 1] \in Int
    <3> SUFFICES ASSUME NEW k \in 0 .. Len(s), k < Len(s) PROVE s[k + 1] \in Int
      OBVIOUS
    <3>1. k + 1 \in 1 .. Len(s)
      BY <1>1
    <3> QED
      BY <1>1, <3>1, ElementOfSeq
  <2> QED
    BY <1>1, <2>1, LessIs
<1>3. ASSUME s # t PROVE Less(s, t) \/ Less(t, s)
  <2> DEFINE Differ == {k \in Nat : k = Len(s) \/ k = Len(t) \/ s[k + 1] # t[k + 1]}
  <2>1. Len(s) \in Differ /\ Differ \in SUBSET Nat
    BY <1>1
  <2>2. PICK k \in Differ : \A m \in Differ : k <= m
    <3> HIDE DEF Differ
    <3> QED
      BY <2>1, SmallestNat
  <2>3. k \in Nat /\ k <= Len(s) /\ k <= Len(t)
    BY <1>1, <2>2
  <2>4. ASSUME NEW i \in 1 .. k PROVE s[i] = t[i]
    <3>1. i - 1 \in Nat /\ ~(k <= i - 1) /\ i - 1 + 1 = i
      BY <2>3
    <3>2. i - 1 \notin Differ
      BY <2>2, <3>1
    <3> QED
      BY <3>1, <3>2
  <2>5. k < Len(s) \/ k < Len(t)
    <3> SUFFICES ASSUME ~(k < Len(s) \/ k < Len(t)) PROVE FALSE
      OBVIOUS
    <3>1. k = Len(s) /\ k = Len(t)
      BY <1>1, <2>3
    <3>2. s = t
      BY <2>4, <3>1, SeqEqual
    <3> QED
      BY <1>3, <3>2
  <2>6. \A i \in 1 .. k : t[i] = s[i]
    BY <2>4
  <2>7. CASE k = Len(s)
    <3>1. k \in 0 .. Len(s) /\ k < Len(t) /\ ~(k < Len(s))
      BY <1>1, <2>3, <2>5, <2>7
    <3> QED
      BY <2>4, <3>1, LessIs
  <2>8. CASE k = Len(t)
    <3>1. k \in 0 .. Len(t) /\ k < Len(s) /\ ~(k < Len(t))
      BY <1>1, <2>3, <2>5, <2>8
    <3> QED
      BY <2>6, <3>1, LessIs
  <2>9. CASE k # Len(s) /\ k # Len(t)
    <3>1. k < Len(s) /\ k < Len(t) /\ k \in 0 .. Len(s) /\ k \in 0 .. Len(t) /\ k + 1 \in 1 .. Len(s)
          /\ k + 1 \in 1 .. Len(t)
      BY <1>1, <2>3, <2>9
    <3>2. s[k + 1] # t[k + 1] /\ s[k + 1] \in Int /\ t[k + 1] \in Int
      <4>1. s[k + 1] # t[k + 1]
        BY <2>2, <2>9
      <4> QED
        BY <1>1, <3>1, <4>1, ElementOfSeq
    <3>3. s[k + 1] < t[k + 1] \/ t[k + 1] < s[k + 1]
      BY <3>2
    <3>4. CASE s[k + 1] < t[k + 1]
      BY <2>4, <3>1, <3>4, LessIs
    <3>5. CASE t[k + 1] < s[k + 1]
      BY <2>6, <3>1, <3>5, LessIs
    <3> QED
      BY <3>3, <3>4, <3>5
  <2> QED
    BY <2>7, <2>8, <2>9
<1>4. ASSUME NEW u \in Seq(Octet), Less(s, t), Less(t, u) PROVE Less(s, u)
  <2>1. PICK k \in 0 .. Len(s) :
          /\ k < Len(t) /\ \A i \in 1 .. k : s[i] = t[i]
          /\ k < Len(s) => s[k + 1] < t[k + 1]
    BY <1>4, LessIs
  <2>2. PICK m \in 0 .. Len(t) :
          /\ m < Len(u) /\ \A i \in 1 .. m : t[i] = u[i]
          /\ m < Len(t) => t[m + 1] < u[m + 1]
    BY <1>4, LessIs
  <2>3. Len(u) \in Nat
    OBVIOUS
  <2>4. CASE k <= m
    <3>1. k < Len(u) /\ k \in 0 .. Len(s) /\ \A i \in 1 .. k : i \in 1 .. m
      BY <1>1, <2>1, <2>2, <2>3, <2>4
    <3>2. \A i \in 1 .. k : s[i] = u[i]
      BY <2>1, <2>2, <3>1
    <3>3. ASSUME k < Len(s) PROVE s[k + 1] < u[k + 1]
      <4>1. k + 1 \in 1 .. Len(s) /\ k + 1 \in 1 .. Len(t) /\ k + 1 \in 1 .. Len(u)
        BY <1>1, <2>1, <2>3, <3>1, <3>3
      <4>2. s[k + 1] \in Int /\ t[k + 1] \in Int /\ u[k + 1] \in Int
        BY <1>1, <4>1, ElementOfSeq
      <4>3. CASE k = m
        BY <2>1, <2>2, <3>3, <4>2, <4>3
      <4>4. CASE k # m
        <5>1. k + 1 \in 1 .. m
          BY <2>4, <4>4
        <5> QED
          BY <2>1, <2>2, <3>3, <5>1
      <4> QED
        BY <4>3, <4>4
    <3> QED
      BY <3>1, <3>2, <3>3, LessIs
  <2>5. CASE ~(k <= m)
    <3>1. m \in 0 .. Len(s) /\ m < Len(t) /\ m < Len(u) /\ m + 1 \in 1 .. k
      BY <1>1, <2>1, <2>2, <2>5
    <3>2. \A i \in 1 .. m : s[i] = u[i]
      <4>1. \A i \in 1 .. m : i \in 1 .. k
        BY <3>1
      <4> QED
        BY <2>1, <2>2, <4>1
    <3>3. s[m + 1] < u[m + 1]
      BY <2>1, <2>2, <3>1
    <3> QED
      BY <3>1, <3>2, <3>3, LessIs
  <2> QED
    BY <2>4, <2>5
<1> QED
  BY <1>2, <1>3, <1>4

LEMMA CountType ==
  ASSUME NEW S, NEW s \in Seq(S), NEW T
  PROVE  Count(s, T) \in Nat
<1>1. IsFiniteSet(1 .. Len(s))
  <2>1. 1 \in Int /\ Len(s) \in Int
    OBVIOUS
  <2> QED
    BY <2>1, FS_Interval
<1>2. {i \in DOMAIN s : s[i] \in T} \in SUBSET (1 .. Len(s))
  OBVIOUS
<1>3. IsFiniteSet({i \in DOMAIN s : s[i] \in T})
  BY <1>1, <1>2, FS_Subset
<1> QED
  BY <1>3, FS_CardinalityType DEF Count

LEMMA LeastOfThree ==
  ASSUME NEW a \in Nat, NEW b \in Nat, NEW c \in Nat
  PROVE  /\ Min({a, b, c}) \in Nat
         /\ Min({a, b, c}) <= a /\ Min({a, b, c}) <= b /\ Min({a, b, c}) <= c
<1>1. \E x \in {a, b, c} : \A y \in {a, b, c} : x <= y
  OBVIOUS
<1>2. Min({a, b, c}) \in {a, b, c} /\ \A y \in {a, b, c} : Min({a, b, c}) <= y
  BY <1>1 DEF Min
<1> QED
  BY <1>2

LEMMA DictionaryType ==
  ASSUME NEW max \in Int, NEW found \in Seq(Pieces(max)), NEW often, NEW profit
  PROVE  /\ Dictionary(found, often, profit) \in Seq(Pieces(max))
         /\ Len(Dictionary(found, often, profit)) <= MaxDictTokens
<1> DEFINE all == {found[i] : i \in DOMAIN found}
           worth == {t \in all : Frequency(t, found) >= often /\ Savings(t, found) > profit}
           Before(t, u) == \/ Savings(t, found) > Savings(u, found)
                           \/ Savings(t, found) = Savings(u, found) /\ Less(t, u)
           Rank(t) == Cardinality({u \in worth : Before(u, t)}) + 1
           R == {p \in worth \X worth : Before(p[1], p[2])}
           n == Min({Cardinality(worth), MaxDynamicTokens, MaxDictTokens})
<1>1. IsFiniteSet(worth)
  <2>1. found \in Surjection(1 .. Len(found), all)
    BY DEF Surjection
  <2>2. IsFiniteSet(1 .. Len(found))
    <3>1. 1 \in Int /\ Len(found) \in Int
      OBVIOUS
    <3> QED
      BY <3>1, FS_Interval
  <2>3. IsFiniteSet(all)
    BY <2>1, <2>2, FS_Surjection
  <2>4. worth \in SUBSET all
    OBVIOUS
  <2> HIDE DEF all, worth
  <2> QED
    BY <2>3, <2>4, FS_Subset
<1>2. worth \subseteq Pieces(max)
  <2>1. all \subseteq Pieces(max)
    BY ElementOfSeq
  <2> QED
    BY <2>1
<1>3. ASSUME NEW t \in Pieces(max) PROVE Savings(t, found) \in Int
  <2>1. Frequency(t, found) \in Nat
    BY CountType DEF Frequency
  <2>2. Len(t) - 2 \in Int /\ 1 + Len(t) \in Int
    BY DEF Pieces
  <2> QED
    BY <2>1, <2>2 DEF Savings
<1>4. StrictOrder(R, worth)
  <2>1. ASSUME NEW t \in worth PROVE <<t, t>> \notin R
    <3>1. t \in Pieces(max)
      BY <1>2
    <3>2. Savings(t, found) \in Int /\ ~Less(t, t)
      BY <1>3, <3>1, LessIsAnOrder DEF Pieces
    <3> HIDE DEF worth
    <3> QED
      BY <3>2
  <2>2. ASSUME NEW t \in worth, NEW u \in worth, t # u PROVE <<t, u>> \in R \/ <<u, t>> \in R
    <3>1. t \in Pieces(max) /\ u \in Pieces(max)
      BY <1>2
    <3>2. Savings(t, found) \in Int /\ Savings(u, found) \in Int
      BY <1>3, <3>1
    <3>3. Less(t, u) \/ Less(u, t)
      BY <2>2, <3>1, LessIsAnOrder DEF Pieces
    <3> HIDE DEF worth
    <3> QED
      BY <3>2, <3>3
  <2>3. ASSUME NEW t \in worth, NEW u \in worth, NEW v \in worth, <<t, u>> \in R, <<u, v>> \in R
        PROVE  <<t, v>> \in R
    <3>1. t \in Pieces(max) /\ u \in Pieces(max) /\ v \in Pieces(max)
      BY <1>2
    <3>2. Savings(t, found) \in Int /\ Savings(u, found) \in Int /\ Savings(v, found) \in Int
      BY <1>3, <3>1
    <3>3. Less(t, u) /\ Less(u, v) => Less(t, v)
      BY <3>1, LessIsAnOrder DEF Pieces
    <3> HIDE DEF worth
    <3> QED
      BY <2>3, <3>2, <3>3
  <2> HIDE DEF worth, R
  <2> QED
    BY <2>1, <2>2, <2>3 DEF StrictOrder
<1>5. ASSUME NEW t \in worth PROVE {u \in worth : <<u, t>> \in R} = {u \in worth : Before(u, t)}
  <2> HIDE DEF worth, Before
  <2> QED
    OBVIOUS
<1>6. \A r \in 1 .. Cardinality(worth) : \E t \in worth : Rank(t) = r
  <2> HIDE DEF worth, R, Before
  <2>1. \A r \in 1 .. Cardinality(worth) :
          \E t \in worth : Cardinality({u \in worth : <<u, t>> \in R}) + 1 = r
    BY <1>1, <1>4, RankOnto
  <2> QED
    BY <1>5, <2>1
<1>7. n \in Nat /\ n <= Cardinality(worth) /\ n <= MaxDictTokens
  <2>1. Cardinality(worth) \in Nat /\ MaxDynamicTokens \in Nat /\ MaxDictTokens \in Nat
    <3> HIDE DEF worth
    <3> QED
      BY <1>1, FS_CardinalityType, ClassesAssumption, LimitsAssumption DEF MaxDictTokens
  <2> HIDE DEF worth
  <2> QED
    BY <2>1, LeastOfThree
<1> DEFINE d == [r \in 1 .. n |-> CHOOSE t \in worth : Rank(t) = r]
<1>8. d = Dictionary(found, often, profit)
  BY DEF Dictionary
<1>9. ASSUME NEW r \in 1 .. n PROVE (CHOOSE t \in worth : Rank(t) = r) \in Pieces(max)
  <2> HIDE DEF n, worth, Rank
  <2>1. r \in 1 .. Cardinality(worth)
    <3>1. Cardinality(worth) \in Nat
      BY <1>1, FS_CardinalityType
    <3> QED
      BY <1>7, <3>1
  <2> QED
    BY <1>2, <1>6, <2>1
<1> HIDE DEF n, worth, Rank
<1>10. d \in Seq(Pieces(max)) /\ Len(d) = n
  BY <1>7, <1>9
<1> HIDE DEF d
<1> QED
  BY <1>7, <1>8, <1>10

-----------------------------------------------------------------------------
(* A stored table: at[k] bytes hold the number of tokens and k entries.    *)
EntryAt(x, p, t) == x[p + 1] = Len(t) /\ \A i \in 1 .. Len(t) : x[p + 1 + i] = t[i]

LaidOut(at, ts, x) ==
  /\ at \in [0 .. Len(ts) -> Nat]
  /\ at[0] = 1 /\ at[Len(ts)] = Len(x) /\ x[1] = Len(ts)
  /\ \A k \in 1 .. Len(ts) : at[k] = at[k - 1] + 1 + Len(ts[k])
  /\ \A k \in 1 .. Len(ts) : at[k] <= Len(x) /\ EntryAt(x, at[k - 1], ts[k])

LEMMA EntryStays ==
  ASSUME NEW x \in Seq(Nat), NEW y \in Seq(Nat), NEW t \in Seq(Nat), NEW p \in Nat,
         p + 1 + Len(t) <= Len(x), EntryAt(x, p, t)
  PROVE  EntryAt(x \o y, p, t)
<1>1. \A i \in 1 .. Len(x) : (x \o y)[i] = x[i]
  OBVIOUS
<1>2. p + 1 \in 1 .. Len(x) /\ \A i \in 1 .. Len(t) : p + 1 + i \in 1 .. Len(x)
  OBVIOUS
<1> QED
  BY <1>1, <1>2 DEF EntryAt

LEMMA EntryBehind ==
  ASSUME NEW x \in Seq(Nat), NEW t \in Seq(Nat)
  PROVE  /\ x \o <<Len(t)>> \o t = x \o (<<Len(t)>> \o t)
         /\ <<Len(t)>> \o t \in Seq(Nat)
<1> DEFINE l == <<Len(t)>>
<1>1. l \in Seq(Nat)
  OBVIOUS
<1> HIDE DEF l
<1>2. (x \o l) \o t = x \o (l \o t) /\ l \o t \in Seq(Nat)
  BY <1>1, Associative, ConcatLength, SMTT(30)
<1> QED
  BY <1>2 DEF l

LEMMA EntryAppended ==
  ASSUME NEW x \in Seq(Nat), NEW t \in Seq(Nat)
  PROVE  /\ x \o <<Len(t)>> \o t \in Seq(Nat)
         /\ Len(x \o <<Len(t)>> \o t) = Len(x) + 1 + Len(t)
         /\ EntryAt(x \o <<Len(t)>> \o t, Len(x), t)
<1> DEFINE y == x \o <<Len(t)>>
<1>1. y \in Seq(Nat) /\ Len(y) = Len(x) + 1 /\ y[Len(x) + 1] = Len(t)
  OBVIOUS
<1> HIDE DEF y
<1>2. y \o t \in Seq(Nat) /\ Len(y \o t) = Len(y) + Len(t)
  BY <1>1, ConcatLength
<1>3. (y \o t)[Len(x) + 1] = Len(t) /\ \A i \in 1 .. Len(t) : (y \o t)[Len(x) + 1 + i] = t[i]
  <2>1. \A i \in 1 .. Len(y) : (y \o t)[i] = y[i]
    BY <1>1
  <2>2. \A i \in 1 .. Len(t) : (y \o t)[Len(y) + i] = t[i]
    BY <1>1, SMTT(30)
  <2>3. Len(x) + 1 \in 1 .. Len(y)
    BY <1>1
  <2> QED
    BY <1>1, <2>1, <2>2, <2>3
<1> QED
  BY <1>1, <1>2, <1>3 DEF EntryAt, y

LEMMA TableIs ==
  ASSUME NEW ts \in Seq(Seq(Nat))
  PROVE  Table(ts) \in Seq(Nat) /\ \E at : LaidOut(at, ts, Table(ts))
<1> DEFINE n == Len(ts)
           T == Seq(Nat)
           step == [k \in 1 .. n |-> [x \in T |-> x \o <<Len(ts[k])>> \o ts[k]]]
           Body(f) == [k \in 0 .. Len(ts) |->
             IF k = 0 THEN <<Len(ts)>> ELSE f[k - 1] \o <<Len(ts[k])>> \o ts[k]]
           e == CHOOSE f : f = Body(f)
<1>1. n \in Nat /\ <<n>> \in T /\ \A k \in 1 .. n : ts[k] \in T
  OBVIOUS
<1>2. step \in [1 .. n -> [T -> T]]
  <2>1. ASSUME NEW k \in 1 .. n, NEW x \in T PROVE x \o <<Len(ts[k])>> \o ts[k] \in T
    BY <1>1, EntryAppended
  <2> HIDE DEF T, n
  <2> QED
    BY <2>1
<1>3. PICK f \in [0 .. n -> T] : Climbs(f, n, <<n>>, step)
  <2> HIDE DEF n, T, step
  <2> QED
    BY <1>1, <1>2, ForwardRecursion
<1>4. f[0] = <<n>> /\ \A k \in 1 .. n : f[k] = step[k][f[k - 1]]
  <2> HIDE DEF step
  <2> QED
    BY <1>3 DEF Climbs
<1>5. \A k \in 0 .. n : f[k] = Body(f)[k]
  <2>1. ASSUME NEW k \in 1 .. n PROVE f[k] = f[k - 1] \o <<Len(ts[k])>> \o ts[k]
    <3>1. k - 1 \in 0 .. n /\ f[k - 1] \in T
      <4> HIDE DEF T
      <4>1. k - 1 \in 0 .. n
        OBVIOUS
      <4> QED
        BY <1>3, <4>1
    <3>2. f[k] = step[k][f[k - 1]]
      <4> HIDE DEF step
      <4> QED
        BY <1>4
    <3> HIDE DEF T
    <3> QED
      BY <3>1, <3>2
  <2>2. \A h : Body(h)[0] = <<n>> /\ \A k \in 1 .. n : Body(h)[k] = h[k - 1] \o <<Len(ts[k])>> \o ts[k]
    BY <1>1
  <2>3. \A k \in 0 .. n : k = 0 \/ k \in 1 .. n
    BY <1>1
  <2> HIDE DEF step, Body
  <2> QED
    BY <1>4, <2>1, <2>2, <2>3
<1>6. f = Body(f)
  <2>1. \A h : Body(h) = [k \in 0 .. n |-> Body(h)[k]]
    OBVIOUS
  <2>2. f = [k \in 0 .. n |-> f[k]]
    BY <1>3
  <2> HIDE DEF Body
  <2> QED
    BY <1>5, <2>1, <2>2
<1>7. e = Body(e)
  <2> HIDE DEF Body
  <2> QED
    BY <1>6
<1>8. e[0] = <<n>> /\ \A k \in 1 .. n : e[k] = e[k - 1] \o <<Len(ts[k])>> \o ts[k]
  <2>1. \A h : Body(h)[0] = <<n>> /\ \A k \in 1 .. n : Body(h)[k] = h[k - 1] \o <<Len(ts[k])>> \o ts[k]
    BY <1>1
  <2> HIDE DEF Body, e
  <2> QED
    BY <1>7, <2>1
<1>9. Table(ts) = e[n]
  BY DEF Table
<1> HIDE DEF e, Body, step
<1> DEFINE Laid(k, x) == Len(e[k]) <= Len(x) /\ EntryAt(x, Len(e[k - 1]), ts[k])
           Good(j) == /\ e[j] \in T /\ e[j][1] = n /\ Len(e[j]) >= 1
                      /\ \A k \in 1 .. j :
                           /\ Len(e[k]) \in Nat /\ Len(e[k - 1]) \in Nat
                           /\ Len(e[k]) = Len(e[k - 1]) + 1 + Len(ts[k])
                           /\ Laid(k, e[j])
           Bad == {j \in Nat : j <= n /\ ~Good(j)}
<1>10. Good(0)
  BY <1>1, <1>8
<1>11. ASSUME NEW j \in 1 .. n, Good(j - 1) PROVE Good(j)
  <2> DEFINE x == e[j - 1]
             y == <<Len(ts[j])>> \o ts[j]
  <2>1. x \in T /\ x[1] = n /\ Len(x) >= 1 /\ ts[j] \in T
    <3> HIDE DEF Laid
    <3> QED
      BY <1>1, <1>11
  <2>2. e[j] = x \o <<Len(ts[j])>> \o ts[j]
    BY <1>8
  <2>3. e[j] = x \o y /\ y \in T
    BY <2>1, <2>2, EntryBehind
  <2>4. e[j] \in T /\ Len(e[j]) = Len(x) + 1 + Len(ts[j]) /\ EntryAt(e[j], Len(x), ts[j])
    BY <2>1, <2>2, EntryAppended
  <2>5. e[j][1] = n /\ Len(x) \in Nat /\ Len(ts[j]) \in Nat
    <3> HIDE DEF x, y
    <3>1. 1 \in 1 .. Len(x)
      BY <2>1
    <3> QED
      BY <2>1, <2>3, <3>1
  <2>10. /\ Len(e[j]) \in Nat /\ Len(e[j]) <= Len(e[j])
         /\ Len(x) <= Len(e[j]) /\ Len(e[j]) >= 1
    <3>1. Len(e[j]) = Len(x) + 1 + Len(ts[j]) /\ Len(x) \in Nat /\ Len(ts[j]) \in Nat
      BY <2>4, <2>5
    <3>2. \A a, b, c : a = b + 1 + c /\ b \in Nat /\ c \in Nat =>
            a \in Nat /\ a <= a /\ b <= a /\ a >= 1
      OBVIOUS
    <3> QED
      BY <3>1, <3>2
  <2>6. ASSUME NEW k \in 1 .. j - 1
        PROVE  /\ Len(e[k]) \in Nat /\ Len(e[k - 1]) \in Nat
               /\ Len(e[k]) = Len(e[k - 1]) + 1 + Len(ts[k])
               /\ Laid(k, e[j])
    <3>1. /\ Len(e[k]) \in Nat /\ Len(e[k - 1]) \in Nat
          /\ Len(e[k]) = Len(e[k - 1]) + 1 + Len(ts[k])
          /\ Len(e[k]) <= Len(x) /\ EntryAt(x, Len(e[k - 1]), ts[k])
      BY <1>11
    <3>2. k \in 1 .. n /\ ts[k] \in T
      BY <1>1
    <3>3. EntryAt(x \o y, Len(e[k - 1]), ts[k])
      <4> HIDE DEF x, y
      <4> QED
        BY <2>1, <2>3, <3>1, <3>2, EntryStays
    <3>4. Len(e[k]) <= Len(e[j])
      <4>1. \A a, b, c \in Nat : a <= b /\ b <= c => a <= c
        OBVIOUS
      <4> QED
        BY <2>5, <2>10, <3>1, <4>1
    <3> QED
      BY <2>3, <3>1, <3>3, <3>4
  <2>7. /\ Len(e[j]) \in Nat /\ Len(e[j - 1]) \in Nat
        /\ Len(e[j]) = Len(e[j - 1]) + 1 + Len(ts[j])
        /\ Laid(j, e[j])
    <3> HIDE DEF T
    <3> QED
      BY <2>4, <2>5, <2>10
  <2> HIDE DEF Laid, T
  <2>9. \A k \in 1 .. j : k = j \/ k \in 1 .. j - 1
    OBVIOUS
  <2> QED
    BY <2>4, <2>5, <2>6, <2>7, <2>9, <2>10
<1> HIDE DEF Good
<1>12. Good(n)
  <2> SUFFICES ASSUME ~Good(n) PROVE FALSE
    OBVIOUS
  <2>1. n \in Bad /\ Bad \in SUBSET Nat
    BY <1>1
  <2>2. PICK j \in Bad : \A m \in Bad : j <= m
    <3> HIDE DEF Bad
    <3> QED
      BY <2>1, SmallestNat
  <2>3. j # 0 /\ j \in 1 .. n
    BY <1>10, <2>2
  <2>4. j - 1 \in Nat /\ j - 1 <= n /\ ~(j <= j - 1)
    BY <2>3
  <2>5. Good(j - 1)
    BY <2>2, <2>4
  <2> QED
    BY <1>11, <2>2, <2>3, <2>5
<1>13. e[n] \in T
  BY <1>12 DEF Good
<1> DEFINE at == [k \in 0 .. n |-> Len(e[k])]
<1>14. LaidOut(at, ts, e[n])
  <2>1. /\ e[n] \in T /\ e[n][1] = n
        /\ \A k \in 1 .. n :
             /\ Len(e[k]) \in Nat /\ Len(e[k - 1]) \in Nat
             /\ Len(e[k]) = Len(e[k - 1]) + 1 + Len(ts[k])
             /\ Len(e[k]) <= Len(e[n]) /\ EntryAt(e[n], Len(e[k - 1]), ts[k])
    BY <1>12 DEF Good
  <2>2. Len(e[0]) = 1
    BY <1>8
  <2>3. \A k \in 0 .. n : Len(e[k]) \in Nat
    <3>1. \A k \in 0 .. n : k = 0 \/ k \in 1 .. n
      BY <1>1
    <3> QED
      BY <2>1, <2>2, <3>1
  <2>4. 0 \in 0 .. n /\ n \in 0 .. n /\ \A k \in 1 .. n : k \in 0 .. n /\ k - 1 \in 0 .. n
    BY <1>1
  <2> HIDE DEF T
  <2> QED
    BY <2>1, <2>2, <2>3, <2>4 DEF LaidOut
<1> HIDE DEF at
<1> QED
  BY <1>9, <1>13, <1>14

-----------------------------------------------------------------------------
(* Differences are undone by sums.                                         *)
LEMMA MinusType ==
  ASSUME NEW b \in Octet, NEW c \in Octet
  PROVE  Minus(b, c) = IF b >= c THEN b - c ELSE b - c + LiteralTag + 1
<1>1. LiteralTag \in Nat
  BY ClassesAssumption
<1>2. CASE b >= c
  <2>1. b - c \in 0 .. LiteralTag
    BY <1>1, <1>2 DEF Octet
  <2>2. (0 * (LiteralTag + 1) + (b - c)) % (LiteralTag + 1) = b - c
    BY <1>1, <2>1, Remainder
  <2> QED
    BY <1>1, <1>2, <2>1, <2>2 DEF Minus
<1>3. CASE ~(b >= c)
  <2> DEFINE d == LiteralTag + 1
             x == b - c
             q == x \div d
             r == x % d
  <2>1. d \in Nat \ {0} /\ x \in Int /\ x < 0 /\ x >= -LiteralTag
    BY <1>1, <1>3 DEF Octet
  <2> HIDE DEF d, x
  <2>2. q \in Int /\ r \in 0 .. d - 1 /\ x = d * q + r
    BY <2>1
  <2> HIDE DEF q, r
  <2>3. q = -1
    <3>1. CASE q >= 0
      <4>1. d * q >= 0
        BY <2>1, <2>2, <3>1
      <4> QED
        BY <2>1, <2>2, <4>1
    <3>2. CASE q <= -2
      <4>1. d * q <= d * (-2)
        BY <2>1, <2>2, <3>2
      <4>2. d * (-2) = - (d + d)
        BY <2>1
      <4>3. x <= - (d + d) + (d - 1)
        BY <2>1, <2>2, <4>1, <4>2
      <4>4. d = LiteralTag + 1
        BY DEF d
      <4> QED
        BY <1>1, <2>1, <4>3, <4>4
    <3> QED
      BY <2>2, <3>1, <3>2
  <2>4. x = r - d
    BY <2>1, <2>2, <2>3
  <2>5. r = x + d
    BY <2>1, <2>2, <2>4
  <2> QED
    BY <1>1, <1>3, <2>5 DEF Minus, x, r, d, Octet
<1> QED
  BY <1>2, <1>3

LEMMA PlusMinus ==
  ASSUME NEW b \in Octet, NEW c \in Octet
  PROVE  Minus(b, c) \in Octet /\ (c + Minus(b, c)) % (LiteralTag + 1) = b
<1>1. LiteralTag \in Nat
  BY ClassesAssumption
<1>2. CASE b >= c
  <2>1. Minus(b, c) = b - c
    BY <1>2, MinusType
  <2>2. (0 * (LiteralTag + 1) + b) % (LiteralTag + 1) = b
    BY <1>1, Remainder DEF Octet
  <2> QED
    BY <1>1, <1>2, <2>1, <2>2 DEF Octet
<1>3. CASE ~(b >= c)
  <2>1. Minus(b, c) = b - c + LiteralTag + 1
    BY <1>3, MinusType
  <2>2. (1 * (LiteralTag + 1) + b) % (LiteralTag + 1) = b
    BY <1>1, Remainder DEF Octet
  <2>3. c + (b - c + LiteralTag + 1) = 1 * (LiteralTag + 1) + b
    BY <1>1 DEF Octet
  <2> QED
    BY <1>1, <1>3, <2>1, <2>2, <2>3 DEF Octet
<1> QED
  BY <1>2, <1>3

LEMMA DifferencesType ==
  ASSUME NEW s \in Seq(Octet), NEW stride \in Nat \ {0}
  PROVE  Differences(s, stride) \in Seq(Octet) /\ Len(Differences(s, stride)) = Len(s)
<1>1. ASSUME NEW i \in 1 .. Len(s)
      PROVE  (IF i <= stride THEN s[i] ELSE Minus(s[i], s[i - stride])) \in Octet
  <2>1. s[i] \in Octet
    OBVIOUS
  <2>2. CASE i <= stride
    BY <2>1, <2>2
  <2>3. CASE ~(i <= stride)
    <3>1. i - stride \in 1 .. Len(s)
      BY <2>3
    <3>2. s[i - stride] \in Octet
      BY <3>1
    <3>3. Minus(s[i], s[i - stride]) \in Octet
      BY <2>1, <3>2, PlusMinus
    <3> QED
      BY <2>3, <3>3
  <2> QED
    BY <2>2, <2>3
<1> QED
  BY <1>1 DEF Differences

LEMMA SumsOfDifferences ==
  ASSUME NEW s \in Seq(Octet), NEW stride \in Nat \ {0}
  PROVE  Sums(Differences(s, stride), stride) = s
<1> DEFINE d == Differences(s, stride)
           n == Len(s)
           Body(f) == [i \in 1 .. Len(d) |->
             IF i <= stride THEN d[i] ELSE (f[i - stride] + d[i]) % (LiteralTag + 1)]
           g == CHOOSE f : f = Body(f)
           Bad == {i \in Nat : i \in 1 .. n /\ g[i] # s[i]}
<1>1. Len(d) = n /\ n \in Nat
  BY DifferencesType
<1>2. \A i \in 1 .. n : d[i] = IF i <= stride THEN s[i] ELSE Minus(s[i], s[i - stride])
  BY DEF Differences
<1>3. ASSUME NEW i \in 1 .. n, i > stride
      PROVE  (s[i - stride] + d[i]) % (LiteralTag + 1) = s[i]
  <2>1. i - stride \in 1 .. n /\ ~(i <= stride)
    BY <1>3
  <2>2. s[i] \in Octet /\ s[i - stride] \in Octet
    BY <2>1
  <2> HIDE DEF d
  <2>3. d[i] = Minus(s[i], s[i - stride])
    BY <1>2, <2>1
  <2> QED
    BY <2>2, <2>3, PlusMinus
<1>4. \A f : Body(f) = [i \in 1 .. n |->
             IF i <= stride THEN d[i] ELSE (f[i - stride] + d[i]) % (LiteralTag + 1)]
  <2> HIDE DEF d
  <2> QED
    BY <1>1
<1> HIDE DEF d
<1>5. \A i \in 1 .. n : s[i] = Body(s)[i]
  <2>1. ASSUME NEW i \in 1 .. n PROVE s[i] = Body(s)[i]
    <3>1. Body(s)[i] = IF i <= stride THEN d[i] ELSE (s[i - stride] + d[i]) % (LiteralTag + 1)
      <4> HIDE DEF Body
      <4> QED
        BY <1>4
    <3> HIDE DEF Body
    <3>2. CASE i <= stride
      BY <1>2, <3>1, <3>2
    <3>3. CASE ~(i <= stride)
      BY <1>3, <3>1, <3>3
    <3> QED
      BY <3>2, <3>3
  <2> QED
    BY <2>1
<1>6. s = Body(s)
  <2>1. s = [i \in 1 .. n |-> s[i]]
    OBVIOUS
  <2>2. Body(s) = [i \in 1 .. n |-> Body(s)[i]]
    <3> HIDE DEF Body
    <3> QED
      BY <1>4
  <2> HIDE DEF Body
  <2> QED
    BY <1>5, <2>1, <2>2
<1>7. g = Body(g)
  <2> HIDE DEF Body
  <2> QED
    BY <1>6
<1>8. \A i \in 1 .. n : g[i] = IF i <= stride THEN d[i] ELSE (g[i - stride] + d[i]) % (LiteralTag + 1)
  <2> HIDE DEF Body, g
  <2> QED
    BY <1>4, <1>7
<1>9. Sums(d, stride) = [i \in 1 .. Len(d) |-> g[i]]
  BY DEF Sums
<1> HIDE DEF g, Body
<1>10. Bad = {}
  <2> SUFFICES ASSUME Bad # {} PROVE FALSE
    OBVIOUS
  <2>1. PICK i \in Bad : \A m \in Bad : i <= m
    <3>1. Bad \in SUBSET Nat
      OBVIOUS
    <3> HIDE DEF Bad
    <3> QED
      BY <3>1, SmallestNat
  <2>2. i \in 1 .. n /\ g[i] # s[i]
    BY <2>1
  <2>3. CASE i <= stride
    BY <1>2, <1>8, <2>2, <2>3
  <2>4. CASE ~(i <= stride)
    <3>1. i - stride \in 1 .. n /\ ~(i <= i - stride) /\ i - stride \in Nat
      BY <2>2, <2>4
    <3>2. i - stride \notin Bad
      BY <2>1, <3>1
    <3>3. g[i - stride] = s[i - stride]
      BY <3>1, <3>2
    <3>4. g[i] = (s[i - stride] + d[i]) % (LiteralTag + 1)
      BY <1>8, <2>2, <2>4, <3>3
    <3> QED
      BY <1>3, <2>2, <2>4, <3>4
  <2> QED
    BY <2>3, <2>4
<1>11. \A i \in 1 .. n : g[i] = s[i]
  <2>1. \A i \in 1 .. n : i \in Nat
    OBVIOUS
  <2> QED
    BY <1>10, <2>1
<1> QED
  <2>1. [i \in 1 .. n |-> g[i]] = [i \in 1 .. n |-> s[i]]
    BY <1>11
  <2> QED
    BY <1>1, <1>9, <2>1 DEF d

-----------------------------------------------------------------------------
(* The inductive invariant of the bounds: types, and what the decoder knows*)
(* of the head when it reads on in it.                                     *)
Payloads == [head : Seq(Nat), data : Seq(Octet), size : Nat]

KnownAttempts ==
  {Attempt(StaticDictionary, DictIdJson), Attempt(StaticDictionary, DictIdWeb),
   Attempt(Json, 0), Attempt(Text, 0),
   Attempt(Delta, 1), Attempt(Delta, 2), Attempt(Delta, 4)}

EncoderSteps == {"detect", "begin", "substitute", "weigh"}
HeadSteps == {"header", "meta", "table"}

StatesTyped ==
  /\ pc \in EncoderSteps \cup HeadSteps \cup {"invert", "check", "done"}
  /\ src \in Seq(Octet)
  /\ attempts \in Seq(KnownAttempts)
  /\ best \in Seq(Payloads)
  /\ tokens \in Seq(Seq(Nat)) /\ esc \in Nat
  /\ transformed \in Seq(Octet) /\ pos \in Nat
  /\ payload \in Payloads /\ expected \in Nat /\ limit \in Nat
  /\ cursor \in Nat

OutputTyped ==
  /\ pc \in EncoderSteps \cup HeadSteps => out = <<>>
  /\ pc = "invert" => out \in Seq(Nat)
  /\ Len(out) \in Nat /\ Len(out) <= limit
  /\ result = "ok" => pc = "done" /\ Len(out) = expected

HeadRead ==
  /\ pc = "substitute" => esc \in Octet
  /\ pc \in {"substitute", "weigh"} => attempts # <<>>
  /\ pc = "meta" => cursor = 3 /\ Len(payload.head) >= 3
  /\ pc = "table" => 6 <= Len(payload.head) /\ MetaEnd <= Len(payload.head)

BoundInv == StatesTyped /\ OutputTyped /\ HeadRead

LEMMA BytesAreNumbers ==
  /\ LiteralTag \in Nat /\ MaxDictTokens \in Nat /\ MaxDictTokens < LiteralTag
  /\ Octet \subseteq Nat /\ Seq(Octet) \subseteq Seq(Nat)
  /\ Seq(Seq(Octet)) \subseteq Seq(Seq(Nat))
<1>1. LiteralTag \in Nat /\ LiteralTag > 1
  BY ClassesAssumption
<1>2. Octet \subseteq Nat
  BY <1>1 DEF Octet
<1>3. Seq(Octet) \subseteq Seq(Nat)
  <2> SUFFICES ASSUME NEW s \in Seq(Octet) PROVE s \in Seq(Nat)
    OBVIOUS
  <2>1. \A i \in 1 .. Len(s) : s[i] \in Nat
    BY <1>2, ElementOfSeq
  <2> QED
    BY <2>1
<1>4. Seq(Seq(Octet)) \subseteq Seq(Seq(Nat))
  <2> SUFFICES ASSUME NEW s \in Seq(Seq(Octet)) PROVE s \in Seq(Seq(Nat))
    OBVIOUS
  <2>1. \A i \in 1 .. Len(s) : s[i] \in Seq(Nat)
    BY <1>3
  <2> QED
    BY <2>1
<1> QED
  BY <1>1, <1>2, <1>3, <1>4 DEF MaxDictTokens

LEMMA PiecesAreStrings ==
  ASSUME NEW max, NEW ts \in Seq(Pieces(max))
  PROVE  ts \in Seq(Seq(Octet))
<1>1. \A i \in 1 .. Len(ts) : ts[i] \in Seq(Octet)
  BY DEF Pieces
<1> QED
  BY <1>1

LEMMA OwnDictionaries ==
  ASSUME NEW s \in Seq(Octet)
  PROVE  /\ JsonDictionary(s) \in Seq(Pieces(MaxJsonToken))
         /\ TextDictionary(s) \in Seq(Pieces(MaxTokenLen))
         /\ JsonDictionary(s) \in Seq(Seq(Octet)) /\ TextDictionary(s) \in Seq(Seq(Octet))
<1>1. MaxJsonToken \in Int /\ MaxTokenLen \in Int
  BY LimitsAssumption, ClassesAssumption
<1>2. JsonDictionary(s) \in Seq(Pieces(MaxJsonToken))
  BY <1>1, JsonTokensType, DictionaryType DEF JsonDictionary
<1>3. TextDictionary(s) \in Seq(Pieces(MaxTokenLen))
  BY <1>1, WordsType, DictionaryType DEF TextDictionary
<1> QED
  BY <1>2, <1>3, PiecesAreStrings

LEMMA DictionaryForType ==
  ASSUME src \in Seq(Octet), NEW a \in KnownAttempts, a.type # Delta
  PROVE  DictionaryFor(a) \in Seq(Seq(Octet))
<1>1. JsonDict \in Seq(Seq(Octet)) /\ WebDict \in Seq(Seq(Octet))
  <2>1. ASSUME NEW d \in Seq(Seq(Octet) \ {<<>>}) PROVE d \in Seq(Seq(Octet))
    <3>1. \A i \in 1 .. Len(d) : d[i] \in Seq(Octet)
      OBVIOUS
    <3> QED
      BY <3>1
  <2> QED
    BY <2>1, EncoderAssumption
<1> QED
  BY <1>1, OwnDictionaries DEF DictionaryFor, StaticDict

LEMMA InitBound == PrefilterInit => BoundInv
<1> SUFFICES ASSUME PrefilterInit PROVE BoundInv
  OBVIOUS
<1>1. src \in Seq(Octet) /\ payload \in Payloads /\ expected \in Nat /\ limit \in Nat
  <2>1. CASE InitEncoder
    <3>1. NoPayload \in Payloads
      BY DEF NoPayload, Payloads
    <3> QED
      BY <2>1, <3>1, EncoderAssumption DEF InitEncoder
  <2>2. CASE InitDecoder
    BY <2>2, PayloadsAssumption DEF InitDecoder, Payloads
  <2> QED
    BY <2>1, <2>2 DEF PrefilterInit
<1>2. pc \in {"detect", "header"}
  BY DEF PrefilterInit, InitEncoder, InitDecoder
<1>3. StatesTyped
  BY <1>1, <1>2 DEF PrefilterInit, StatesTyped, EncoderSteps, HeadSteps
<1>4. OutputTyped /\ HeadRead
  BY <1>1, <1>2 DEF PrefilterInit, OutputTyped, HeadRead
<1> QED
  BY <1>3, <1>4 DEF BoundInv

LEMMA EncoderBound ==
  ASSUME BoundInv, Encode
  PROVE  BoundInv'
<1> USE BytesAreNumbers DEF BoundInv, StatesTyped, OutputTyped, HeadRead, EncoderSteps, HeadSteps
<1>1. ASSUME Detect PROVE BoundInv'
  <2>1. Attempts(src) \in Seq(KnownAttempts)
    <3>1. \A a, b, c \in KnownAttempts : <<a, b>> \in Seq(KnownAttempts) /\ <<a, b, c>> \in Seq(KnownAttempts)
      OBVIOUS
    <3>2. /\ <<Attempt(StaticDictionary, DictIdJson), Attempt(Json, 0)>> \in Seq(KnownAttempts)
          /\ <<Attempt(StaticDictionary, DictIdWeb), Attempt(Text, 0)>> \in Seq(KnownAttempts)
          /\ <<Attempt(Delta, 1), Attempt(Delta, 2), Attempt(Delta, 4)>> \in Seq(KnownAttempts)
      BY <3>1, Zenon DEF KnownAttempts
    <3> QED
      BY <3>2 DEF Attempts
  <2> QED
    BY <1>1, <2>1 DEF Detect, Return, dictVars, callVars
<1>2. ASSUME BeginDictionary PROVE BoundInv'
  <2>1. attempts[1] \in KnownAttempts /\ attempts[1].type # Delta /\ attempts # <<>>
    BY <1>2 DEF BeginDictionary
  <2>2. tokens' \in Seq(Seq(Nat))
    BY <1>2, <2>1, DictionaryForType DEF BeginDictionary
  <2>3. Tail(attempts) \in Seq(KnownAttempts)
    BY <2>1
  <2>4. CASE tokens' = <<>>
    <3>1. attempts' \in Seq(KnownAttempts) /\ pc' = "begin" /\ UNCHANGED esc
      BY <1>2, <2>3, <2>4 DEF BeginDictionary
    <3> QED
      BY <1>2, <2>2, <3>1 DEF BeginDictionary, callVars
  <2>5. CASE tokens' # <<>>
    <3>1. UNCHANGED attempts /\ pc' = "substitute" /\ esc' \in Octet
      BY <1>2, <2>5 DEF BeginDictionary
    <3> QED
      BY <1>2, <2>1, <2>2, <3>1 DEF BeginDictionary, callVars
  <2> QED
    BY <2>4, <2>5
<1>3. ASSUME BeginDelta PROVE BoundInv'
  <2>1. attempts[1] \in KnownAttempts /\ attempts[1].type = Delta /\ attempts # <<>>
    BY <1>3 DEF BeginDelta
  <2>2. attempts[1].arg \in Nat \ {0}
    BY <2>1 DEF KnownAttempts, Attempt, Delta, StaticDictionary, Json, Text
  <2>3. transformed' \in Seq(Octet)
    BY <1>3, <2>2, DifferencesType DEF BeginDelta
  <2> QED
    BY <1>3, <2>1, <2>3 DEF BeginDelta, encodeVars, dictVars, callVars
<1>4. ASSUME SubstituteToken PROVE BoundInv'
  <2>1. PICK k \in 1 .. Len(tokens) :
          /\ Worthwhile(k)
          /\ transformed' = transformed \o <<esc, k - 1>>
          /\ pos' = pos + Len(tokens[k])
    BY <1>4 DEF SubstituteToken
  <2>2. k - 1 \in Octet /\ esc \in Octet
    BY <1>4, <2>1 DEF SubstituteToken, Worthwhile, IsBest, Matches, Referable, Octet
  <2>3. transformed' \in Seq(Octet)
    BY <2>1, <2>2
  <2>4. pos' \in Nat
    BY <2>1, SMTT(30)
  <2> QED
    BY <1>4, <2>3, <2>4 DEF SubstituteToken, encodeVars, dictVars, callVars
<1>5. ASSUME CopyByte PROVE BoundInv'
  <2>1. src[pos + 1] \in Octet /\ esc \in Octet /\ LiteralTag \in Octet
    BY <1>5, SMTT(30) DEF CopyByte, Octet
  <2>2. Literal(src[pos + 1]) \in Seq(Octet)
    BY <2>1 DEF Literal
  <2>3. transformed' \in Seq(Octet) /\ pos' \in Nat
    BY <1>5, <2>2, ConcatLength DEF CopyByte
  <2> QED
    BY <1>5, <2>3 DEF CopyByte, encodeVars, dictVars, callVars
<1>6. ASSUME SubstituteEnds PROVE BoundInv'
  BY <1>6 DEF SubstituteEnds, encodeVars, dictVars, callVars
<1>7. ASSUME Weigh PROVE BoundInv'
  <2> DEFINE a == attempts[1]
  <2>1. a \in KnownAttempts /\ attempts # <<>>
    BY <1>7 DEF Weigh
  <2>2. a.type \in Nat /\ a.arg \in Nat /\ Tail(attempts) \in Seq(KnownAttempts)
    BY <2>1, SMTT(30) DEF KnownAttempts, Attempt, Delta, StaticDictionary, Json, Text, DictIdJson, DictIdWeb
  <2>3. Table(tokens) \in Seq(Nat)
    BY TableIs
  <2>4. Meta(a) \in Seq(Nat)
    <3> HIDE DEF a
    <3>1. <<a.arg>> \in Seq(Nat) /\ <<a.arg, DictVersion, esc>> \in Seq(Nat)
      BY <2>2 DEF DictVersion
    <3>2. <<1 + Len(Table(tokens)), esc>> \in Seq(Nat)
      BY <2>3
    <3>3. <<1 + Len(Table(tokens)), esc>> \o Table(tokens) \in Seq(Nat)
      BY <2>3, <3>2, ConcatLength
    <3> QED
      BY <3>1, <3>3 DEF Meta
  <2>5. ASSUME NEW comp \in CompSizes, NEW backend \in {0, 1}
        PROVE  <<[head |-> <<backend, a.type, Len(transformed)>> \o Meta(a),
                  data |-> transformed, size |-> HeadBytes(a) + comp]>> \in Seq(Payloads)
    <3> HIDE DEF a
    <3>1. <<backend, a.type, Len(transformed)>> \in Seq(Nat)
      BY <2>2
    <3>2. <<backend, a.type, Len(transformed)>> \o Meta(a) \in Seq(Nat)
      BY <2>4, <3>1, ConcatLength
    <3>3. HeadBytes(a) + comp \in Nat
      <4>1. Len(Meta(a)) \in Nat
        BY <2>4
      <4>2. comp \in Nat
        BY EncoderAssumption
      <4> QED
        BY <4>1, <4>2 DEF HeadBytes
    <3> QED
      BY <3>2, <3>3 DEF Payloads
  <2>6. best' \in Seq(Payloads)
    <3>1. PICK comp \in CompSizes :
            \/ \E backend \in {0, 1} :
                best' = <<[head |-> <<backend, a.type, Len(transformed)>> \o Meta(a),
                           data |-> transformed, size |-> HeadBytes(a) + comp]>>
            \/ UNCHANGED best
      BY <1>7 DEF Weigh
    <3> QED
      BY <2>5, <3>1
  <2> QED
    BY <1>7, <2>2, <2>6 DEF Weigh, dictVars, callVars
<1>8. ASSUME Deliver PROVE BoundInv'
  <2>1. CASE best = <<>>
    BY <1>8, <2>1 DEF Deliver, Return, encodeVars, dictVars, callVars
  <2>2. CASE best # <<>>
    <3>1. best[1] \in Payloads
      BY <2>2
    <3> QED
      BY <1>8, <2>2, <3>1 DEF Deliver, encodeVars, dictVars, callVars
  <2> QED
    BY <2>1, <2>2
<1> QED
  BY <1>1, <1>2, <1>3, <1>4, <1>5, <1>6, <1>7, <1>8 DEF Encode

LEMMA DecoderBound ==
  ASSUME BoundInv, Decode
  PROVE  BoundInv'
<1> USE BytesAreNumbers DEF BoundInv, StatesTyped, OutputTyped, HeadRead, EncoderSteps, HeadSteps
<1> DEFINE h == payload.head
<1>0. h \in Seq(Nat) /\ payload.data \in Seq(Octet)
  BY DEF Payloads
<1>a. \A i \in 1 .. Len(h) : h[i] \in Nat
  <2> HIDE DEF h, BoundInv
  <2> QED
    BY <1>0, ElementOfSeq
<1>b. Len(h) \in Nat
  <2> HIDE DEF h, BoundInv
  <2> QED
    BY <1>0
<1>c. pc = "meta" => cursor = 3 /\ Len(h) >= 3
  OBVIOUS
<1>d. pc = "table" => 6 <= Len(h) /\ MetaEnd <= Len(h)
  OBVIOUS
<1>e. cursor \in Nat
  OBVIOUS
<1>1. ASSUME ReadHeader PROVE BoundInv'
  BY <1>1 DEF ReadHeader, Return, encodeVars, dictVars, callVars
<1>2. ASSUME RefuseMeta PROVE BoundInv'
  BY <1>2 DEF RefuseMeta, Return, encodeVars, dictVars, callVars
<1>3. ASSUME DecodeDelta PROVE BoundInv'
  <2> DEFINE x == Sums(payload.data, h[4])
  <2>1. Len(x) = Len(payload.data)
    BY <1>0 DEF Sums
  <2> DEFINE Bad == h[4] = 0 \/ h[4] > MaxDeltaStride
  <2>2. Len(payload.data) \in Nat
    BY <1>0
  <2>3. pc = "meta" /\ UNCHANGED <<encodeVars, dictVars, transformed, pos, callVars, cursor>>
    BY <1>3 DEF DecodeDelta, MetaAccepted
  <2>4. CASE Bad \/ Len(payload.data) > limit
    <3>1. pc' = "done" /\ UNCHANGED out /\ result' # "ok"
      <4> HIDE DEF BoundInv
      <4> QED
        BY <1>3, <2>4 DEF DecodeDelta, Return
    <3> QED
      BY <2>3, <3>1 DEF encodeVars, dictVars, callVars
  <2>5. CASE ~(Bad \/ Len(payload.data) > limit)
    <3>1. pc' = "check" /\ out' = x /\ UNCHANGED result
      <4> HIDE DEF BoundInv
      <4> QED
        BY <1>3, <2>5 DEF DecodeDelta
    <3> HIDE DEF x
    <3>2. Len(out') \in Nat /\ Len(out') <= limit
      BY <2>1, <2>2, <2>5, <3>1
    <3> QED
      BY <2>3, <3>1, <3>2 DEF encodeVars, dictVars, callVars
  <2> QED
    BY <2>4, <2>5
<1>4. ASSUME UseStatic PROVE BoundInv'
  <2>1. h[6] \in Nat /\ h[4] \in {DictIdJson, DictIdWeb}
    <3> HIDE DEF BoundInv
    <3>1. cursor = 3 /\ MetaSize = 3 /\ cursor + MetaSize <= Len(h) /\ h[4] \in {DictIdJson, DictIdWeb}
      BY <1>4, <1>c DEF UseStatic, MetaAccepted, MetaComplete, MetaSize, KnownDict
    <3>2. 6 \in 1 .. Len(h)
      BY <1>b, <3>1
    <3> QED
      BY <1>a, <3>1, <3>2
  <2>2. tokens' \in Seq(Seq(Nat))
    <3>1. StaticDict(h[4]) = DictionaryFor(Attempt(StaticDictionary, h[4]))
      BY DEF DictionaryFor, Attempt
    <3>2. Attempt(StaticDictionary, h[4]) \in KnownAttempts
          /\ Attempt(StaticDictionary, h[4]).type # Delta
      BY <2>1 DEF KnownAttempts, Attempt, StaticDictionary, Delta
    <3>3. StaticDict(h[4]) \in Seq(Seq(Octet))
      BY <3>1, <3>2, DictionaryForType
    <3> QED
      BY <1>4, <3>3 DEF UseStatic
  <2> QED
    BY <1>0, <1>4, <2>1, <2>2 DEF UseStatic, MetaAccepted, encodeVars, callVars
<1>5. ASSUME BeginTable PROVE BoundInv'
  <2>1. h[2] \in {Json, Text} /\ pc = "meta" /\ cursor = 3 /\ h[4] \in Nat /\ 4 + h[4] <= Len(h)
    <3> HIDE DEF BoundInv
    <3>1. h[2] \in {Json, Text} /\ pc = "meta" /\ MetaComplete
      BY <1>5 DEF BeginTable, MetaAccepted
    <3>2. MetaSize = 1
      BY <3>1 DEF MetaSize, Json, Text, StaticDictionary
    <3>3. 4 <= Len(h) /\ 4 + h[4] <= Len(h) /\ cursor = 3
      BY <1>c, <3>1, <3>2 DEF MetaComplete
    <3>4. 4 \in 1 .. Len(h)
      BY <1>b, <3>3
    <3> QED
      BY <1>a, <3>1, <3>3, <3>4
  <2>2. CASE h[4] < 2
    <3>1. pc' = "done" /\ result' = "CorruptedPrefilterData" /\ UNCHANGED <<cursor, esc>>
      <4> HIDE DEF BoundInv
      <4> QED
        BY <1>5, <2>2 DEF BeginTable, Return
    <3> QED
      BY <1>5, <2>1, <3>1 DEF BeginTable, encodeVars, callVars, Payloads
  <2>3. CASE ~(h[4] < 2)
    <3>1. h[5] \in Nat /\ 6 <= Len(h)
      <4> HIDE DEF BoundInv, h
      <4>1. 6 <= Len(h) /\ 5 \in 1 .. Len(h)
        BY <1>b, <2>1, <2>3
      <4> QED
        BY <1>a, <4>1
    <3>2. UNCHANGED payload
      BY <1>5 DEF BeginTable, callVars
    <3>3. 6 <= Len(payload'.head) /\ MetaEnd' <= Len(payload'.head)
      BY <2>1, <3>1, <3>2 DEF MetaEnd
    <3> QED
      <4>1. pc' = "table" /\ UNCHANGED result /\ esc' = h[5] /\ cursor' = 6
        <5> HIDE DEF BoundInv
        <5> QED
          BY <1>5, <2>3 DEF BeginTable
      <4> QED
        BY <1>5, <2>1, <3>1, <3>3, <4>1 DEF BeginTable, encodeVars, callVars, Payloads
  <2> QED
    BY <2>2, <2>3
<1>6. ASSUME ReadEntry PROVE BoundInv'
  <2> DEFINE length == h[cursor + 1]
             next == cursor + 1 + length
  <2>1. UNCHANGED <<payload, MetaEnd>> /\ pc = "table" /\ MetaEnd <= Len(h)
    BY <1>d, <1>6 DEF ReadEntry, callVars, MetaEnd
  <2>2. CASE cursor >= MetaEnd \/ length \notin TokenLengths \/ next > MetaEnd
    <3>1. pc' = "done" /\ result' = "CorruptedPrefilterData" /\ UNCHANGED <<tokens, pos, cursor>>
      <4> HIDE DEF BoundInv
      <4> QED
        BY <1>6, <2>2 DEF ReadEntry, Return
    <3> QED
      BY <1>6, <2>1, <3>1 DEF ReadEntry, encodeVars, callVars, Payloads
  <2>3. CASE ~(cursor >= MetaEnd \/ length \notin TokenLengths \/ next > MetaEnd)
    <3>1. MetaEnd \in Int /\ length \in Nat
      <4> HIDE DEF BoundInv
      <4>1. 4 \in 1 .. Len(h)
        BY <1>b, <1>d, <2>1
      <4>2. h[4] \in Nat
        BY <1>a, <4>1
      <4>3. MaxTokenLen \in Nat
        BY LimitsAssumption, ClassesAssumption
      <4>4. length \in TokenLengths
        BY <2>3
      <4> QED
        BY <4>2, <4>3, <4>4 DEF MetaEnd, TokenLengths
    <3>2. next \in 0 .. Len(h) /\ next \in Nat /\ cursor + 2 \in Nat \ {0}
      <4> HIDE DEF BoundInv, length, h
      <4> QED
        BY <1>b, <1>e, <2>1, <2>3, <3>1
    <3> HIDE DEF h, next, length
    <3>3. SubSeq(h, cursor + 2, next) \in Seq(Nat)
      BY <1>0, <3>2, SliceType
    <3>4. tokens' = Append(tokens, SubSeq(h, cursor + 2, next)) /\ cursor' = next /\ pos' = pos + 1
          /\ UNCHANGED <<pc, result, encodeVars, esc, transformed, callVars, out>>
      BY <1>6, <2>3 DEF ReadEntry, h, next, length
    <3>5. tokens' \in Seq(Seq(Nat)) /\ cursor' \in Nat /\ pos' \in Nat
      BY <3>2, <3>3, <3>4
    <3> QED
      BY <2>1, <3>4, <3>5 DEF encodeVars, callVars
  <2> QED
    BY <2>2, <2>3
<1>7. ASSUME TableEnds PROVE BoundInv'
  BY <1>7 DEF TableEnds, encodeVars, dictVars, callVars
<1>8. ASSUME NEW s \in Seq(Nat), NEW k \in Nat, Emit(s, k), pc = "invert", UNCHANGED invertFrame
      PROVE  BoundInv'
  <2>1. CASE Room(s)
    <3>1. out \o s \in Seq(Nat) /\ Len(out \o s) = Len(out) + Len(s)
      BY <1>8
    <3>2. out' = out \o s /\ pos' = pos + k /\ UNCHANGED <<pc, result>> /\ Len(out) + Len(s) <= limit
      <4> HIDE DEF BoundInv
      <4> QED
        BY <1>8, <2>1 DEF Emit, Room
    <3>3. out' \in Seq(Nat) /\ Len(out') \in Nat /\ Len(out') <= limit /\ pos' \in Nat
      BY <3>1, <3>2
    <3> QED
      BY <1>8, <3>2, <3>3 DEF invertFrame, encodeVars, dictVars, callVars
  <2>2. CASE ~Room(s)
    BY <1>8, <2>2 DEF Emit, Return, invertFrame, encodeVars, dictVars, callVars
  <2> QED
    BY <2>1, <2>2
<1>9. ASSUME InvertByte PROVE BoundInv'
  <2>1. <<transformed[pos + 1]>> \in Seq(Nat)
    BY <1>9, SMTT(30) DEF InvertByte
  <2> QED
    BY <1>8, <1>9, <2>1 DEF InvertByte
<1>10. ASSUME InvertEscape PROVE BoundInv'
  <2> DEFINE tag == transformed[pos + 2]
  <2>1. pc = "invert" /\ pos < Len(transformed) /\ UNCHANGED invertFrame
    BY <1>10 DEF InvertEscape
  <2>2. ASSUME pc' = "done", result' = "CorruptedPrefilterData", UNCHANGED <<out, pos>>
        PROVE  BoundInv'
    BY <2>1, <2>2 DEF invertFrame, encodeVars, dictVars, callVars
  <2>3. CASE pos + 1 = Len(transformed)
    BY <1>10, <2>2, <2>3 DEF InvertEscape, Return
  <2>4. CASE pos + 1 # Len(transformed)
    <3>1. tag \in Nat
      BY <2>1, <2>4, SMTT(30)
    <3>2. CASE tag = LiteralTag
      <4>1. Emit(<<esc>>, 2) /\ <<esc>> \in Seq(Nat)
        BY <1>10, <2>4, <3>2 DEF InvertEscape
      <4> QED
        BY <1>8, <2>1, <4>1
    <3>3. CASE tag # LiteralTag /\ tag >= Len(tokens)
      BY <1>10, <2>2, <2>4, <3>3 DEF InvertEscape, Return
    <3>4. CASE tag # LiteralTag /\ ~(tag >= Len(tokens))
      <4>1. tag + 1 \in 1 .. Len(tokens)
        BY <3>1, <3>4, SMTT(30)
      <4>2. Emit(tokens[tag + 1], 2) /\ tokens[tag + 1] \in Seq(Nat)
        <5>1. tokens[tag + 1] \in Seq(Nat)
          BY <4>1, SMTT(30)
        <5> QED
          BY <1>10, <2>4, <3>4, <5>1 DEF InvertEscape
      <4> QED
        BY <1>8, <2>1, <4>2
    <3> QED
      BY <3>2, <3>3, <3>4
  <2> QED
    BY <2>3, <2>4
<1>11. ASSUME InvertEnds PROVE BoundInv'
  BY <1>11 DEF InvertEnds, invertFrame, encodeVars, dictVars, callVars
<1>12. ASSUME CheckLength PROVE BoundInv'
  BY <1>12 DEF CheckLength, Return, invertFrame, encodeVars, dictVars, callVars
<1> QED
  BY <1>1, <1>2, <1>3, <1>4, <1>5, <1>6, <1>7, <1>9, <1>10, <1>11, <1>12 DEF Decode

(* In every state of a call the variables are those of its step: the table *)
(* is in order, a decoder has read what it indexes and put out no more     *)
(* than the declared length, which is below the limit.                     *)
THEOREM BoundInvariant == PrefilterSpec => []BoundInv
<1>1. BoundInv /\ [PrefilterNext]_prefilterVars => BoundInv'
  <2> SUFFICES ASSUME BoundInv, [PrefilterNext]_prefilterVars PROVE BoundInv'
    OBVIOUS
  <2>1. CASE Encode
    BY <2>1, EncoderBound
  <2>2. CASE Decode
    BY <2>2, DecoderBound
  <2>3. CASE UNCHANGED prefilterVars
    BY <2>3 DEF prefilterVars, encodeVars, dictVars, callVars, BoundInv, StatesTyped, OutputTyped, HeadRead, MetaEnd
  <2> QED
    BY <2>1, <2>2, <2>3 DEF PrefilterNext, Done
<1> QED
  BY InitBound, <1>1, PTL DEF PrefilterSpec

(* No step of any call puts out more than max_output_size, and a decoder   *)
(* accepts the declared length alone.                                      *)
THEOREM OutputIsBounded == PrefilterSpec => []OutputStaysBelowLimit
<1>1. BoundInv => OutputStaysBelowLimit
  BY DEF BoundInv, OutputTyped, OutputStaysBelowLimit
<1> QED
  BY BoundInvariant, <1>1, PTL

-----------------------------------------------------------------------------
(* How transformed data d stand for the first n bytes of s: a mark <<p, q>>*)
(* says that p of them stand for q of these, and from every mark but the   *)
(* last, what the decoder does next leads to another.                      *)
Step(d, ts, e, s, n, p, q, M) ==
  \/ d[p + 1] # e /\ q < n /\ s[q + 1] = d[p + 1] /\ <<p + 1, q + 1>> \in M
  \/ /\ d[p + 1] = e /\ p + 2 <= Len(d) /\ d[p + 2] = LiteralTag
     /\ q < n /\ s[q + 1] = e /\ <<p + 2, q + 1>> \in M
  \/ /\ d[p + 1] = e /\ p + 2 <= Len(d)
     /\ \E k \in 1 .. Len(ts) :
          /\ k <= MaxDictTokens /\ d[p + 2] = k - 1
          /\ q + Len(ts[k]) <= n
          /\ \A i \in 1 .. Len(ts[k]) : s[q + i] = ts[k][i]
          /\ <<p + 2, q + Len(ts[k])>> \in M

Walk(M, d, ts, e, s, n) ==
  /\ M \subseteq (0 .. Len(d)) \X (0 .. n)
  /\ <<0, 0>> \in M /\ <<Len(d), n>> \in M
  /\ \A p \in 0 .. Len(d), q \in 0 .. n :
       <<p, q>> \in M => IF p = Len(d) THEN q = n ELSE Step(d, ts, e, s, n, p, q, M)

LEMMA WalkBegins ==
  ASSUME NEW ts, NEW e, NEW s
  PROVE  Walk({<<0, 0>>}, <<>>, ts, e, s, 0)
BY DEF Walk

LEMMA WalkGrows ==
  ASSUME NEW d \in Seq(Octet), NEW x \in Seq(Octet), Len(x) > 0, NEW ts, NEW e, NEW s,
         NEW n \in Nat, NEW m \in Nat, n <= m, NEW M, Walk(M, d, ts, e, s, n),
         Step(d \o x, ts, e, s, m, Len(d), n, M \cup {<<Len(d) + Len(x), m>>})
  PROVE  Walk(M \cup {<<Len(d) + Len(x), m>>}, d \o x, ts, e, s, m)
<1> DEFINE y == d \o x
           l == Len(d)
           N == M \cup {<<l + Len(x), m>>}
<1>1. y \in Seq(Octet) /\ Len(y) = l + Len(x) /\ l \in Nat /\ Len(x) \in Nat \ {0}
      /\ \A i \in 1 .. l : y[i] = d[i]
  <2>1. y \in Seq(Octet) /\ Len(y) = l + Len(x)
    BY ConcatLength
  <2> QED
    BY <2>1
<1> HIDE DEF y, l
<1>2. M \subseteq (0 .. l) \X (0 .. n) /\ <<0, 0>> \in M /\ <<l, n>> \in M
      /\ \A p \in 0 .. l, q \in 0 .. n :
           <<p, q>> \in M => IF p = l THEN q = n ELSE Step(d, ts, e, s, n, p, q, M)
  BY DEF Walk, l
<1>3. Step(y, ts, e, s, m, l, n, N)
  BY DEF y, l
<1>4. N \subseteq (0 .. Len(y)) \X (0 .. m) /\ <<0, 0>> \in N /\ <<Len(y), m>> \in N
  BY <1>1, <1>2
<1>5. ASSUME NEW p \in 0 .. Len(y), NEW q \in 0 .. m, <<p, q>> \in N
      PROVE  IF p = Len(y) THEN q = m ELSE Step(y, ts, e, s, m, p, q, N)
  <2>1. CASE <<p, q>> = <<l + Len(x), m>>
    BY <1>1, <2>1
  <2>2. CASE <<p, q>> \in M
    <3>1. p \in 0 .. l /\ q \in 0 .. n /\ p # Len(y)
      BY <1>1, <1>2, <2>2
    <3>2. CASE p = l
      BY <1>2, <1>3, <2>2, <3>1, <3>2
    <3>3. CASE p # l
      <4>1. Step(d, ts, e, s, n, p, q, M)
        BY <1>2, <2>2, <3>1, <3>3
      <4>2. p + 1 \in 1 .. l /\ (p + 2 <= l => p + 2 \in 1 .. l)
        BY <1>1, <3>1, <3>3
      <4>3. CASE d[p + 1] # e /\ q < n /\ s[q + 1] = d[p + 1] /\ <<p + 1, q + 1>> \in M
        <5>1. y[p + 1] # e /\ q < m /\ s[q + 1] = y[p + 1] /\ <<p + 1, q + 1>> \in N
          BY <1>1, <3>1, <4>2, <4>3, SMTT(30)
        <5> QED
          BY <3>1, <5>1 DEF Step
      <4>4. CASE /\ d[p + 1] = e /\ p + 2 <= Len(d) /\ d[p + 2] = LiteralTag
                 /\ q < n /\ s[q + 1] = e /\ <<p + 2, q + 1>> \in M
        <5>1. /\ y[p + 1] = e /\ p + 2 <= Len(y) /\ y[p + 2] = LiteralTag
              /\ q < m /\ s[q + 1] = e /\ <<p + 2, q + 1>> \in N
          BY <1>1, <3>1, <4>2, <4>4, SMTT(30) DEF l
        <5> QED
          BY <3>1, <5>1 DEF Step
      <4>5. CASE /\ d[p + 1] = e /\ p + 2 <= Len(d)
                 /\ \E k \in 1 .. Len(ts) :
                      /\ k <= MaxDictTokens /\ d[p + 2] = k - 1
                      /\ q + Len(ts[k]) <= n
                      /\ \A i \in 1 .. Len(ts[k]) : s[q + i] = ts[k][i]
                      /\ <<p + 2, q + Len(ts[k])>> \in M
        <5>1. PICK k \in 1 .. Len(ts) :
                      /\ k <= MaxDictTokens /\ d[p + 2] = k - 1
                      /\ q + Len(ts[k]) <= n
                      /\ \A i \in 1 .. Len(ts[k]) : s[q + i] = ts[k][i]
                      /\ <<p + 2, q + Len(ts[k])>> \in M
          BY <4>5
        <5>2. y[p + 1] = e /\ p + 2 <= Len(y) /\ y[p + 2] = k - 1
          <6>1. d[p + 1] = e /\ p + 2 <= l /\ d[p + 2] = k - 1
            BY <4>5, <5>1 DEF l
          <6> QED
            BY <1>1, <3>1, <4>2, <6>1
        <5>3. q + Len(ts[k]) \in 0 .. n
          BY <1>2, <5>1
        <5>4. q + Len(ts[k]) <= m
          BY <5>3
        <5> HIDE DEF N
        <5>5. <<p + 2, q + Len(ts[k])>> \in N
          BY <5>1 DEF N
        <5> QED
          BY <3>1, <5>1, <5>2, <5>4, <5>5 DEF Step
      <4> QED
        BY <4>1, <4>3, <4>4, <4>5 DEF Step
    <3> QED
      BY <3>2, <3>3
  <2> QED
    BY <1>5, <2>1, <2>2
<1> HIDE DEF N
<1>6. Walk(N, y, ts, e, s, m)
  BY <1>4, <1>5 DEF Walk
<1> QED
  BY <1>6 DEF N, y, l

(* What a turn of the encoder's loop adds is such a step.                  *)
LEMMA ByteAdded ==
  ASSUME NEW d \in Seq(Octet), NEW ts, NEW s \in Seq(Octet), NEW n \in Nat, n < Len(s),
         esc \in Octet, NEW M, Walk(M, d, ts, esc, s, n)
  PROVE  \E N : Walk(N, d \o Literal(s[n + 1]), ts, esc, s, n + 1)
<1> DEFINE b == s[n + 1]
           x == Literal(b)
           N == M \cup {<<Len(d) + Len(x), n + 1>>}
<1>1. b \in Octet /\ LiteralTag \in Octet /\ Len(d) \in Nat
  <2>1. n + 1 \in 1 .. Len(s)
    OBVIOUS
  <2> QED
    BY <2>1, ElementOfSeq, BytesAreNumbers DEF Octet
<1> HIDE DEF b
<1>2. CASE b = esc
  <2>1. x = <<esc, LiteralTag>>
    BY <1>2 DEF Literal
  <2>2. x \in Seq(Octet) /\ Len(x) = 2 /\ (d \o x)[Len(d) + 1] = esc
        /\ (d \o x)[Len(d) + 2] = LiteralTag /\ Len(d \o x) = Len(d) + 2
    BY <1>1, <2>1
  <2> HIDE DEF x
  <2>3. Step(d \o x, ts, esc, s, n + 1, Len(d), n, N)
    BY <1>1, <1>2, <2>2 DEF Step, b
  <2>4. Walk(N, d \o x, ts, esc, s, n + 1)
    BY <2>2, <2>3, WalkGrows, SMTT(30)
  <2> QED
    BY <2>4 DEF x, b
<1>3. CASE b # esc
  <2>1. x = <<b>>
    BY <1>3 DEF Literal
  <2>2. x \in Seq(Octet) /\ Len(x) = 1 /\ (d \o x)[Len(d) + 1] = b /\ Len(d \o x) = Len(d) + 1
    BY <1>1, <2>1
  <2> HIDE DEF x
  <2>3. Step(d \o x, ts, esc, s, n + 1, Len(d), n, N)
    BY <1>1, <1>3, <2>2 DEF Step, b
  <2>4. Walk(N, d \o x, ts, esc, s, n + 1)
    BY <2>2, <2>3, WalkGrows, SMTT(30)
  <2> QED
    BY <2>4 DEF x, b
<1> QED
  BY <1>2, <1>3

LEMMA TokenAdded ==
  ASSUME NEW d \in Seq(Octet), NEW ts \in Seq(Seq(Octet)), NEW s \in Seq(Octet), NEW n \in Nat,
         NEW e \in Octet, NEW M, Walk(M, d, ts, e, s, n),
         NEW k \in 1 .. Len(ts), k <= MaxDictTokens, n + Len(ts[k]) <= Len(s),
         SubSeq(s, n + 1, n + Len(ts[k])) = ts[k]
  PROVE  \E N : Walk(N, d \o <<e, k - 1>>, ts, e, s, n + Len(ts[k]))
<1> DEFINE x == <<e, k - 1>>
           m == n + Len(ts[k])
           N == M \cup {<<Len(d) + Len(x), m>>}
<1>1. k - 1 \in Octet /\ Len(d) \in Nat /\ Len(ts[k]) \in Nat
  BY BytesAreNumbers DEF Octet
<1>2. \A i \in 1 .. Len(ts[k]) : s[n + i] = ts[k][i]
  <2>1. \A i \in 1 .. Len(ts[k]) : SubSeq(s, n + 1, n + Len(ts[k]))[i] = s[n + i]
    BY <1>1, SliceElements
  <2> QED
    BY <2>1
<1>3. x \in Seq(Octet) /\ Len(x) = 2 /\ (d \o x)[Len(d) + 1] = e
      /\ (d \o x)[Len(d) + 2] = k - 1 /\ Len(d \o x) = Len(d) + 2
  BY <1>1
<1> HIDE DEF x
<1>4. m \in Nat /\ n <= m
  BY <1>1
<1>5. Step(d \o x, ts, e, s, m, Len(d), n, N)
  BY <1>1, <1>2, <1>3, <1>4, SMTT(30) DEF Step
<1>6. Walk(N, d \o x, ts, e, s, m)
  <2> HIDE DEF m
  <2>1. Len(x) > 0 /\ x \in Seq(Octet)
    BY <1>3
  <2> QED
    BY <1>4, <1>5, <2>1, WalkGrows
<1> QED
  BY <1>6 DEF x

-----------------------------------------------------------------------------
(* What best_candidate may hold for the block s.                           *)
OwnDictionary(type, s) == IF type = Json THEN JsonDictionary(s) ELSE TextDictionary(s)

DictionaryIn(a, s) ==
  IF a.type = StaticDictionary THEN StaticDict(a.arg) ELSE OwnDictionary(a.type, s)

Represents(d, ts, e, s) == \E M : Walk(M, d, ts, e, s, Len(s))

DeltaCandidate(b, s) ==
  b.head[2] = Delta /\ b.head[4] \in {1, 2, 4} /\ b.data = Differences(s, b.head[4])

StaticCandidate(b, s) ==
  /\ b.head[2] = StaticDictionary /\ Len(b.head) = 6
  /\ b.head[4] \in {DictIdJson, DictIdWeb} /\ b.head[5] = DictVersion
  /\ Represents(b.data, StaticDict(b.head[4]), b.head[6], s)

TableCandidate(b, s) ==
  LET D == OwnDictionary(b.head[2], s) IN
  /\ b.head[2] \in {Json, Text} /\ Len(b.head) = 5 + Len(Table(D))
  /\ b.head[4] = 1 + Len(Table(D))
  /\ \A i \in 1 .. Len(Table(D)) : b.head[5 + i] = Table(D)[i]
  /\ Represents(b.data, D, b.head[5], s)

Candidate(b, s) ==
  /\ Len(b.head) >= 4 /\ b.head[1] \in {0, 1}
  /\ b.head[3] = Len(b.data) /\ Len(b.data) <= Len(s)
  /\ DeltaCandidate(b, s) \/ StaticCandidate(b, s) \/ TableCandidate(b, s)

(* The inductive invariant of the round trip, while the block is encoded.  *)
Substituting(a, s, d, ts, e, n) ==
  /\ ts = DictionaryIn(a, s) /\ e \in Octet /\ n <= Len(s)
  /\ \E M : Walk(M, d, ts, e, s, n)

EncodeInv ==
  /\ pc = "detect" => best = <<>>
  /\ pc \in {"substitute", "weigh"} =>
       IF attempts[1].type = Delta
         THEN pc = "weigh" /\ transformed = Differences(src, attempts[1].arg)
         ELSE /\ Substituting(attempts[1], src, transformed, tokens, esc, pos)
              /\ pc = "weigh" => pos = Len(src)
  /\ best # <<>> => Candidate(best[1], src)

LEMMA DictionaryForIs == \A a : DictionaryFor(a) = DictionaryIn(a, src)
BY DEF DictionaryFor, DictionaryIn, OwnDictionary

LEMMA AttemptIs ==
  ASSUME NEW a \in KnownAttempts
  PROVE  \/ a.type = Delta /\ a.arg \in {1, 2, 4}
         \/ a.type = StaticDictionary /\ a.arg \in {DictIdJson, DictIdWeb}
         \/ a.type \in {Json, Text}
BY DEF KnownAttempts, Attempt, Delta, StaticDictionary, Json, Text, DictIdJson, DictIdWeb

(* What Weigh makes of the transformed data is such a candidate.           *)
LEMMA WeighedIsCandidate ==
  ASSUME BoundInv, EncodeInv, pc = "weigh", Profitable(attempts[1]),
         NEW backend \in {0, 1}, NEW size
  PROVE  Candidate([head |-> <<backend, attempts[1].type, Len(transformed)>> \o Meta(attempts[1]),
                    data |-> transformed, size |-> size], src)
<1> DEFINE a == attempts[1]
           m == Meta(a)
           h == <<backend, a.type, Len(transformed)>> \o m
           b == [head |-> h, data |-> transformed, size |-> size]
<1>1. a \in KnownAttempts /\ src \in Seq(Octet) /\ transformed \in Seq(Octet) /\ esc \in Nat
      /\ tokens \in Seq(Seq(Nat))
  BY DEF BoundInv, StatesTyped, HeadRead
<1>2. IF a.type = Delta THEN transformed = Differences(src, a.arg)
      ELSE Substituting(a, src, transformed, tokens, esc, Len(src))
  BY DEF EncodeInv
<1>3. Profitable(a)
  OBVIOUS
<1>4. Len(transformed) \in Nat /\ Len(src) \in Nat /\ Table(tokens) \in Seq(Nat)
      /\ Len(Table(tokens)) \in Nat
  BY <1>1, TableIs
<1> HIDE DEF a
<1>5. m \in Seq(Nat)
  <2>1. a.arg \in Nat
    BY <1>1 DEF KnownAttempts, Attempt, DictIdJson, DictIdWeb
  <2>2. <<1 + Len(Table(tokens)), esc>> \in Seq(Nat)
    BY <1>1, <1>4
  <2>3. <<1 + Len(Table(tokens)), esc>> \o Table(tokens) \in Seq(Nat)
    BY <1>4, <2>2, ConcatLength
  <2> QED
    BY <1>1, <2>1, <2>3 DEF Meta, DictVersion
<1>6. Len(h) = 3 + Len(m) /\ h[1] = backend /\ h[2] = a.type /\ h[3] = Len(transformed)
      /\ \A i \in 1 .. Len(m) : h[3 + i] = m[i]
  <2> HIDE DEF m
  <2>1. <<backend, a.type, Len(transformed)>> \in Seq(Nat)
    BY <1>1, <1>4 DEF KnownAttempts, Attempt, Delta, StaticDictionary, Json, Text
  <2> QED
    BY <1>5, <2>1
<1>7. b.head = h /\ b.data = transformed
  OBVIOUS
<1> HIDE DEF h, b
<1>8. \/ a.type = Delta /\ a.arg \in {1, 2, 4}
      \/ a.type = StaticDictionary /\ a.arg \in {DictIdJson, DictIdWeb}
      \/ a.type \in {Json, Text}
  BY <1>1, AttemptIs, Zenon
<1>9. CASE a.type = Delta
  <2>1. a.arg \in {1, 2, 4}
    BY <1>9, <1>8 DEF Delta, StaticDictionary, Json, Text
  <2>2. m = <<a.arg>>
    BY <1>9 DEF Meta
  <2>3. Len(m) = 1 /\ m[1] = a.arg
    BY <2>2
  <2> HIDE DEF m
  <2>4. 1 \in 1 .. Len(m)
    BY <2>3
  <2>5. h[4] = a.arg /\ Len(h) = 4
    BY <1>6, <2>3, <2>4
  <2>6. transformed = Differences(src, a.arg) /\ Len(transformed) = Len(src)
    BY <1>1, <1>2, <1>9, <2>1, DifferencesType
  <2>7. DeltaCandidate(b, src)
    BY <1>6, <1>7, <1>9, <2>1, <2>5, <2>6 DEF DeltaCandidate
  <2> QED
    BY <1>4, <1>6, <1>7, <2>5, <2>6, <2>7 DEF Candidate, b, h, m, a
<1>10. CASE a.type = StaticDictionary
  <2>1. a.arg \in {DictIdJson, DictIdWeb}
    BY <1>10, <1>8 DEF Delta, StaticDictionary, Json, Text
  <2>2. m = <<a.arg, DictVersion, esc>>
    BY <1>10 DEF Meta, Delta, StaticDictionary
  <2>3. Len(m) = 3 /\ m[1] = a.arg /\ m[2] = DictVersion /\ m[3] = esc
    BY <2>2
  <2> HIDE DEF m
  <2>4. 1 \in 1 .. Len(m) /\ 2 \in 1 .. Len(m) /\ 3 \in 1 .. Len(m)
    BY <2>3
  <2>5. h[4] = a.arg /\ h[5] = DictVersion /\ h[6] = esc /\ Len(h) = 6
    BY <1>6, <2>3, <2>4
  <2>6. Substituting(a, src, transformed, tokens, esc, Len(src))
    BY <1>2, <1>10 DEF Delta, StaticDictionary
  <2>7. tokens = StaticDict(a.arg)
    BY <1>10, <2>6 DEF Substituting, DictionaryIn
  <2>8. Represents(transformed, StaticDict(a.arg), esc, src)
    BY <2>6, <2>7 DEF Substituting, Represents
  <2>9. Len(transformed) <= Len(src)
    BY <1>3, <1>4, <1>10 DEF Profitable
  <2>10. StaticCandidate(b, src)
    BY <1>6, <1>7, <1>10, <2>1, <2>5, <2>8 DEF StaticCandidate
  <2> QED
    BY <1>6, <1>7, <2>5, <2>9, <2>10 DEF Candidate, b, h, m, a
<1>11. CASE a.type \in {Json, Text}
  <2> DEFINE D == OwnDictionary(a.type, src)
             t == Table(tokens)
  <2>1. m = <<1 + Len(t), esc>> \o t
    BY <1>11 DEF Meta, Delta, StaticDictionary, Json, Text
  <2> HIDE DEF t
  <2>2. Len(m) = 2 + Len(t) /\ m[1] = 1 + Len(t) /\ m[2] = esc /\ \A i \in 1 .. Len(t) : m[2 + i] = t[i]
    <3>1. <<1 + Len(t), esc>> \in Seq(Nat) /\ t \in Seq(Nat)
      BY <1>1, <1>4 DEF t
    <3> HIDE DEF m
    <3> QED
      BY <2>1, <3>1
  <2> HIDE DEF m
  <2>3. Len(t) \in Nat
    BY <1>4 DEF t
  <2>4. 1 \in 1 .. Len(m) /\ 2 \in 1 .. Len(m) /\ \A i \in 1 .. Len(t) : 2 + i \in 1 .. Len(m)
    BY <2>2, <2>3
  <2>5. h[4] = 1 + Len(t) /\ h[5] = esc /\ Len(h) = 5 + Len(t)
    BY <1>6, <2>2, <2>3, <2>4
  <2>6. \A i \in 1 .. Len(t) : h[5 + i] = t[i]
    <3> SUFFICES ASSUME NEW i \in 1 .. Len(t) PROVE h[5 + i] = t[i]
      OBVIOUS
    <3>1. 3 + (2 + i) = 5 + i
      OBVIOUS
    <3> QED
      BY <1>6, <2>2, <2>4, <3>1
  <2>7. Substituting(a, src, transformed, tokens, esc, Len(src))
    BY <1>2, <1>11 DEF Delta, Json, Text
  <2>8. tokens = D
    BY <1>11, <2>7 DEF Substituting, DictionaryIn, StaticDictionary, Json, Text
  <2>9. Represents(transformed, D, esc, src) /\ t = Table(D)
    BY <2>7, <2>8 DEF Substituting, Represents, t
  <2>10. Len(transformed) <= Len(src)
    BY <1>3, <1>4, <1>11 DEF Profitable
  <2> HIDE DEF D
  <2>11. TableCandidate(b, src)
    BY <1>6, <1>7, <1>11, <2>5, <2>6, <2>9 DEF TableCandidate, D
  <2>12. Len(h) >= 4
    BY <2>3, <2>5
  <2> QED
    BY <1>6, <1>7, <2>10, <2>11, <2>12 DEF Candidate, b, h, m, a
<1> QED
  BY <1>9, <1>10, <1>11, <1>8

LEMMA EncoderStep ==
  ASSUME BoundInv, EncodeInv, Encode
  PROVE  EncodeInv'
<1>1. src \in Seq(Octet) /\ attempts \in Seq(KnownAttempts) /\ pos \in Nat
      /\ transformed \in Seq(Octet)
  BY DEF BoundInv, StatesTyped
<1>2. src' = src
  BY DEF Encode, Detect, BeginDictionary, BeginDelta, SubstituteToken, CopyByte, SubstituteEnds,
         Weigh, Deliver, encodeVars
<1>3. best # <<>> => Candidate(best[1], src)
  BY DEF EncodeInv
<1>4. ASSUME pc' \notin {"detect", "substitute", "weigh"}, best' = best PROVE EncodeInv'
  BY <1>2, <1>3, <1>4 DEF EncodeInv
<1>5. ASSUME Detect PROVE EncodeInv'
  <2>1. pc' \in {"done", "begin"} /\ best' = best
    BY <1>5 DEF Detect, Return
  <2> QED
    BY <1>4, <2>1
<1>6. ASSUME BeginDictionary PROVE EncodeInv'
  <2> DEFINE a == attempts[1]
  <2>1. a.type # Delta /\ pc = "begin" /\ best' = best /\ attempts # <<>>
    BY <1>6 DEF BeginDictionary
  <2>2. CASE tokens' = <<>>
    <3>1. pc' = "begin"
      BY <1>6, <2>2 DEF BeginDictionary
    <3> QED
      BY <1>4, <2>1, <3>1
  <2>3. CASE tokens' # <<>>
    <3>1. pc' = "substitute" /\ attempts' = attempts /\ esc' \in Octet
          /\ tokens' = DictionaryIn(a, src) /\ transformed' = <<>> /\ pos' = 0
      BY <1>6, <2>3, DictionaryForIs DEF BeginDictionary
    <3>2. \E M : Walk(M, <<>>, tokens', esc', src, 0)
      BY WalkBegins
    <3>3. Substituting(a, src, <<>>, tokens', esc', 0)
      <4>1. 0 <= Len(src)
        BY <1>1
      <4> QED
        BY <3>1, <3>2, <4>1 DEF Substituting
    <3> QED
      BY <1>2, <1>3, <2>1, <3>1, <3>3 DEF EncodeInv
  <2> QED
    BY <2>2, <2>3
<1>7. ASSUME BeginDelta PROVE EncodeInv'
  <2>1. pc' = "weigh" /\ attempts' = attempts /\ best' = best /\ attempts[1].type = Delta
        /\ transformed' = Differences(src, attempts[1].arg)
    BY <1>7 DEF BeginDelta, encodeVars
  <2> QED
    BY <1>2, <1>3, <2>1 DEF EncodeInv
<1>8. ASSUME pc = "substitute", pos < Len(src), pc' = "substitute",
             attempts' = attempts, best' = best, tokens' = tokens, esc' = esc,
             pos' <= Len(src),
             ASSUME NEW M, Walk(M, transformed, tokens, esc, src, pos), esc \in Octet,
                    tokens \in Seq(Seq(Octet))
             PROVE  \E N : Walk(N, transformed', tokens, esc, src, pos')
      PROVE  EncodeInv'
  <2>1. attempts[1].type # Delta /\ Substituting(attempts[1], src, transformed, tokens, esc, pos)
    BY <1>8 DEF EncodeInv
  <2>2. tokens = DictionaryIn(attempts[1], src) /\ esc \in Octet
    BY <2>1 DEF Substituting
  <2>3. tokens \in Seq(Seq(Octet))
    <3>1. attempts # <<>>
      BY <1>8 DEF BoundInv, HeadRead
    <3>2. attempts[1] \in KnownAttempts
      BY <1>1, <3>1
    <3> QED
      BY <1>1, <2>1, <2>2, <3>2, DictionaryForIs, DictionaryForType
  <2>4. PICK M : Walk(M, transformed, tokens, esc, src, pos)
    BY <2>1 DEF Substituting
  <2>5. \E N : Walk(N, transformed', tokens, esc, src, pos')
    BY <1>8, <2>2, <2>3, <2>4
  <2>6. Substituting(attempts[1], src, transformed', tokens, esc, pos')
    BY <1>8, <2>2, <2>5 DEF Substituting
  <2> QED
    BY <1>2, <1>3, <1>8, <2>1, <2>6 DEF EncodeInv
<1>9. ASSUME SubstituteToken PROVE EncodeInv'
  <2>1. PICK k \in 1 .. Len(tokens) :
          /\ Worthwhile(k)
          /\ transformed' = transformed \o <<esc, k - 1>>
          /\ pos' = pos + Len(tokens[k])
    BY <1>9 DEF SubstituteToken
  <2>2. k <= MaxDictTokens /\ pos + Len(tokens[k]) <= Len(src)
        /\ SubSeq(src, pos + 1, pos + Len(tokens[k])) = tokens[k]
    BY <2>1 DEF Worthwhile, IsBest, Matches, Referable
  <2>3. pc = "substitute" /\ pos < Len(src) /\ pc' = "substitute" /\ attempts' = attempts
        /\ best' = best /\ tokens' = tokens /\ esc' = esc /\ pos' <= Len(src)
    BY <1>9, <2>1, <2>2 DEF SubstituteToken, encodeVars, dictVars
  <2>4. ASSUME NEW M, Walk(M, transformed, tokens, esc, src, pos), esc \in Octet,
               tokens \in Seq(Seq(Octet))
        PROVE  \E N : Walk(N, transformed', tokens, esc, src, pos')
    BY <1>1, <2>1, <2>2, <2>4, TokenAdded
  <2> QED
    BY <1>8, <2>3, <2>4
<1>10. ASSUME CopyByte PROVE EncodeInv'
  <2>1. transformed' = transformed \o Literal(src[pos + 1]) /\ pos' = pos + 1 /\ pos < Len(src)
    BY <1>10 DEF CopyByte
  <2>2. pc = "substitute" /\ pc' = "substitute" /\ attempts' = attempts
        /\ best' = best /\ tokens' = tokens /\ esc' = esc
    BY <1>10 DEF CopyByte, encodeVars, dictVars
  <2>3. pos' <= Len(src)
    BY <1>1, <2>1
  <2>4. ASSUME NEW M, Walk(M, transformed, tokens, esc, src, pos), esc \in Octet,
               tokens \in Seq(Seq(Octet))
        PROVE  \E N : Walk(N, transformed', tokens, esc, src, pos')
    BY <1>1, <2>1, <2>4, ByteAdded
  <2> QED
    BY <1>8, <2>1, <2>2, <2>3, <2>4
<1>11. ASSUME SubstituteEnds PROVE EncodeInv'
  <2>1. pc = "substitute" /\ pc' = "weigh" /\ pos = Len(src)
        /\ UNCHANGED <<attempts, best, tokens, esc, transformed, pos>>
    BY <1>11 DEF SubstituteEnds, encodeVars, dictVars
  <2> QED
    BY <1>2, <1>3, <2>1 DEF EncodeInv
<1>12. ASSUME Weigh PROVE EncodeInv'
  <2>1. pc = "weigh" /\ pc' = "begin"
    BY <1>12 DEF Weigh
  <2>2. CASE best' = best
    BY <1>4, <2>1, <2>2
  <2>3. CASE best' # best
    <3>1. PICK backend \in {0, 1}, comp \in CompSizes :
            /\ Profitable(attempts[1])
            /\ best' = <<[head |-> <<backend, attempts[1].type, Len(transformed)>> \o Meta(attempts[1]),
                          data |-> transformed, size |-> HeadBytes(attempts[1]) + comp]>>
      BY <1>12, <2>3 DEF Weigh
    <3>2. Candidate(best'[1], src)
      BY <2>1, <3>1, WeighedIsCandidate
    <3> QED
      BY <1>2, <2>1, <3>2 DEF EncodeInv
  <2> QED
    BY <2>2, <2>3
<1>13. ASSUME Deliver PROVE EncodeInv'
  <2>1. pc' \in {"done", "header"} /\ best' = best
    BY <1>13 DEF Deliver, Return, encodeVars
  <2> QED
    BY <1>4, <2>1
<1> QED
  BY <1>5, <1>6, <1>7, <1>9, <1>10, <1>11, <1>12, <1>13 DEF Encode

-----------------------------------------------------------------------------
(* And while what it returned is decoded.                                  *)
TooWide(b, s) ==
  b.head[2] = Json /\ \E k \in DOMAIN JsonDictionary(s) : Len(JsonDictionary(s)[k]) > MaxTokenLen

ReadingTable(b, s, ts, e, d, c, n) ==
  LET D == OwnDictionary(b.head[2], s) IN
  /\ TableCandidate(b, s)
  /\ \E at : LaidOut(at, D, Table(D)) /\ c = 5 + at[n]
  /\ n <= Len(D) /\ Len(ts) = n
  /\ \A k \in 1 .. n : ts[k] = D[k] /\ Len(D[k]) <= MaxTokenLen
  /\ d = b.data /\ e = b.head[5]

Inverting(s, d, ts, e, n, o) ==
  /\ \A i \in 1 .. Len(o) : o[i] = s[i]
  /\ \E M : Walk(M, d, ts, e, s, Len(s)) /\ <<n, Len(o)>> \in M

DecodeInv ==
  best # <<>> /\ pc \notin EncoderSteps =>
    /\ payload = best[1] /\ expected = Len(src) /\ limit = Len(src)
    /\ pc \in {"header", "meta"} => tokens = <<>>
    /\ pc = "table" => ReadingTable(payload, src, tokens, esc, transformed, cursor, pos)
    /\ pc = "invert" => ~TooWide(payload, src) /\ Inverting(src, transformed, tokens, esc, pos, out)
    /\ pc = "check" => ~TooWide(payload, src) /\ out = src
    /\ pc = "done" =>
         IF TooWide(payload, src) THEN result = "CorruptedPrefilterData"
         ELSE result = "ok" /\ out = src

TripInv == BoundInv /\ EncodeInv /\ DecodeInv

LEMMA EncoderKeepsDecoder ==
  ASSUME BoundInv, EncodeInv, DecodeInv, Encode
  PROVE  DecodeInv'
<1>1. ASSUME pc' \in EncoderSteps PROVE DecodeInv'
  BY <1>1 DEF DecodeInv
<1>2. ASSUME Detect PROVE DecodeInv'
  <2>1. best' = <<>>
    BY <1>2 DEF Detect, EncodeInv
  <2> QED
    BY <2>1 DEF DecodeInv
<1>3. ASSUME BeginDictionary \/ BeginDelta \/ SubstituteToken \/ CopyByte \/ SubstituteEnds \/ Weigh
      PROVE  DecodeInv'
  <2>1. pc' \in EncoderSteps
    BY <1>3 DEF BeginDictionary, BeginDelta, SubstituteToken, CopyByte, SubstituteEnds, Weigh, EncoderSteps
  <2> QED
    BY <1>1, <2>1
<1>4. ASSUME Deliver PROVE DecodeInv'
  <2>1. CASE best = <<>>
    <3>1. best' = <<>>
      BY <1>4, <2>1 DEF Deliver, encodeVars
    <3> QED
      BY <3>1 DEF DecodeInv
  <2>2. CASE best # <<>>
    BY <1>4, <2>2 DEF Deliver, encodeVars, DecodeInv
  <2> QED
    BY <2>1, <2>2
<1> QED
  BY <1>2, <1>3, <1>4 DEF Encode

(* A candidate's head is complete.                                         *)
LEMMA TableNotEmpty ==
  ASSUME NEW ts \in Seq(Seq(Nat)), NEW at, LaidOut(at, ts, Table(ts))
  PROVE  Len(Table(ts)) \in Nat /\ Len(Table(ts)) >= 1
<1>1. Table(ts) \in Seq(Nat)
  BY TableIs
<1>2. CASE Len(ts) = 0
  BY <1>1, <1>2 DEF LaidOut
<1>3. CASE Len(ts) # 0
  <2>1. 1 \in 1 .. Len(ts) /\ 0 \in 0 .. Len(ts) /\ ts[1] \in Seq(Nat)
    BY <1>3
  <2>2. at[1] = at[0] + 1 + Len(ts[1]) /\ at[1] <= Len(Table(ts)) /\ at[0] = 1
    BY <2>1 DEF LaidOut
  <2>3. Len(ts[1]) \in Nat /\ Len(Table(ts)) \in Nat
    BY <1>1, <2>1
  <2> QED
    BY <2>2, <2>3
<1> QED
  BY <1>2, <1>3

LEMMA OwnDictionaryType ==
  ASSUME NEW s \in Seq(Octet), NEW type
  PROVE  /\ OwnDictionary(type, s) \in Seq(Seq(Octet)) /\ OwnDictionary(type, s) \in Seq(Seq(Nat))
         /\ \A k \in 1 .. Len(OwnDictionary(type, s)) : Len(OwnDictionary(type, s)[k]) \in Nat \ (0 .. 3)
         /\ type # Json => \A k \in 1 .. Len(OwnDictionary(type, s)) :
              Len(OwnDictionary(type, s)[k]) <= MaxTokenLen
<1>1. MaxTokenLen \in Nat /\ MaxJsonToken \in Nat
  BY LimitsAssumption, ClassesAssumption
<1>2. ASSUME NEW max \in Nat, NEW D \in Seq(Pieces(max)), NEW k \in 1 .. Len(D)
      PROVE  Len(D[k]) \in Nat \ (0 .. 3) /\ Len(D[k]) <= max
  <2>1. D[k] \in Pieces(max)
    BY <1>2, ElementOfSeq
  <2>2. Len(D[k]) \in 4 .. max
    BY <2>1 DEF Pieces
  <2>3. \A n \in 4 .. max : n \in Nat \ (0 .. 3) /\ n <= max
    OBVIOUS
  <2> QED
    BY <2>2, <2>3, Zenon
<1>3. CASE type = Json
  <2> DEFINE D == JsonDictionary(s)
  <2>1. D \in Seq(Pieces(MaxJsonToken)) /\ D \in Seq(Seq(Octet))
    BY OwnDictionaries
  <2> HIDE DEF D
  <2>2. OwnDictionary(type, s) = D
    BY <1>3 DEF OwnDictionary, D
  <2> QED
    BY <1>1, <1>2, <1>3, <2>1, <2>2, BytesAreNumbers
<1>4. CASE type # Json
  <2> DEFINE D == TextDictionary(s)
  <2>1. D \in Seq(Pieces(MaxTokenLen)) /\ D \in Seq(Seq(Octet))
    BY OwnDictionaries
  <2> HIDE DEF D
  <2>2. OwnDictionary(type, s) = D
    BY <1>4 DEF OwnDictionary, D
  <2> QED
    BY <1>1, <1>2, <2>1, <2>2, BytesAreNumbers
<1> QED
  BY <1>3, <1>4

LEMMA CandidateIsComplete ==
  ASSUME BoundInv, Candidate(payload, src), limit = Len(src)
  PROVE  LET h == payload.head IN
         /\ Len(h) >= 3 /\ h[1] \in {0, 1} /\ h[2] \in 1 .. 4 /\ ~(h[3] > limit)
         /\ BackendDelivers
         /\ pc = "meta" => MetaComplete /\ (h[2] = StaticDictionary => KnownDict(h[4], h[5]))
<1> DEFINE h == payload.head
<1>1. /\ src \in Seq(Octet) /\ h \in Seq(Nat) /\ Len(h) \in Nat /\ payload.data \in Seq(Octet)
      /\ pc = "meta" => cursor = 3
  <2>1. h \in Seq(Nat)
    BY DEF BoundInv, StatesTyped, Payloads
  <2> QED
    BY <2>1 DEF BoundInv, StatesTyped, HeadRead, Payloads
<1>2. Len(payload.data) \in Nat /\ Len(src) \in Nat
  BY <1>1
<1>3. /\ Len(h) >= 4 /\ h[1] \in {0, 1} /\ h[3] = Len(payload.data) /\ Len(payload.data) <= Len(src)
      /\ DeltaCandidate(payload, src) \/ StaticCandidate(payload, src) \/ TableCandidate(payload, src)
  BY DEF Candidate
<1>4. ~(h[3] > limit) /\ BackendDelivers /\ Len(h) >= 3
  BY <1>1, <1>2, <1>3 DEF BackendDelivers
<1> HIDE DEF h
<1>5. CASE DeltaCandidate(payload, src)
  <2>1. h[2] = Delta
    BY <1>5 DEF DeltaCandidate, h
  <2> QED
    BY <1>1, <1>3, <1>4, <2>1 DEF MetaComplete, MetaSize, Delta, StaticDictionary, Json, Text, h
<1>6. CASE StaticCandidate(payload, src)
  <2>1. h[2] = StaticDictionary /\ Len(h) = 6 /\ KnownDict(h[4], h[5])
    BY <1>6 DEF StaticCandidate, KnownDict, h
  <2> QED
    BY <1>1, <1>3, <1>4, <2>1 DEF MetaComplete, MetaSize, StaticDictionary, Json, Text, h
<1>7. CASE TableCandidate(payload, src)
  <2> DEFINE t == Table(OwnDictionary(payload.head[2], src))
  <2>1. h[2] \in {Json, Text} /\ Len(h) = 5 + Len(t) /\ h[4] = 1 + Len(t)
    BY <1>7 DEF TableCandidate, h
  <2>2. Len(t) \in Nat
    <3>1. OwnDictionary(payload.head[2], src) \in Seq(Seq(Nat))
      BY <1>1, OwnDictionaryType
    <3>2. t \in Seq(Nat)
      BY <3>1, TableIs
    <3> HIDE DEF t
    <3> QED
      BY <3>2
  <2> HIDE DEF t
  <2>3. h[2] # StaticDictionary /\ h[2] \in 1 .. 4
    BY <2>1 DEF StaticDictionary, Json, Text
  <2>4. MetaSize = 1
    BY <2>3 DEF MetaSize, h
  <2>5. 4 <= Len(h) /\ 4 + h[4] <= Len(h)
    BY <2>1, <2>2
  <2>6. cursor = 3 => MetaComplete
    BY <2>4, <2>5 DEF MetaComplete, h
  <2> QED
    BY <1>1, <1>3, <1>4, <2>3, <2>6 DEF h
<1> QED
  BY <1>3, <1>5, <1>6, <1>7

(* The entry at the cursor is that of the next token.                      *)
LEMMA TableSize ==
  ASSUME BoundInv, ReadingTable(payload, src, tokens, esc, transformed, cursor, pos)
  PROVE  payload.head[6] = Len(OwnDictionary(payload.head[2], src))
<1> DEFINE h == payload.head
           D == OwnDictionary(h[2], src)
           t == Table(D)
<1>1. D \in Seq(Seq(Nat))
  <2>1. src \in Seq(Octet)
    BY DEF BoundInv, StatesTyped
  <2> QED
    BY <2>1, OwnDictionaryType
<1>2. PICK at : LaidOut(at, D, t)
  BY DEF ReadingTable
<1>3. \A i \in 1 .. Len(t) : h[5 + i] = t[i]
  BY DEF ReadingTable, TableCandidate
<1> HIDE DEF h, D
<1>4. Len(t) \in Nat /\ Len(t) >= 1
  BY <1>1, <1>2, TableNotEmpty
<1>5. t[1] = Len(D)
  BY <1>2 DEF LaidOut
<1> HIDE DEF t
<1>6. 1 \in 1 .. Len(t) /\ 5 + 1 = 6
  BY <1>4
<1> QED
  BY <1>3, <1>5, <1>6 DEF h, D

LEMMA EntryRead ==
  ASSUME BoundInv, ReadingTable(payload, src, tokens, esc, transformed, cursor, pos),
         pos < payload.head[6]
  PROVE  LET h == payload.head
             D == OwnDictionary(h[2], src)
             length == h[cursor + 1]
         IN  /\ pos + 1 \in 1 .. Len(D) /\ length = Len(D[pos + 1])
             /\ ~(cursor >= MetaEnd) /\ ~(cursor + 1 + length > MetaEnd)
             /\ SubSeq(h, cursor + 2, cursor + 1 + length) = D[pos + 1]
             /\ \E at : LaidOut(at, D, Table(D)) /\ cursor + 1 + length = 5 + at[pos + 1]
<1> DEFINE h == payload.head
           D == OwnDictionary(h[2], src)
           t == Table(D)
           k == pos + 1
<1>1. src \in Seq(Octet) /\ h \in Seq(Nat) /\ pos \in Nat /\ cursor \in Nat
  BY DEF BoundInv, StatesTyped, Payloads
<1>2. D \in Seq(Seq(Nat))
  BY <1>1, OwnDictionaryType
<1>3. PICK at : LaidOut(at, D, t) /\ cursor = 5 + at[pos]
  BY DEF ReadingTable
<1>4. Len(h) = 5 + Len(t) /\ h[4] = 1 + Len(t) /\ \A i \in 1 .. Len(t) : h[5 + i] = t[i]
  BY DEF ReadingTable, TableCandidate
<1>5. h[6] = Len(D)
  BY TableSize
<1> HIDE DEF D
<1>6. k \in 1 .. Len(D) /\ k - 1 = pos /\ pos \in 0 .. Len(D)
  BY <1>1, <1>2, <1>5
<1>7. D[k] \in Seq(Nat) /\ Len(D[k]) \in Nat
  <2> HIDE DEF k
  <2> QED
    BY <1>2, <1>6
<1>8. /\ at[pos] \in Nat /\ at[k] = at[pos] + 1 + Len(D[k]) /\ at[k] <= Len(t)
      /\ t[at[pos] + 1] = Len(D[k])
      /\ \A i \in 1 .. Len(D[k]) : t[at[pos] + 1 + i] = D[k][i]
  <2> HIDE DEF k
  <2> QED
    BY <1>3, <1>6 DEF LaidOut, EntryAt
<1>9. Len(t) \in Nat /\ t \in Seq(Nat)
  BY <1>2, TableIs
<1> HIDE DEF h, t, k
<1> DEFINE p == at[pos]
           n == Len(D[k])
           l == Len(t)
<1>a. p \in Nat /\ n \in Nat /\ l \in Nat /\ cursor \in Nat /\ p + 1 + n <= l /\ cursor = 5 + p
  BY <1>1, <1>3, <1>7, <1>8, <1>9
<1> HIDE DEF p, n, l
<1>b. /\ p + 1 \in 1 .. l /\ \A i \in 1 .. n : p + 1 + i \in 1 .. l
      /\ ~(cursor >= 5 + l) /\ ~(cursor + 1 + n > 5 + l) /\ cursor + 1 + n = 5 + (p + 1 + n)
      /\ cursor + 1 \in Nat /\ n \in Nat /\ cursor + 1 + n <= 5 + l /\ cursor + 1 + 1 = cursor + 2
  BY <1>a
<1> USE DEF p, n, l
<1>10. MetaEnd = 5 + Len(t)
  BY <1>4, <1>9 DEF MetaEnd, h
<1>11. at[pos] + 1 \in 1 .. Len(t) /\ \A i \in 1 .. Len(D[k]) : at[pos] + 1 + i \in 1 .. Len(t)
  BY <1>b
<1>12. h[cursor + 1] = Len(D[k])
  <2>1. cursor + 1 = 5 + (at[pos] + 1)
    BY <1>3, <1>8
  <2> QED
    BY <1>4, <1>8, <1>11, <2>1
<1>13. ~(cursor >= MetaEnd) /\ ~(cursor + 1 + Len(D[k]) > MetaEnd) /\ cursor + 1 + Len(D[k]) = 5 + at[k]
  BY <1>8, <1>10, <1>b
<1>14. SubSeq(h, cursor + 2, cursor + 1 + Len(D[k])) = D[k]
  <2> DEFINE c == cursor + 1
             x == SubSeq(h, c + 1, c + n)
  <2>1. c \in Nat /\ n \in Nat /\ c + n <= Len(h) /\ c + 1 = cursor + 2
    BY <1>4, <1>b
  <2>2. x \in Seq(Nat) /\ Len(x) = n
    <3> HIDE DEF c, n
    <3> QED
      BY <1>1, <2>1, NextElements
  <2>3. \A i \in 1 .. n : x[i] = h[c + i]
    <3> HIDE DEF c, n
    <3> QED
      BY <1>1, <2>1, SliceElements
  <2>4. \A i \in 1 .. n : h[c + i] = D[k][i]
    <3> SUFFICES ASSUME NEW i \in 1 .. n PROVE h[c + i] = D[k][i]
      OBVIOUS
    <3>1. c + i = 5 + (at[pos] + 1 + i)
      BY <1>3, <1>8, SMTT(30)
    <3> QED
      BY <1>4, <1>8, <1>11, <3>1
  <2> HIDE DEF x
  <2>5. x = D[k]
    BY <1>7, <2>2, <2>3, <2>4, SeqEqual
  <2> QED
    BY <2>1, <2>5 DEF x
<1> QED
  BY <1>3, <1>6, <1>12, <1>13, <1>14 DEF h, D, t, k

LEMMA DecoderStep ==
  ASSUME TripInv, Decode
  PROVE  EncodeInv' /\ DecodeInv'
<1>1. src' = src /\ best' = best /\ attempts' = attempts /\ payload' = payload
      /\ expected' = expected /\ limit' = limit /\ pc \notin EncoderSteps /\ pc' \notin EncoderSteps
      /\ pc # "done"
  <2>1. src' = src /\ best' = best /\ attempts' = attempts /\ payload' = payload
        /\ expected' = expected /\ limit' = limit
    BY DEF Decode, ReadHeader, RefuseMeta, DecodeDelta, UseStatic, BeginTable, ReadEntry, TableEnds,
           InvertByte, InvertEscape, InvertEnds, CheckLength, invertFrame, encodeVars, callVars
  <2>2. pc \in {"header", "meta", "table", "invert", "check"}
    BY DEF Decode, ReadHeader, RefuseMeta, DecodeDelta, UseStatic, BeginTable, ReadEntry, TableEnds,
           InvertByte, InvertEscape, InvertEnds, CheckLength, MetaAccepted
  <2>3. pc' \in {"meta", "table", "invert", "check", "done"}
    BY DEF Decode, ReadHeader, RefuseMeta, DecodeDelta, UseStatic, BeginTable, ReadEntry, TableEnds,
           InvertByte, InvertEscape, InvertEnds, CheckLength, MetaAccepted, Return, Emit
  <2> QED
    BY <2>1, <2>2, <2>3 DEF EncoderSteps
<1>2. EncodeInv'
  BY <1>1 DEF TripInv, EncodeInv, EncoderSteps
<1> SUFFICES ASSUME best # <<>> PROVE DecodeInv'
  BY <1>1, <1>2 DEF DecodeInv
<1> DEFINE h == payload.head
<1>3. /\ payload = best[1] /\ expected = Len(src) /\ limit = Len(src)
      /\ BoundInv /\ Candidate(payload, src)
  BY <1>1 DEF TripInv, DecodeInv, EncodeInv
<1>4. /\ src \in Seq(Octet) /\ h \in Seq(Nat) /\ payload.data \in Seq(Octet)
      /\ transformed \in Seq(Octet) /\ pos \in Nat /\ tokens \in Seq(Seq(Nat)) /\ esc \in Nat
      /\ pc \in HeadSteps => out = <<>>
      /\ pc = "invert" => out \in Seq(Nat)
      /\ Len(out) \in Nat /\ Len(src) \in Nat
  <2>1. src \in Seq(Octet) /\ BoundInv
    BY <1>3 DEF BoundInv, StatesTyped
  <2> QED
    BY <2>1, SMTT(30) DEF BoundInv, StatesTyped, OutputTyped, Payloads
<1>5. /\ Len(h) >= 3 /\ h[1] \in {0, 1} /\ h[2] \in 1 .. 4 /\ ~(h[3] > limit)
      /\ BackendDelivers
      /\ pc = "meta" => MetaComplete /\ (h[2] = StaticDictionary => KnownDict(h[4], h[5]))
  BY <1>3, CandidateIsComplete
<1> DEFINE Wide == TooWide(payload, src)
<1>6. /\ pc \in {"header", "meta"} => tokens = <<>>
      /\ pc = "table" => ReadingTable(payload, src, tokens, esc, transformed, cursor, pos)
      /\ pc = "invert" => ~Wide /\ Inverting(src, transformed, tokens, esc, pos, out)
      /\ pc = "check" => ~Wide /\ out = src
  BY <1>1 DEF TripInv, DecodeInv
<1>7. ASSUME \/ pc' = "meta" /\ tokens' = <<>>
             \/ pc' = "table" /\ ReadingTable(payload, src, tokens', esc', transformed', cursor', pos')
             \/ pc' = "invert" /\ ~Wide /\ Inverting(src, transformed', tokens', esc', pos', out')
             \/ pc' = "check" /\ ~Wide /\ out' = src
             \/ pc' = "done" /\ Wide /\ result' = "CorruptedPrefilterData"
             \/ pc' = "done" /\ ~Wide /\ result' = "ok" /\ out' = src
      PROVE  DecodeInv'
  <2> HIDE DEF Wide
  <2>1. payload' = best'[1] /\ expected' = Len(src') /\ limit' = Len(src')
    BY <1>1, <1>3
  <2>2. TooWide(payload', src') <=> Wide
    BY <1>1 DEF Wide
  <2> QED
    BY <1>1, <1>7, <2>1, <2>2 DEF DecodeInv
<1>8. ASSUME ReadHeader PROVE DecodeInv'
  <2> HIDE DEF Wide
  <2>1. pc' = "meta" /\ pc = "header" /\ tokens' = tokens
    BY <1>5, <1>8 DEF ReadHeader, dictVars
  <2> QED
    BY <1>6, <1>7, <2>1
<1>9. ASSUME RefuseMeta PROVE DecodeInv'
  BY <1>5, <1>9 DEF RefuseMeta
<1>10. ASSUME DecodeDelta PROVE DecodeInv'
  <2> HIDE DEF Wide
  <2>1. h[2] = Delta /\ pc = "meta"
    BY <1>10 DEF DecodeDelta, MetaAccepted
  <2>2. DeltaCandidate(payload, src)
    BY <1>3, <2>1 DEF Candidate, StaticCandidate, TableCandidate, Delta, StaticDictionary, Json, Text
  <2>3. h[4] \in {1, 2, 4} /\ payload.data = Differences(src, h[4])
    BY <2>2 DEF DeltaCandidate
  <2>4. Len(payload.data) <= limit
    BY <1>3 DEF Candidate
  <2>5. MaxDeltaStride \in Nat /\ MaxDeltaStride >= 4
    BY EncoderAssumption, ClassesAssumption
  <2>6. ~(h[4] = 0 \/ h[4] > MaxDeltaStride) /\ ~(Len(payload.data) > limit)
    <3>1. Len(payload.data) \in Nat /\ limit \in Nat
      BY <1>3, <1>4
    <3> HIDE DEF h
    <3> QED
      BY <2>3, <2>4, <2>5, <3>1
  <2>7. out' = Sums(payload.data, h[4]) /\ pc' = "check"
    BY <1>10, <2>6 DEF DecodeDelta
  <2>8. out' = src
    <3>1. h[4] \in Nat \ {0}
      BY <2>3
    <3> HIDE DEF h
    <3> QED
      BY <1>4, <2>3, <2>7, <3>1, SumsOfDifferences
  <2>9. ~Wide
    BY <2>1 DEF Wide, TooWide, Delta, Json
  <2> QED
    BY <1>7, <2>7, <2>8, <2>9
<1>11. ASSUME UseStatic PROVE DecodeInv'
  <2> HIDE DEF Wide
  <2>1. h[2] = StaticDictionary /\ pc = "meta" /\ pc' = "invert" /\ tokens' = StaticDict(h[4])
        /\ esc' = h[6] /\ transformed' = payload.data /\ pos' = 0 /\ out' = out
    BY <1>11 DEF UseStatic, MetaAccepted
  <2>2. StaticCandidate(payload, src)
    BY <1>3, <2>1 DEF Candidate, DeltaCandidate, TableCandidate, Delta, StaticDictionary, Json, Text
  <2>3. Represents(transformed', tokens', esc', src)
    BY <2>1, <2>2 DEF StaticCandidate
  <2>4. out' = <<>>
    BY <1>4, <2>1 DEF HeadSteps
  <2>5. Inverting(src, transformed', tokens', esc', pos', out')
    BY <2>1, <2>3, <2>4 DEF Inverting, Represents, Walk
  <2>6. ~Wide
    BY <2>1 DEF Wide, TooWide, StaticDictionary, Json
  <2> QED
    BY <1>7, <2>1, <2>5, <2>6
<1>12. ASSUME BeginTable PROVE DecodeInv'
  <2> DEFINE D == OwnDictionary(h[2], src)
  <2> HIDE DEF Wide
  <2>1. h[2] \in {Json, Text} /\ pc = "meta" /\ UNCHANGED <<tokens, out>>
        /\ transformed' = payload.data /\ pos' = 0
    BY <1>12 DEF BeginTable, MetaAccepted
  <2>2. TableCandidate(payload, src)
    BY <1>3, <2>1 DEF Candidate, DeltaCandidate, StaticCandidate, Delta, StaticDictionary, Json, Text
  <2>3. D \in Seq(Seq(Nat))
    BY <1>4, OwnDictionaryType
  <2>4. PICK at : LaidOut(at, D, Table(D))
    <3> HIDE DEF D
    <3> QED
      BY <2>3, TableIs
  <2>5. h[4] = 1 + Len(Table(D))
    BY <2>2 DEF TableCandidate
  <2>6. ~(h[4] < 2)
    <3> HIDE DEF D
    <3>1. Len(Table(D)) \in Nat /\ Len(Table(D)) >= 1
      BY <2>3, <2>4, TableNotEmpty
    <3> HIDE DEF h
    <3> QED
      BY <2>5, <3>1
  <2>7. pc' = "table" /\ esc' = h[5] /\ cursor' = 6
    BY <1>12, <2>6 DEF BeginTable
  <2>8. tokens' = <<>>
    BY <1>6, <2>1
  <2>9. cursor' = 5 + at[0] /\ 0 <= Len(D)
    <3> HIDE DEF D
    <3> QED
      BY <2>3, <2>4, <2>7 DEF LaidOut
  <2>10. ReadingTable(payload, src, tokens', esc', transformed', cursor', pos')
    BY <2>1, <2>2, <2>4, <2>7, <2>8, <2>9 DEF ReadingTable
  <2> QED
    BY <1>7, <2>7, <2>10
<1>13. ASSUME ReadEntry PROVE DecodeInv'
  <2> DEFINE D == OwnDictionary(h[2], src)
             length == h[cursor + 1]
             k == pos + 1
  <2> HIDE DEF Wide
  <2>1. pc = "table" /\ pos < h[6] /\ UNCHANGED <<esc, transformed, out>>
    BY <1>13 DEF ReadEntry
  <2>2. ReadingTable(payload, src, tokens, esc, transformed, cursor, pos)
    BY <1>6, <2>1
  <2>3. /\ k \in 1 .. Len(D) /\ length = Len(D[k])
        /\ ~(cursor >= MetaEnd) /\ ~(cursor + 1 + length > MetaEnd)
        /\ SubSeq(h, cursor + 2, cursor + 1 + length) = D[k]
        /\ \E at : LaidOut(at, D, Table(D)) /\ cursor + 1 + length = 5 + at[k]
    BY <1>3, <2>1, <2>2, EntryRead
  <2>4. Len(D[k]) \in Nat \ (0 .. 3) /\ (h[2] # Json => Len(D[k]) <= MaxTokenLen)
    <3> HIDE DEF D, k
    <3> QED
      BY <1>4, <2>3, OwnDictionaryType DEF D
  <2>5. MaxTokenLen \in Nat
    BY LimitsAssumption, ClassesAssumption
  <2> HIDE DEF D, length
  <2>6. CASE Len(D[k]) > MaxTokenLen
    <3>1. length \notin TokenLengths
      BY <2>3, <2>4, <2>5, <2>6 DEF TokenLengths
    <3>2. pc' = "done" /\ result' = "CorruptedPrefilterData"
      BY <1>13, <3>1 DEF ReadEntry, Return, length
    <3>3. h[2] = Json
      BY <2>4, <2>5, <2>6
    <3>4. D = JsonDictionary(src)
      BY <3>3 DEF D, OwnDictionary
    <3>5. k \in DOMAIN D
      <4>1. D \in Seq(Seq(Nat))
        BY <1>4, OwnDictionaryType DEF D
      <4> QED
        BY <2>3, <4>1
    <3>6. Wide
      BY <2>6, <3>3, <3>4, <3>5 DEF Wide, TooWide
    <3> QED
      BY <1>7, <3>2, <3>6
  <2>7. CASE ~(Len(D[k]) > MaxTokenLen)
    <3>1. length \in TokenLengths
      BY <2>3, <2>4, <2>5, <2>7 DEF TokenLengths
    <3>2. pc' = "table" /\ tokens' = Append(tokens, D[k]) /\ cursor' = cursor + 1 + length /\ pos' = k
      BY <1>13, <2>1, <2>3, <3>1 DEF ReadEntry, length
    <3>3. Len(tokens) = pos /\ \A i \in 1 .. pos : tokens[i] = D[i] /\ Len(D[i]) <= MaxTokenLen
      BY <2>2 DEF ReadingTable, D
    <3>4. Len(tokens') = k /\ \A i \in 1 .. k : tokens'[i] = D[i] /\ Len(D[i]) <= MaxTokenLen
      <4>1. Len(D[k]) <= MaxTokenLen /\ pos \in Nat /\ k = pos + 1
        BY <1>4, <2>4, <2>5, <2>7
      <4>2. Len(tokens') = pos + 1 /\ tokens'[pos + 1] = D[k] /\ \A i \in 1 .. pos : tokens'[i] = tokens[i]
        BY <1>4, <3>2, <3>3
      <4>3. \A i \in 1 .. k : i = k \/ i \in 1 .. pos
        BY <4>1
      <4> HIDE DEF k
      <4> QED
        BY <3>3, <4>1, <4>2, <4>3
    <3>5. \E at : LaidOut(at, D, Table(D)) /\ cursor' = 5 + at[k]
      BY <2>3, <3>2
    <3>6. k <= Len(D)
      BY <2>3
    <3>7. TableCandidate(payload, src) /\ transformed' = payload.data /\ esc' = h[5]
      BY <2>1, <2>2 DEF ReadingTable
    <3> HIDE DEF k
    <3>8. ReadingTable(payload, src, tokens', esc', transformed', cursor', pos')
      BY <3>2, <3>4, <3>5, <3>6, <3>7 DEF ReadingTable, D
    <3> QED
      BY <1>7, <3>2, <3>8
  <2> QED
    BY <2>6, <2>7
<1>14. ASSUME TableEnds PROVE DecodeInv'
  <2> DEFINE D == OwnDictionary(h[2], src)
  <2> HIDE DEF Wide
  <2>1. pc = "table" /\ pos = h[6] /\ pc' = "invert" /\ pos' = 0
        /\ UNCHANGED <<tokens, esc, transformed, out>>
    BY <1>14 DEF TableEnds, dictVars
  <2>2. ReadingTable(payload, src, tokens, esc, transformed, cursor, pos)
    BY <1>6, <2>1
  <2>3. pos = Len(D)
    BY <1>3, <2>1, <2>2, TableSize
  <2>4. D \in Seq(Seq(Nat))
    BY <1>4, OwnDictionaryType
  <2>5. /\ Len(tokens) = pos /\ transformed = payload.data /\ esc = h[5]
        /\ \A i \in 1 .. pos : tokens[i] = D[i] /\ Len(D[i]) <= MaxTokenLen
        /\ Represents(payload.data, D, h[5], src)
    BY <2>2 DEF ReadingTable, TableCandidate
  <2> HIDE DEF D
  <2>6. tokens = D
    BY <1>4, <2>3, <2>4, <2>5, SeqEqual
  <2>7. Represents(transformed', tokens', esc', src)
    BY <2>1, <2>5, <2>6
  <2>8. out' = <<>>
    BY <1>4, <2>1 DEF HeadSteps
  <2>9. Inverting(src, transformed', tokens', esc', pos', out')
    BY <2>1, <2>7, <2>8 DEF Inverting, Represents, Walk
  <2>10. ~Wide
    <3> SUFFICES ASSUME h[2] = Json, NEW k \in DOMAIN JsonDictionary(src) PROVE ~(Len(JsonDictionary(src)[k]) > MaxTokenLen)
      BY DEF Wide, TooWide
    <3>1. D = JsonDictionary(src)
      BY DEF D, OwnDictionary
    <3>2. k \in 1 .. Len(D) /\ Len(D[k]) \in Nat
      BY <2>4, <3>1
    <3>3. Len(D[k]) <= MaxTokenLen /\ MaxTokenLen \in Nat
      BY <2>3, <2>5, <3>2, LimitsAssumption, ClassesAssumption
    <3> QED
      BY <3>1, <3>2, <3>3
  <2> QED
    BY <1>7, <2>1, <2>9, <2>10
<1>15. ASSUME CheckLength PROVE DecodeInv'
  <2> HIDE DEF Wide
  <2>1. pc = "check" /\ pc' = "done" /\ out' = out
        /\ result' = IF Len(out) = expected THEN "ok" ELSE "CorruptedPrefilterData"
    BY <1>15 DEF CheckLength, Return
  <2>2. ~Wide /\ out = src
    BY <1>6, <2>1
  <2> QED
    BY <1>3, <1>7, <2>1, <2>2
<1>16. ASSUME InvertEnds PROVE DecodeInv'
  <2> HIDE DEF Wide
  <2>1. pc = "invert" /\ pc' = "check" /\ pos = Len(transformed) /\ out' = out
    BY <1>16 DEF InvertEnds
  <2>2. ~Wide /\ Inverting(src, transformed, tokens, esc, pos, out)
    BY <1>6, <2>1
  <2>3. PICK M : Walk(M, transformed, tokens, esc, src, Len(src)) /\ <<pos, Len(out)>> \in M
    BY <2>2 DEF Inverting
  <2>4. Len(out) = Len(src)
    BY <2>1, <2>3 DEF Walk
  <2>5. \A i \in 1 .. Len(out) : out[i] = src[i]
    BY <2>2 DEF Inverting
  <2>6. out = src
    <3>1. out \in Seq(Nat) /\ src \in Seq(Nat)
      BY <1>4, <2>1, BytesAreNumbers
    <3> QED
      BY <2>4, <2>5, <3>1, SeqEqual
  <2> QED
    BY <1>7, <2>1, <2>2, <2>6
<1>17. ASSUME NEW s \in Seq(Nat), NEW n \in Nat, Emit(s, n), pc = "invert", UNCHANGED invertFrame,
              Len(out) + Len(s) <= Len(src),
              \A i \in 1 .. Len(s) : src[Len(out) + i] = s[i],
              NEW M, Walk(M, transformed, tokens, esc, src, Len(src)),
              <<pos + n, Len(out) + Len(s)>> \in M
       PROVE  DecodeInv'
  <2> HIDE DEF Wide
  <2>1. Room(s)
    BY <1>3, <1>17 DEF Room
  <2>2. out' = out \o s /\ pos' = pos + n /\ pc' = "invert"
    BY <1>17, <2>1 DEF Emit
  <2>3. ~Wide /\ \A i \in 1 .. Len(out) : out[i] = src[i]
    BY <1>6, <1>17 DEF Inverting
  <2>4. out \in Seq(Nat)
    BY <1>4, <1>17
  <2>5. Len(out') = Len(out) + Len(s) /\ \A i \in 1 .. Len(out') : out'[i] = src[i]
    <3>1. Len(out') = Len(out) + Len(s)
      BY <1>17, <2>2, <2>4
    <3>2. ASSUME NEW i \in 1 .. Len(out') PROVE out'[i] = src[i]
      <4>1. CASE i <= Len(out)
        <5>1. i \in 1 .. Len(out) /\ (out \o s)[i] = out[i]
          BY <1>17, <2>4, <3>1, <4>1
        <5> QED
          BY <2>2, <2>3, <5>1
      <4>2. CASE ~(i <= Len(out))
        <5> DEFINE j == i - Len(out)
        <5>1. j \in 1 .. Len(s) /\ i = Len(out) + j
          BY <1>17, <2>4, <3>1, <4>2
        <5> HIDE DEF j
        <5>2. (out \o s)[Len(out) + j] = s[j]
          BY <1>17, <2>4, <5>1
        <5> QED
          BY <1>17, <2>2, <5>1, <5>2
      <4> QED
        BY <4>1, <4>2
    <3> QED
      BY <3>1, <3>2
  <2>6. transformed' = transformed /\ tokens' = tokens /\ esc' = esc
    BY <1>17 DEF invertFrame, dictVars
  <2>7. Inverting(src, transformed', tokens', esc', pos', out')
    BY <1>17, <2>2, <2>5, <2>6 DEF Inverting
  <2> QED
    BY <1>7, <2>2, <2>3, <2>7
<1>18. ASSUME pc = "invert", pos < Len(transformed)
       PROVE  \E M : /\ Walk(M, transformed, tokens, esc, src, Len(src))
                     /\ Len(out) <= Len(src)
                     /\ Step(transformed, tokens, esc, src, Len(src), pos, Len(out), M)
  <2>1. PICK M : Walk(M, transformed, tokens, esc, src, Len(src)) /\ <<pos, Len(out)>> \in M
    BY <1>6, <1>18 DEF Inverting
  <2>2. pos \in 0 .. Len(transformed) /\ Len(out) \in 0 .. Len(src) /\ pos # Len(transformed)
    BY <1>4, <1>18, <2>1 DEF Walk
  <2>3. Step(transformed, tokens, esc, src, Len(src), pos, Len(out), M)
    BY <2>1, <2>2 DEF Walk
  <2> QED
    BY <1>4, <2>1, <2>2, <2>3
<1>19. ASSUME InvertByte PROVE DecodeInv'
  <2> DEFINE b == transformed[pos + 1]
  <2>1. pc = "invert" /\ pos < Len(transformed) /\ b # esc /\ Emit(<<b>>, 1) /\ UNCHANGED invertFrame
    BY <1>19 DEF InvertByte
  <2>2. PICK M : /\ Walk(M, transformed, tokens, esc, src, Len(src))
                 /\ Len(out) <= Len(src)
                 /\ Step(transformed, tokens, esc, src, Len(src), pos, Len(out), M)
    BY <1>18, <2>1
  <2>3. Len(out) < Len(src) /\ src[Len(out) + 1] = b /\ <<pos + 1, Len(out) + 1>> \in M
    BY <2>1, <2>2 DEF Step
  <2>4. <<b>> \in Seq(Nat) /\ Len(<<b>>) = 1 /\ <<b>>[1] = b
    <3>1. b \in Nat
      <4>1. pos + 1 \in 1 .. Len(transformed)
        BY <1>4, <2>1
      <4> QED
        BY <1>4, <4>1, BytesAreNumbers, ElementOfSeq
    <3> HIDE DEF b
    <3> QED
      BY <3>1
  <2> DEFINE s == <<b>>
  <2> HIDE DEF b
  <2>5. Len(out) + Len(s) <= Len(src) /\ (\A i \in 1 .. Len(s) : src[Len(out) + i] = s[i])
        /\ <<pos + 1, Len(out) + Len(s)>> \in M
    BY <1>4, <2>3, <2>4
  <2> HIDE DEF s
  <2> QED
    BY <1>17, <2>1, <2>2, <2>4, <2>5 DEF s
<1>20. ASSUME InvertEscape PROVE DecodeInv'
  <2> DEFINE tag == transformed[pos + 2]
  <2>1. pc = "invert" /\ pos < Len(transformed) /\ transformed[pos + 1] = esc /\ UNCHANGED invertFrame
    BY <1>20 DEF InvertEscape
  <2>2. PICK M : /\ Walk(M, transformed, tokens, esc, src, Len(src))
                 /\ Len(out) <= Len(src)
                 /\ Step(transformed, tokens, esc, src, Len(src), pos, Len(out), M)
    BY <1>18, <2>1
  <2>3. CASE /\ pos + 2 <= Len(transformed) /\ tag = LiteralTag
             /\ Len(out) < Len(src) /\ src[Len(out) + 1] = esc /\ <<pos + 2, Len(out) + 1>> \in M
    <3> DEFINE s == <<esc>>
    <3>1. pos + 1 # Len(transformed)
      BY <1>4, <2>3
    <3>2. Emit(s, 2)
      BY <1>20, <2>3, <3>1 DEF InvertEscape
    <3>3. s \in Seq(Nat) /\ Len(s) = 1 /\ s[1] = esc
      BY <1>4
    <3>4. Len(out) + Len(s) <= Len(src) /\ (\A i \in 1 .. Len(s) : src[Len(out) + i] = s[i])
          /\ <<pos + 2, Len(out) + Len(s)>> \in M
      BY <1>4, <2>3, <3>3
    <3> HIDE DEF s
    <3> QED
      BY <1>17, <2>1, <2>2, <3>2, <3>3, <3>4
  <2>4. CASE /\ pos + 2 <= Len(transformed)
             /\ \E k \in 1 .. Len(tokens) :
                  /\ k <= MaxDictTokens /\ tag = k - 1
                  /\ Len(out) + Len(tokens[k]) <= Len(src)
                  /\ \A i \in 1 .. Len(tokens[k]) : src[Len(out) + i] = tokens[k][i]
                  /\ <<pos + 2, Len(out) + Len(tokens[k])>> \in M
    <3>1. PICK k \in 1 .. Len(tokens) :
                  /\ k <= MaxDictTokens /\ tag = k - 1
                  /\ Len(out) + Len(tokens[k]) <= Len(src)
                  /\ \A i \in 1 .. Len(tokens[k]) : src[Len(out) + i] = tokens[k][i]
                  /\ <<pos + 2, Len(out) + Len(tokens[k])>> \in M
      BY <2>4
    <3>2. pos + 1 # Len(transformed) /\ tag # LiteralTag /\ ~(tag >= Len(tokens)) /\ tag + 1 = k
      <4>1. LiteralTag \in Nat /\ MaxDictTokens \in Nat /\ MaxDictTokens < LiteralTag
        BY BytesAreNumbers
      <4>2. Len(tokens) \in Nat /\ k \in Nat /\ k <= Len(tokens) /\ k <= MaxDictTokens /\ tag = k - 1
        BY <1>4, <3>1
      <4>3. pos + 1 # Len(transformed)
        BY <1>4, <2>4
      <4> HIDE DEF tag
      <4> QED
        BY <4>1, <4>2, <4>3
    <3>3. Emit(tokens[k], 2)
      BY <1>20, <3>2 DEF InvertEscape
    <3>4. tokens[k] \in Seq(Nat)
      BY <1>4
    <3> QED
      BY <1>17, <2>1, <2>2, <3>1, <3>3, <3>4
  <2> QED
    BY <2>1, <2>2, <2>3, <2>4 DEF Step
<1> QED
  BY <1>8, <1>9, <1>10, <1>11, <1>12, <1>13, <1>14, <1>15, <1>16, <1>19, <1>20 DEF Decode

LEMMA InitTrip == PrefilterInit => TripInv
<1> SUFFICES ASSUME PrefilterInit PROVE TripInv
  OBVIOUS
<1>1. best = <<>> /\ pc \in {"detect", "header"}
  BY DEF PrefilterInit, InitEncoder, InitDecoder
<1> QED
  BY <1>1, InitBound DEF TripInv, EncodeInv, DecodeInv

(* What an encoder has put out encodes what it has walked over, and the    *)
(* decoder of it has put out the block up to the mark that its place in    *)
(* the payload stands at.                                                  *)
THEOREM TripInvariant == PrefilterSpec => []TripInv
<1>1. TripInv /\ [PrefilterNext]_prefilterVars => TripInv'
  <2> SUFFICES ASSUME TripInv, [PrefilterNext]_prefilterVars PROVE TripInv'
    OBVIOUS
  <2>1. CASE Encode
    BY <2>1, EncoderBound, EncoderStep, EncoderKeepsDecoder DEF TripInv
  <2>2. CASE Decode
    BY <2>2, DecoderBound, DecoderStep DEF TripInv
  <2>3. CASE UNCHANGED prefilterVars
    <3>1. UNCHANGED <<pc, src, attempts, best, tokens, esc, transformed, pos, payload, expected, limit,
                      cursor, out, result>>
      BY <2>3 DEF prefilterVars, encodeVars, dictVars, callVars
    <3>2. BoundInv'
      BY <3>1 DEF TripInv, BoundInv, StatesTyped, OutputTyped, HeadRead, MetaEnd
    <3> QED
      BY <3>1, <3>2 DEF TripInv, EncodeInv, DecodeInv
  <2> QED
    BY <2>1, <2>2, <2>3 DEF PrefilterNext, Done
<1> QED
  BY InitTrip, <1>1, PTL DEF PrefilterSpec

(* What the encoder returns is never decoded to other bytes, for every     *)
(* block, every static dictionary and every choice of the backends; and it *)
(* is decoded unless its table is too wide.                                *)
THEOREM PrefilterRoundTrip == PrefilterSpec => []RoundTrip
<1>1. TripInv => RoundTrip
  <2> SUFFICES ASSUME TripInv, pc = "done", best # <<>>
               PROVE  /\ result = "ok" => out = src
                      /\ ~TableIsTooWide => result = "ok"
    BY DEF RoundTrip
  <2>1. TableIsTooWide <=> TooWide(payload, src)
    BY DEF TableIsTooWide, TooWide
  <2>2. IF TableIsTooWide THEN result = "CorruptedPrefilterData" ELSE result = "ok" /\ out = src
    BY <2>1 DEF TripInv, DecodeInv, EncoderSteps
  <2> QED
    BY <2>2
<1> QED
  BY TripInvariant, <1>1, PTL
=============================================================================
