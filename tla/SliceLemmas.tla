----------------------------- MODULE SliceLemmas -----------------------------
(***************************************************************************)
(* Slices of sequences, the division of a length into blocks, and copies   *)
(* that run into themselves.                                               *)
(***************************************************************************)
EXTENDS Integers, Sequences, SequenceTheorems, WellFoundedInduction, TLAPS

LEMMA SliceType ==
  ASSUME NEW S, NEW s \in Seq(S), NEW m \in Nat \ {0}, NEW n \in 0 .. Len(s)
  PROVE  /\ SubSeq(s, m, n) \in Seq(S)
         /\ Len(SubSeq(s, m, n)) = IF m <= n THEN n - m + 1 ELSE 0
<1>1. \A i \in m .. n : s[i] \in S
  BY ElementOfSeq
<1> QED
  BY <1>1, SubSeqProperties

(* The next k elements behind the first c.                                 *)
LEMMA NextElements ==
  ASSUME NEW S, NEW s \in Seq(S), NEW c \in Nat, NEW k \in Nat, c + k <= Len(s)
  PROVE  SubSeq(s, c + 1, c + k) \in Seq(S) /\ Len(SubSeq(s, c + 1, c + k)) = k
<1> DEFINE m == c + 1
           n == c + k
<1>1. m \in Nat \ {0} /\ n \in 0 .. Len(s)
  BY LenProperties
<1>2. IF m <= n THEN n - m + 1 = k ELSE 0 = k
  OBVIOUS
<1> HIDE DEF m, n
<1>3. SubSeq(s, m, n) \in Seq(S) /\ Len(SubSeq(s, m, n)) = k
  BY <1>1, <1>2, SliceType
<1> QED
  BY <1>3 DEF m, n

LEMMA ConcatLength ==
  ASSUME NEW S, NEW s \in Seq(S), NEW t \in Seq(S)
  PROVE  s \o t \in Seq(S) /\ Len(s \o t) = Len(s) + Len(t)
BY ConcatProperties

LEMMA Associative ==
  ASSUME NEW S, NEW s \in Seq(S), NEW t \in Seq(S), NEW u \in Seq(S)
  PROVE  (s \o t) \o u = s \o (t \o u)
BY ConcatAssociative

(* Concatenation behind a suffix of s.                                     *)
LEMMA SuffixConcat ==
  ASSUME NEW S, NEW s \in Seq(S), NEW t \in Seq(S), NEW k \in 0 .. Len(s)
  PROVE  SubSeq(s \o t, k + 1, Len(s) + Len(t)) = SubSeq(s, k + 1, Len(s)) \o t
<1> DEFINE st == s \o t
           l == SubSeq(st, k + 1, Len(s) + Len(t))
           a == SubSeq(s, k + 1, Len(s))
           r == a \o t
<1>1. Len(s) \in Nat /\ Len(t) \in Nat /\ k \in Nat
  BY LenProperties
<1>2. /\ st \in Seq(S) /\ Len(st) = Len(s) + Len(t)
      /\ \A i \in 1 .. Len(s) + Len(t) : st[i] = IF i <= Len(s) THEN s[i] ELSE t[i - Len(s)]
  BY ConcatProperties
<1> HIDE DEF st
<1>3. /\ l \in Seq(S) /\ Len(l) = Len(s) + Len(t) - k
      /\ \A i \in 1 .. Len(s) + Len(t) - k : l[i] = st[k + i]
  <2>1. k + 1 \in Int /\ Len(s) + Len(t) \in Int
    BY <1>1
  <2>2. \A i \in k + 1 .. Len(s) + Len(t) : st[i] \in S
    BY <1>1, <1>2, ElementOfSeq
  <2> QED
    BY <1>1, <2>1, <2>2, SubSeqProperties
<1>4. /\ a \in Seq(S) /\ Len(a) = Len(s) - k
      /\ \A i \in 1 .. Len(s) - k : a[i] = s[k + i]
  <2>1. \A i \in k + 1 .. Len(s) : s[i] \in S
    BY <1>1, ElementOfSeq
  <2> QED
    BY <1>1, <2>1, SubSeqProperties
<1> HIDE DEF l, a
<1>5. /\ r \in Seq(S) /\ Len(r) = Len(s) + Len(t) - k
      /\ \A i \in 1 .. Len(s) + Len(t) - k : r[i] = IF i <= Len(s) - k THEN a[i] ELSE t[i - (Len(s) - k)]
  <2>1. /\ r \in Seq(S) /\ Len(r) = Len(a) + Len(t)
        /\ \A i \in 1 .. Len(a) + Len(t) : r[i] = IF i <= Len(a) THEN a[i] ELSE t[i - Len(a)]
    BY <1>4, ConcatProperties
  <2>2. Len(a) + Len(t) = Len(s) + Len(t) - k
    BY <1>1, <1>4
  <2> HIDE DEF r
  <2> QED
    BY <1>4, <2>1, <2>2
<1> HIDE DEF r
<1>6. ASSUME NEW i \in 1 .. Len(l) PROVE l[i] = r[i]
  <2>1. i \in 1 .. Len(s) + Len(t) - k /\ k + i \in 1 .. Len(s) + Len(t)
    BY <1>1, <1>3
  <2>2. CASE k + i <= Len(s)
    <3>1. i \in 1 .. Len(s) - k
      BY <1>1, <2>1, <2>2
    <3> QED
      BY <1>2, <1>3, <1>4, <1>5, <2>1, <2>2, <3>1
  <2>3. CASE k + i > Len(s)
    <3>1. ~(i <= Len(s) - k) /\ i - (Len(s) - k) = (k + i) - Len(s)
      BY <1>1, <2>1, <2>3
    <3>2. l[i] = t[(k + i) - Len(s)]
      BY <1>1, <1>2, <1>3, <2>1, <2>3
    <3> QED
      BY <1>5, <2>1, <3>1, <3>2
  <2> QED
    BY <1>1, <2>1, <2>2, <2>3
<1>7. l = r
  BY <1>3, <1>5, <1>6, SeqEqual
<1> QED
  BY <1>7 DEF l, r, a, st

(* A suffix that is the concatenation of two sequences consists of two     *)
(* slices.                                                                 *)
LEMMA SplitSuffix ==
  ASSUME NEW S, NEW s \in Seq(S), NEW b \in Seq(S), NEW d \in Seq(S), NEW k \in Nat,
         k + Len(b) + Len(d) = Len(s),
         b \o d = SubSeq(s, k + 1, Len(s))
  PROVE  /\ b = SubSeq(s, k + 1, k + Len(b))
         /\ d = SubSeq(s, k + Len(b) + 1, Len(s))
<1> DEFINE bd == b \o d
           x == SubSeq(s, k + 1, k + Len(b))
           y == SubSeq(s, k + Len(b) + 1, Len(s))
<1>1. Len(s) \in Nat /\ Len(b) \in Nat /\ Len(d) \in Nat
  BY LenProperties
<1>2. \A i \in 1 .. Len(b) + Len(d) : bd[i] = IF i <= Len(b) THEN b[i] ELSE d[i - Len(b)]
  BY ConcatProperties
<1>3. \A i \in 1 .. Len(b) + Len(d) : bd[i] = s[k + i]
  <2>1. \A i \in k + 1 .. Len(s) : s[i] \in S
    BY <1>1, ElementOfSeq
  <2> QED
    BY <1>1, <2>1, SubSeqProperties
<1> HIDE DEF bd
<1>4. /\ x \in Seq(S) /\ Len(x) = Len(b)
      /\ \A i \in 1 .. Len(b) : x[i] = s[k + i]
  <2>1. \A i \in k + 1 .. k + Len(b) : s[i] \in S
    BY <1>1, ElementOfSeq
  <2> QED
    BY <1>1, <2>1, SubSeqProperties
<1>5. /\ y \in Seq(S) /\ Len(y) = Len(d)
      /\ \A i \in 1 .. Len(d) : y[i] = s[k + Len(b) + i]
  <2> DEFINE m == k + Len(b)
  <2>1. m \in Nat /\ Len(s) - m = Len(d) /\ m + 1 \in Int /\ Len(s) \in Int
    BY <1>1
  <2>2. \A i \in m + 1 .. Len(s) : s[i] \in S
    BY <1>1, <2>1, ElementOfSeq
  <2> HIDE DEF m
  <2>3. /\ SubSeq(s, m + 1, Len(s)) \in Seq(S) /\ Len(SubSeq(s, m + 1, Len(s))) = Len(d)
        /\ \A i \in 1 .. Len(d) : SubSeq(s, m + 1, Len(s))[i] = s[m + i]
    BY <1>1, <2>1, <2>2, SubSeqProperties
  <2> QED
    BY <2>3 DEF m
<1> HIDE DEF x, y
<1>6. b = x
  <2>1. ASSUME NEW i \in 1 .. Len(b) PROVE b[i] = x[i]
    <3>1. i \in 1 .. Len(b) + Len(d) /\ i <= Len(b)
      BY <1>1
    <3> QED
      BY <1>2, <1>3, <1>4, <3>1
  <2> QED
    BY <1>4, <2>1, SeqEqual
<1>7. d = y
  <2>1. ASSUME NEW i \in 1 .. Len(d) PROVE d[i] = y[i]
    <3>1. Len(b) + i \in 1 .. Len(b) + Len(d) /\ ~(Len(b) + i <= Len(b))
          /\ Len(b) + i - Len(b) = i /\ k + (Len(b) + i) = k + Len(b) + i
      BY <1>1
    <3>2. bd[Len(b) + i] = d[i]
      BY <1>2, <3>1
    <3>3. bd[Len(b) + i] = s[k + Len(b) + i]
      BY <1>3, <3>1
    <3> QED
      BY <1>5, <3>2, <3>3
  <2> QED
    BY <1>5, <2>1, SeqEqual
<1> QED
  BY <1>6, <1>7 DEF x, y

(* The beginning of a sequence is not changed by what follows it, and the  *)
(* beginning of a beginning is a beginning.                                *)
LEMMA PrefixOfConcat ==
  ASSUME NEW S, NEW s \in Seq(S), NEW t \in Seq(S), NEW k \in 0 .. Len(s)
  PROVE  SubSeq(s \o t, 1, k) = SubSeq(s, 1, k)
<1>1. Len(s) \in Nat /\ k \in Int
  BY LenProperties
<1>2. CASE k = 0
  BY <1>2, SubSeqEmpty
<1>3. CASE k # 0
  <2>1. 1 \in 1 .. Len(s) /\ k \in 1 .. Len(s)
    BY <1>1, <1>3
  <2> QED
    BY <2>1, SubSeqOfConcat1
<1> QED
  BY <1>2, <1>3

LEMMA PrefixOfPrefix ==
  ASSUME NEW S, NEW s \in Seq(S), NEW k \in 0 .. Len(s), NEW j \in 0 .. k
  PROVE  /\ SubSeq(s, 1, k) \in Seq(S) /\ Len(SubSeq(s, 1, k)) = k
         /\ SubSeq(SubSeq(s, 1, k), 1, j) = SubSeq(s, 1, j)
<1>1. Len(s) \in Nat /\ k \in Nat /\ j \in Nat /\ 1 \in Nat \ {0}
  BY LenProperties
<1>2. SubSeq(s, 1, k) \in Seq(S) /\ Len(SubSeq(s, 1, k)) = k
  BY <1>1, SliceType
<1>3. CASE j = 0
  BY <1>3, SubSeqEmpty
<1>4. CASE j # 0
  <2>1. /\ 1 \in 1 .. Len(s) /\ k \in 1 .. Len(s)
        /\ 1 \in 1 .. k - 1 + 1 /\ j \in 1 .. k - 1 + 1
    BY <1>1, <1>4
  <2>2. SubSeq(SubSeq(s, 1, k), 1, j) = SubSeq(s, 1 + 1 - 1, 1 + j - 1)
    BY <2>1, SubSeqOfSubSeq
  <2>3. 1 + 1 - 1 = 1 /\ 1 + j - 1 = j
    BY <1>1
  <2> QED
    BY <2>2, <2>3
<1> QED
  BY <1>2, <1>3, <1>4

LEMMA PrefixElements ==
  ASSUME NEW S, NEW s \in Seq(S), NEW k \in 0 .. Len(s)
  PROVE  \A i \in 1 .. k : SubSeq(s, 1, k)[i] = s[i]
<1>1. k \in Int /\ 1 \in Int /\ k - 1 + 1 = k /\ Len(s) \in Nat
  BY LenProperties
<1>2. \A i \in 1 .. k : s[i] \in S
  BY <1>1, ElementOfSeq
<1>3. \A i \in 1 .. k - 1 + 1 : SubSeq(s, 1, k)[i] = s[1 + i - 1]
  BY <1>1, <1>2, SubSeqProperties
<1> QED
  BY <1>1, <1>3

LEMMA SliceElements ==
  ASSUME NEW S, NEW s \in Seq(S), NEW c \in Nat, NEW k \in Nat, c + k <= Len(s)
  PROVE  \A i \in 1 .. k : SubSeq(s, c + 1, c + k)[i] = s[c + i]
<1> DEFINE m == c + 1
           n == c + k
<1>1. m \in Int /\ n \in Int /\ n - m + 1 = k /\ \A i \in m .. n : i \in 1 .. Len(s)
  BY LenProperties
<1>2. \A i \in m .. n : s[i] \in S
  BY <1>1, ElementOfSeq
<1>3. \A i \in 1 .. k : m + i - 1 = c + i
  OBVIOUS
<1> HIDE DEF m, n
<1>4. \A i \in 1 .. n - m + 1 : SubSeq(s, m, n)[i] = s[m + i - 1]
  BY <1>1, <1>2, SubSeqProperties
<1>5. \A i \in 1 .. k : SubSeq(s, m, n)[i] = s[c + i]
  BY <1>1, <1>3, <1>4
<1> QED
  BY <1>5 DEF m, n

(* Division by the block size, and what it makes of a short last block.    *)
LEMMA Quotient ==
  ASSUME NEW n \in Nat, NEW d \in Nat \ {0}, NEW q \in 0 .. d - 1
  PROVE  (n * d + q) \div d = n
<1> DEFINE p == n * d
           m == (p + q) \div d
           r == (p + q) % d
<1>1. p \in Nat /\ p + q \in Nat
  OBVIOUS
<1>2. m \in Nat /\ r \in 0 .. d - 1 /\ p + q = m * d + r
  BY <1>1
<1>3. CASE m > n
  <2>1. m * d >= (n + 1) * d /\ (n + 1) * d = n * d + d
    BY <1>2, <1>3
  <2> QED
    BY <1>2, <2>1
<1>4. CASE m < n
  <2>1. n * d >= (m + 1) * d /\ (m + 1) * d = m * d + d
    BY <1>2, <1>4
  <2> QED
    BY <1>2, <2>1
<1> QED
  BY <1>2, <1>3, <1>4

LEMMA Remainder ==
  ASSUME NEW n \in Nat, NEW d \in Nat \ {0}, NEW q \in 0 .. d - 1
  PROVE  (n * d + q) % d = q
<1> DEFINE p == n * d
           r == (p + q) % d
<1>1. p \in Nat /\ p + q \in Nat
  OBVIOUS
<1>2. (p + q) \div d = n
  BY Quotient
<1>3. p + q = ((p + q) \div d) * d + r
  BY <1>1
<1>4. p + q = n * d + r
  BY <1>2, <1>3
<1>5. r \in Int /\ q \in Int
  BY <1>1
<1> HIDE DEF r
<1>6. r = q
  BY <1>1, <1>4, <1>5
<1> QED
  BY <1>6 DEF r

(* The ends of the first n blocks of d.                                    *)
LEMMA Multiples ==
  ASSUME NEW n \in Nat, NEW d \in Nat \ {0}
  PROVE  /\ n * d \in Nat
         /\ (n + 1) * d = n * d + d
         /\ \A j \in 1 .. n : j * d \in Nat /\ j * d <= n * d
         /\ \A j \in 1 .. n : (j - 1) * d \in Nat /\ (j - 1) * d + d = j * d
OBVIOUS

(* A beginning grows by what follows it.                                   *)
LEMMA PrefixGrows ==
  ASSUME NEW S, NEW s \in Seq(S), NEW t \in Seq(S), NEW p \in Nat, p + Len(t) <= Len(s),
         \A i \in 1 .. Len(t) : t[i] = s[p + i]
  PROVE  SubSeq(s, 1, p) \o t = SubSeq(s, 1, p + Len(t))
<1> DEFINE a == SubSeq(s, 1, p)
           n == p + Len(t)
           l == a \o t
           r == SubSeq(s, 1, n)
<1>1. Len(s) \in Nat /\ Len(t) \in Nat /\ n \in 0 .. Len(s) /\ p \in 0 .. Len(s) /\ n \in Nat
  BY LenProperties
<1>2. a \in Seq(S) /\ Len(a) = p /\ \A i \in 1 .. p : a[i] = s[i]
  <2>1. \A i \in 1 .. p : s[i] \in S
    BY <1>1, ElementOfSeq
  <2>2. 1 \in Int /\ p \in Int /\ p - 1 + 1 = p
    OBVIOUS
  <2>3. a \in Seq(S) /\ Len(a) = (IF 1 <= p THEN p - 1 + 1 ELSE 0)
        /\ \A i \in 1 .. p - 1 + 1 : a[i] = s[1 + i - 1]
    BY <2>1, <2>2, SubSeqProperties
  <2> QED
    BY <1>1, <2>2, <2>3
<1>3. r \in Seq(S) /\ Len(r) = n /\ \A i \in 1 .. n : r[i] = s[i]
  <2>1. \A i \in 1 .. n : s[i] \in S
    BY <1>1, ElementOfSeq
  <2>2. 1 \in Int /\ n \in Int /\ n - 1 + 1 = n
    BY <1>1
  <2> HIDE DEF n
  <2>3. r \in Seq(S) /\ Len(r) = (IF 1 <= n THEN n - 1 + 1 ELSE 0)
        /\ \A i \in 1 .. n - 1 + 1 : r[i] = s[1 + i - 1]
    BY <2>1, <2>2, SubSeqProperties
  <2> QED
    BY <1>1, <2>2, <2>3
<1> HIDE DEF a, r
<1>4. /\ l \in Seq(S) /\ Len(l) = Len(a) + Len(t)
      /\ \A i \in 1 .. Len(a) + Len(t) : l[i] = IF i <= Len(a) THEN a[i] ELSE t[i - Len(a)]
  BY <1>2, ConcatProperties
<1> HIDE DEF l
<1>5. ASSUME NEW i \in 1 .. Len(l) PROVE l[i] = r[i]
  <2>1. i \in 1 .. n /\ i \in 1 .. Len(a) + Len(t) /\ i \in Int
    BY <1>1, <1>2, <1>4
  <2>2. CASE i <= p
    BY <1>2, <1>3, <1>4, <2>1, <2>2, SMTT(30)
  <2>3. CASE ~(i <= p)
    <3>1. i - p \in 1 .. Len(t) /\ p + (i - p) = i
      BY <1>1, <2>1, <2>3
    <3>2. t[i - p] = s[i]
      BY <3>1
    <3> QED
      BY <1>2, <1>3, <1>4, <2>1, <2>3, <3>2
  <2> QED
    BY <2>2, <2>3
<1>6. l = r
  BY <1>1, <1>2, <1>3, <1>4, <1>5, SeqEqual
<1> QED
  BY <1>6 DEF l, a, r

(* Some number is the smallest of a set of numbers: this stands in for     *)
(* induction.                                                              *)
LEMMA SmallestNat ==
  ASSUME NEW S \in SUBSET Nat, S # {}
  PROVE  \E x \in S : \A y \in S : x <= y
<1>1. IsWellFoundedOn(OpToRel(<, Nat), Nat)
  BY NatLessThanWellFounded
<1>2. PICK x \in S : \A y \in S : ~(<<y, x>> \in OpToRel(<, Nat))
  BY <1>1, WFMin
<1>3. \A y \in S : ~(y < x)
  BY <1>2 DEF OpToRel
<1>4. \A y \in S : x <= y
  BY <1>3
<1> QED
  BY <1>4

LEMMA ModShift ==
  ASSUME NEW d \in Nat \ {0}, NEW n \in Nat, n >= d
  PROVE  (n - d) % d = n % d
<1> DEFINE q == n \div d
           m == (n - d) \div d
           a == n % d
           b == (n - d) % d
<1>1. n - d \in Nat
  OBVIOUS
<1>2. q \in Nat /\ a \in 0 .. d - 1 /\ n = q * d + a
  OBVIOUS
<1>3. m \in Nat /\ b \in 0 .. d - 1 /\ n - d = m * d + b
  BY <1>1
<1> HIDE DEF q, m, a, b
<1>4. m * d \in Nat /\ q * d \in Nat /\ (m + 1) * d = m * d + d
  BY <1>2, <1>3
<1>5. (m + 1) * d + b = q * d + a
  BY <1>2, <1>3, <1>4
<1>6. CASE m + 1 > q
  <2>1. (m + 1) * d >= (q + 1) * d /\ (q + 1) * d = q * d + d
    BY <1>2, <1>3, <1>6
  <2> QED
    BY <1>2, <1>3, <1>4, <1>5, <2>1
<1>7. CASE m + 1 < q
  <2>1. q * d >= (m + 2) * d /\ (m + 2) * d = (m + 1) * d + d
    BY <1>2, <1>3, <1>7
  <2> QED
    BY <1>2, <1>3, <1>4, <1>5, <2>1
<1>8. CASE m + 1 = q
  BY <1>2, <1>3, <1>4, <1>5, <1>8
<1>9. a = b
  BY <1>2, <1>3, <1>6, <1>7, <1>8
<1> QED
  BY <1>9 DEF a, b

(* n elements behind position p equal what is d places before them: they   *)
(* repeat the d elements before p.                                         *)
EqualsBefore(s, p, d, n) == \A j \in 1 .. n : s[p - d + j] = s[p + j]

LEMMA Repeats ==
  ASSUME NEW s, NEW p \in Nat, NEW d \in Nat \ {0}, NEW n \in Nat,
         EqualsBefore(s, p, d, n)
  PROVE  \A j \in 1 .. n : s[p + j] = s[p - d + 1 + ((j - 1) % d)]
<1> DEFINE Bad == {j \in 1 .. n : s[p + j] # s[p - d + 1 + ((j - 1) % d)]}
<1>1. SUFFICES ASSUME Bad # {} PROVE FALSE
  OBVIOUS
<1>2. PICK x \in Bad : \A y \in Bad : x <= y
  <2>1. Bad \in SUBSET Nat
    OBVIOUS
  <2> QED
    BY <1>1, <2>1, SmallestNat
<1>3. x \in 1 .. n /\ x - 1 \in Nat /\ s[p + x] # s[p - d + 1 + ((x - 1) % d)]
  BY <1>2
<1>4. s[p + x] = s[p - d + x]
  BY <1>3 DEF EqualsBefore
<1>5. CASE x <= d
  <2>1. x - 1 \in 0 .. d - 1
    BY <1>3, <1>5
  <2>2. (x - 1) % d = x - 1
    BY <2>1
  <2>3. p - d + 1 + (x - 1) = p - d + x
    BY <1>3
  <2> QED
    BY <1>3, <1>4, <2>2, <2>3
<1>6. CASE x > d
  <2>1. x - d \in 1 .. n /\ ~(x <= x - d) /\ x - 1 >= d
    BY <1>3, <1>6
  <2>2. x - d \notin Bad
    BY <1>2, <2>1
  <2>3. s[p + (x - d)] = s[p - d + 1 + ((x - d - 1) % d)]
    BY <2>1, <2>2
  <2>4. x - d - 1 = x - 1 - d /\ p + (x - d) = p - d + x
    BY <1>3
  <2>5. (x - 1 - d) % d = (x - 1) % d
    BY <1>3, <2>1, ModShift
  <2> QED
    BY <1>3, <1>4, <2>3, <2>4, <2>5
<1> QED
  BY <1>3, <1>5, <1>6

-----------------------------------------------------------------------------
(* Recursion towards the end of a sequence: what position i leads to is a  *)
(* step from what a later one, next[i], leads to.                          *)
LEMMA BackwardInduction ==
  ASSUME NEW n \in Nat, NEW Good,
         n + 1 \in Good,
         \A i \in 1 .. n : (\A j \in i + 1 .. n + 1 : j \in Good) => i \in Good
  PROVE  \A i \in 1 .. n + 1 : i \in Good
<1> DEFINE Bad == {m \in Nat : m <= n /\ n + 1 - m \notin Good}
<1> SUFFICES ASSUME NEW i \in 1 .. n + 1, i \notin Good PROVE FALSE
  OBVIOUS
<1>1. n + 1 - i \in Bad /\ Bad \in SUBSET Nat
  OBVIOUS
<1>2. PICK m \in Bad : \A y \in Bad : m <= y
  <2> HIDE DEF Bad
  <2> QED
    BY <1>1, SmallestNat
<1>3. m \in Nat /\ m <= n /\ m # 0 /\ n + 1 - m \in 1 .. n
  OBVIOUS
<1>4. ASSUME NEW j \in n + 1 - m + 1 .. n + 1 PROVE j \in Good
  <2>1. n + 1 - j \in Nat /\ n + 1 - j <= n /\ ~(m <= n + 1 - j) /\ n + 1 - (n + 1 - j) = j
    BY <1>3
  <2>2. n + 1 - j \notin Bad
    BY <1>2, <2>1
  <2> QED
    BY <2>1, <2>2
<1> QED
  BY <1>3, <1>4

Onward(next, n) == next \in [1 .. n -> 1 .. n + 1] /\ \A i \in 1 .. n : next[i] > i

Follows(f, n, base, next, step) ==
  f[n + 1] = base /\ \A i \in 1 .. n : f[i] = step[i][f[next[i]]]

LEMMA BackwardRecursion ==
  ASSUME NEW n \in Nat, NEW T, NEW base \in T, NEW next, Onward(next, n),
         NEW step \in [1 .. n -> [T -> T]]
  PROVE  \E f \in [1 .. n + 1 -> T] : Follows(f, n, base, next, step)
<1> USE DEF Onward
<1> DEFINE Part(f, k) ==
             /\ f \in [k .. n + 1 -> T]
             /\ f = [i \in k .. n + 1 |-> IF i = n + 1 THEN base ELSE step[i][f[next[i]]]]
           Good == {k \in 1 .. n + 1 : \E f : Part(f, k)}
<1>1. n + 1 \in Good
  <2> DEFINE f == [i \in n + 1 .. n + 1 |-> base]
  <2>1. Part(f, n + 1)
    OBVIOUS
  <2> HIDE DEF Part, f
  <2> QED
    BY <2>1
<1>2. ASSUME NEW i \in 1 .. n, \A j \in i + 1 .. n + 1 : j \in Good
      PROVE  i \in Good
  <2>1. i + 1 \in Good
    <3> HIDE DEF Good
    <3>1. i + 1 \in i + 1 .. n + 1
      OBVIOUS
    <3> QED
      BY <1>2, <3>1
  <2>2. PICK g : Part(g, i + 1)
    BY <2>1
  <2> DEFINE v == step[i][g[next[i]]]
             f == [j \in i .. n + 1 |-> IF j = i THEN v ELSE g[j]]
  <2>3. next[i] \in i + 1 .. n + 1 /\ i # n + 1
    OBVIOUS
  <2>4. g[next[i]] \in T /\ v \in T
    BY <2>2, <2>3
  <2>5. f \in [i .. n + 1 -> T]
    BY <2>2, <2>4, SMTT(30)
  <2>6. \A j \in i + 1 .. n + 1 : f[j] = g[j] /\ j # i /\ j \in i .. n + 1
    OBVIOUS
  <2>7. \A j \in i + 1 .. n + 1 : g[j] = IF j = n + 1 THEN base ELSE step[j][g[next[j]]]
    BY <2>2
  <2>8. ASSUME NEW j \in i .. n + 1
        PROVE  f[j] = IF j = n + 1 THEN base ELSE step[j][f[next[j]]]
    <3>1. CASE j = i
      <4>1. f[j] = v /\ f[next[j]] = g[next[j]]
        BY <2>3, <2>6, <3>1
      <4> QED
        BY <2>3, <3>1, <4>1
    <3>2. CASE j = n + 1
      <4>1. j \in i + 1 .. n + 1
        BY <3>2
      <4>2. f[j] = g[j]
        BY <2>6, <4>1
      <4> QED
        BY <2>7, <3>2, <4>1, <4>2
    <3>3. CASE j \in i + 1 .. n
      <4>1. next[j] \in i + 1 .. n + 1 /\ j \in i + 1 .. n + 1 /\ j # n + 1
        BY <3>3
      <4>2. f[next[j]] = g[next[j]] /\ f[j] = g[j]
        BY <2>6, <4>1
      <4> HIDE DEF f
      <4> QED
        BY <2>7, <4>1, <4>2
    <3> QED
      BY <3>1, <3>2, <3>3
  <2>9. f = [j \in i .. n + 1 |-> IF j = n + 1 THEN base ELSE step[j][f[next[j]]]]
    <3> DEFINE h == [j \in i .. n + 1 |-> IF j = n + 1 THEN base ELSE step[j][f[next[j]]]]
    <3>1. \A j \in i .. n + 1 : h[j] = f[j]
      <4> HIDE DEF f
      <4> QED
        BY <2>8
    <3> QED
      BY <3>1
  <2> HIDE DEF f
  <2>10. Part(f, i)
    BY <2>5, <2>9
  <2> HIDE DEF Part
  <2> QED
    BY <2>10
<1> HIDE DEF Good
<1>3. \A k \in 1 .. n + 1 : k \in Good
  BY <1>1, <1>2, BackwardInduction
<1>4. 1 \in Good
  BY <1>3
<1>5. PICK f : Part(f, 1)
  BY <1>4 DEF Good
<1>6. f \in [1 .. n + 1 -> T] /\ f[n + 1] = base /\ \A i \in 1 .. n : f[i] = step[i][f[next[i]]]
  <2>1. \A i \in 1 .. n : i \in 1 .. n + 1 /\ i # n + 1
    OBVIOUS
  <2>2. f \in [1 .. n + 1 -> T]
    BY <1>5
  <2>3. \A i \in 1 .. n + 1 : f[i] = IF i = n + 1 THEN base ELSE step[i][f[next[i]]]
    BY <1>5
  <2> HIDE DEF Part
  <2>4. n + 1 \in 1 .. n + 1
    OBVIOUS
  <2> QED
    BY <2>1, <2>2, <2>3, <2>4
<1> QED
  BY <1>6 DEF Follows

(* Recursion from the beginning is that, read from the other end.          *)
Climbs(f, n, base, step) == f[0] = base /\ \A k \in 1 .. n : f[k] = step[k][f[k - 1]]

LEMMA ForwardRecursion ==
  ASSUME NEW n \in Nat, NEW T, NEW base \in T, NEW step \in [1 .. n -> [T -> T]]
  PROVE  \E f \in [0 .. n -> T] : Climbs(f, n, base, step)
<1> DEFINE next == [i \in 1 .. n |-> i + 1]
           back == [i \in 1 .. n |-> step[n + 1 - i]]
<1>1. Onward(next, n)
  BY DEF Onward
<1>2. back \in [1 .. n -> [T -> T]]
  <2>1. \A i \in 1 .. n : n + 1 - i \in 1 .. n
    OBVIOUS
  <2> QED
    BY <2>1
<1>3. PICK g \in [1 .. n + 1 -> T] : Follows(g, n, base, next, back)
  <2> HIDE DEF next, back
  <2> QED
    BY <1>1, <1>2, BackwardRecursion
<1>4. g[n + 1] = base /\ \A i \in 1 .. n : g[i] = step[n + 1 - i][g[i + 1]]
  <2>1. g[n + 1] = base /\ \A i \in 1 .. n : g[i] = back[i][g[next[i]]]
    BY <1>3 DEF Follows
  <2> QED
    BY <2>1
<1> DEFINE f == [k \in 0 .. n |-> g[n + 1 - k]]
<1>5. f \in [0 .. n -> T] /\ f[0] = base
  <2>1. \A k \in 0 .. n : n + 1 - k \in 1 .. n + 1
    OBVIOUS
  <2> QED
    BY <1>4, <2>1
<1>6. ASSUME NEW k \in 1 .. n PROVE f[k] = step[k][f[k - 1]]
  <2>1. n + 1 - k \in 1 .. n /\ n + 1 - (n + 1 - k) = k /\ n + 1 - k + 1 = n + 1 - (k - 1)
        /\ k \in 0 .. n /\ k - 1 \in 0 .. n
    OBVIOUS
  <2>2. g[n + 1 - k] = step[k][g[n + 1 - (k - 1)]]
    <3>1. g[n + 1 - k] = step[n + 1 - (n + 1 - k)][g[n + 1 - k + 1]]
      BY <1>4, <2>1
    <3> QED
      BY <2>1, <3>1
  <2> QED
    BY <2>1, <2>2
<1> HIDE DEF f
<1>7. Climbs(f, n, base, step)
  BY <1>5, <1>6 DEF Climbs
<1> QED
  BY <1>5, <1>7
=============================================================================
