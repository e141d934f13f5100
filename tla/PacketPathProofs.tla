-------------------------- MODULE PacketPathProofs --------------------------
(***************************************************************************)
(* Proofs about the frame functions of Wire and the path of PacketPath, for *)
(* every port, payload, buffer, tag and tunnel.                             *)
(***************************************************************************)
EXTENDS PacketPath, RemainderLemmas, SequenceTheorems, TLAPS

Word16 == {x \in Nat : x <= 65535}

-----------------------------------------------------------------------------
(* One's complement arithmetic.                                             *)

(* Folding the carries of a sum gives its remainder modulo 65535, with      *)
(* 65535 for a multiple that is not 0.                                      *)
LEMMA Folded ==
    ASSUME NEW s \in Nat
    PROVE  cksum_fold[s] = IF s = 0 THEN 0 ELSE ((s - 1) % 65535) + 1
<1> DEFINE Val(x) == IF x = 0 THEN 0 ELSE ((x - 1) % 65535) + 1
           Fold(x) == (x % 65536) + (x \div 65536)
           Rec(f) == [x \in Nat |-> IF x < 65536 THEN x ELSE f[Fold(x)]]
           g == [x \in Nat |-> Val(x)]
           h == CHOOSE f : f = Rec(f)
<1>1. cksum_fold = h
  BY DEF cksum_fold
<1>2. ASSUME NEW x \in Nat, x >= 65536
      PROVE  Fold(x) \in Nat /\ Fold(x) < x /\ Val(Fold(x)) = Val(x)
  <2>1. PICK q \in Nat : x \div 65536 = q /\ x = 65536 * q + (x % 65536) /\ x % 65536 \in Nat /\ q >= 1
    BY <1>2
  <2> DEFINE t == Fold(x)
  <2>2. t \in Nat /\ t >= 1 /\ t < x /\ x - 1 = (t - 1) + q * 65535
    BY <2>1
  <2> HIDE DEF t
  <2>3. (x - 1) % 65535 = (t - 1) % 65535
    <3>1. t - 1 \in Int /\ q \in Int /\ 65535 \in Nat \ {0}
      BY <2>2
    <3>2. ((t - 1) + q * 65535) % 65535 = (t - 1) % 65535
      BY <3>1, SameClass
    <3> QED
      BY <2>2, <3>2
  <2>4. x # 0 /\ t # 0
    BY <1>2, <2>2
  <2>5. Val(t) = Val(x)
    BY <2>3, <2>4
  <2> QED
    BY <2>2, <2>5 DEF t
<1>3. ASSUME NEW x \in Nat, x < 65536 PROVE Val(x) = x
  BY <1>3
<1>4. g = Rec(g)
  <2>1. ASSUME NEW x \in Nat PROVE g[x] = IF x < 65536 THEN x ELSE g[Fold(x)]
    <3> HIDE DEF Val, Fold
    <3>1. CASE x < 65536
      BY <1>3, <3>1
    <3>2. CASE x >= 65536
      BY <1>2, <3>2
    <3> QED
      BY <3>1, <3>2
  <2> HIDE DEF Val, Fold
  <2> QED
    BY <2>1
<1>5. h = Rec(h)
  BY <1>4
<1> HIDE DEF h
<1>6. \A x \in Nat : h[x] = IF x < 65536 THEN x ELSE h[Fold(x)]
  <2> HIDE DEF Fold
  <2> QED
    BY <1>5
<1> HIDE DEF Val, Fold
<1>7. \A x \in Nat : h[x] = Val(x)
  <2> DEFINE T == {x \in Nat : h[x] # Val(x)}
  <2>1. SUFFICES ASSUME T # {} PROVE FALSE
    OBVIOUS
  <2>2. PICK x \in T : \A y \in T : x <= y
    <3>1. T \in SUBSET Nat /\ T # {}
      BY <2>1
    <3> HIDE DEF T
    <3> QED
      BY <3>1, LeastOf
  <2>3. x \in Nat /\ h[x] # Val(x)
    BY <2>2
  <2>4. x >= 65536
    BY <1>3, <1>6, <2>3
  <2>5. Fold(x) \in Nat /\ Fold(x) < x /\ Val(Fold(x)) = Val(x)
    BY <1>2, <2>3, <2>4
  <2>6. Fold(x) \notin T
    BY <2>2, <2>3, <2>5
  <2>7. h[Fold(x)] = Val(Fold(x))
    BY <2>5, <2>6
  <2> QED
    BY <1>6, <2>3, <2>4, <2>5, <2>7
<1> QED
  BY <1>1, <1>7 DEF Val

(* A folded sum is a word that differs from the sum by a multiple of 65535, *)
(* and is 0 only if the sum is.                                             *)
LEMMA FoldIs ==
    ASSUME NEW s \in Nat
    PROVE  /\ cksum_fold[s] \in Word16
           /\ s > 0 => cksum_fold[s] > 0
           /\ \E k \in Nat : s = 65535 * k + cksum_fold[s]
<1> DEFINE c == cksum_fold[s]
<1>1. c = IF s = 0 THEN 0 ELSE ((s - 1) % 65535) + 1
  BY Folded
<1> HIDE DEF c
<1>2. CASE s = 0
  <2>1. c = 0 /\ s = 65535 * 0 + c
    BY <1>1, <1>2
  <2> QED
    BY <1>2, <2>1 DEF Word16, c
<1>3. CASE s > 0
  <2> DEFINE k == (s - 1) \div 65535
  <2>1. k \in Nat /\ s - 1 = 65535 * k + ((s - 1) % 65535)
    BY <1>3
  <2> DEFINE r == (s - 1) % 65535
  <2>2. r \in Nat /\ r <= 65534 /\ c = r + 1
    BY <1>1, <1>3
  <2> HIDE DEF k
  <2>3. c \in Nat /\ 1 <= c /\ c <= 65535 /\ s = 65535 * k + c
    BY <2>1, <2>2
  <2> QED
    BY <2>1, <2>3 DEF Word16, c
<1> QED
  BY <1>2, <1>3

(* The only such words are the folded sum and, where it is 65535, also 0.   *)
LEMMA FoldUnique ==
    ASSUME NEW s \in Nat, NEW c \in Word16, NEW k \in Int, s > 0, c > 0, s = 65535 * k + c
    PROVE  cksum_fold[s] = c
<1> DEFINE d == cksum_fold[s]
<1>1. d \in Nat /\ 1 <= d /\ d <= 65535
  BY FoldIs DEF Word16
<1>2. PICK j \in Nat : s = 65535 * j + d
  BY FoldIs
<1> HIDE DEF d
<1>3. c \in Nat /\ 1 <= c /\ c <= 65535
  BY DEF Word16
<1>4. 65535 * (j - k) = c - d
  BY <1>1, <1>2, <1>3
<1>5. j - k = 0
  BY <1>1, <1>3, <1>4
<1>6. d = c
  BY <1>1, <1>3, <1>4, <1>5
<1> QED
  BY <1>6 DEF d

-----------------------------------------------------------------------------
(* Sums of words.                                                           *)

\* The loop of rewsr_cksum_partial after n words
Total(words, n, seed) ==
    LET sum[i \in 0 .. n] == IF i = 0 THEN seed ELSE sum[i - 1] + words[i]
    IN  sum[n]

\* f is the loop's recursion, unfolded once
Unfold(words, seed, n, f) ==
    [i \in 0 .. n |-> IF i = 0 THEN seed ELSE f[i - 1] + words[i]]

\* f has the intermediate sums of the loop
SumsUp(words, seed, n, f) ==
    \A i \in 0 .. n : f[i] = IF i = 0 THEN seed ELSE f[i - 1] + words[i]

(* The loop's recursion has a solution, whatever the words.                 *)
LEMMA SumExists ==
    ASSUME NEW words, NEW seed, NEW n \in Nat
    PROVE  \E g : g = Unfold(words, seed, n, g)
<1> DEFINE Rec(m, f) == [i \in 0 .. m |-> IF i = 0 THEN seed ELSE f[i - 1] + words[i]]
           S == {m \in 0 .. n : \E g : g = Rec(m, g)}
<1>1. 0 \in S
  <2> DEFINE g == [i \in 0 .. 0 |-> seed]
  <2>1. g = Rec(0, g) /\ 0 \in 0 .. n
    OBVIOUS
  <2> HIDE DEF g, Rec
  <2> QED
    BY <2>1
<1>2. ASSUME NEW m \in 0 .. n - 1, m \in S PROVE m + 1 \in S
  <2>1. PICK g : g = Rec(m, g)
    BY <1>2
  <2>2. \A i \in 0 .. m : g[i] = IF i = 0 THEN seed ELSE g[i - 1] + words[i]
    BY <2>1
  <2> DEFINE f == [i \in 0 .. m + 1 |-> IF i <= m THEN g[i] ELSE g[m] + words[m + 1]]
  <2>3. ASSUME NEW i \in 0 .. m + 1
        PROVE  f[i] = IF i = 0 THEN seed ELSE f[i - 1] + words[i]
    <3>1. CASE i = 0
      BY <2>2, <3>1
    <3>2. CASE i \in 1 .. m
      <4>1. i \in 0 .. m /\ i - 1 \in 0 .. m /\ i # 0
        BY <3>2
      <4>2. f[i] = g[i] /\ f[i - 1] = g[i - 1]
        BY <4>1
      <4> QED
        BY <2>2, <4>1, <4>2
    <3>3. CASE i = m + 1
      <4>1. f[m] = g[m] /\ f[m + 1] = g[m] + words[m + 1] /\ (m + 1) - 1 = m /\ m + 1 # 0
        OBVIOUS
      <4> QED
        BY <3>3, <4>1
    <3> QED
      BY <3>1, <3>2, <3>3
  <2>4. f = Rec(m + 1, f)
    BY <2>3
  <2> HIDE DEF f, Rec
  <2> QED
    BY <2>4
<1>3. n \in S
  <2> HIDE DEF S
  <2>1. 0 .. n \subseteq S
    BY <1>1, <1>2, UpTo
  <2> QED
    BY <2>1
<1> QED
  BY <1>3 DEF Unfold

(* Two solutions agree as far as both go.                                   *)
LEMMA SumsAgree ==
    ASSUME NEW words, NEW seed, NEW m \in Nat, NEW n \in Nat, m <= n, NEW f, NEW g,
           SumsUp(words, seed, m, f), SumsUp(words, seed, n, g)
    PROVE  f[m] = g[m]
<1> USE DEF SumsUp
<1> DEFINE S == {i \in 0 .. m : f[i] = g[i]}
<1>1. 0 \in S
  OBVIOUS
<1>2. ASSUME NEW i \in 0 .. m - 1, i \in S PROVE i + 1 \in S
  <2>1. i + 1 \in 0 .. m /\ i + 1 \in 0 .. n /\ i + 1 # 0 /\ (i + 1) - 1 = i
    OBVIOUS
  <2>2. f[i + 1] = f[i] + words[i + 1] /\ g[i + 1] = g[i] + words[i + 1]
    BY <2>1
  <2> QED
    BY <1>2, <2>1, <2>2
<1>3. m \in S
  <2> HIDE DEF S
  <2>1. 0 .. m \subseteq S
    BY <1>1, <1>2, UpTo
  <2> QED
    BY <2>1
<1> QED
  BY <1>3

(* A sum begins with the seed and takes one word at a time.                 *)
LEMMA TotalStep ==
    ASSUME NEW words, NEW seed
    PROVE  /\ Total(words, 0, seed) = seed
           /\ \A n \in Nat : Total(words, n + 1, seed) = Total(words, n, seed) + words[n + 1]
<1> DEFINE H(m) == CHOOSE f : f = Unfold(words, seed, m, f)
<1>1. ASSUME NEW n \in Nat PROVE Total(words, n, seed) = H(n)[n]
  BY DEF Total, Unfold
<1>2. ASSUME NEW n \in Nat PROVE H(n) = Unfold(words, seed, n, H(n))
  BY SumExists
<1> HIDE DEF H
<1>3. ASSUME NEW n \in Nat PROVE SumsUp(words, seed, n, H(n))
  BY <1>2 DEF SumsUp, Unfold
<1>4. Total(words, 0, seed) = seed
  <2>1. 0 \in 0 .. 0
    OBVIOUS
  <2> QED
    BY <1>1, <1>3, <2>1 DEF SumsUp
<1>5. ASSUME NEW n \in Nat
      PROVE  Total(words, n + 1, seed) = Total(words, n, seed) + words[n + 1]
  <2>1. n + 1 \in Nat /\ n <= n + 1 /\ n + 1 \in 0 .. n + 1 /\ n + 1 # 0 /\ (n + 1) - 1 = n
    OBVIOUS
  <2>2. H(n + 1)[n + 1] = H(n + 1)[n] + words[n + 1]
    BY <1>3, <2>1 DEF SumsUp
  <2>3. H(n)[n] = H(n + 1)[n]
    BY <1>3, <2>1, SumsAgree
  <2> QED
    BY <1>1, <2>1, <2>2, <2>3
<1> QED
  BY <1>4, <1>5

LEMMA PartialIs ==
    ASSUME NEW words, NEW seed, NEW len \in Nat
    PROVE  cksum_partial(words, len, seed) =
             Total(words, len \div 2, seed)
               + (IF len % 2 = 1 THEN 256 * (words[len \div 2 + 1] \div 256) ELSE 0)
  BY DEF cksum_partial, Total

(* A sum that goes on after m words of u goes on as a sum of the words that *)
(* follow, with what there was as its seed.                                 *)
LEMMA SumSplit ==
    ASSUME NEW u, NEW w, NEW m \in Nat, NEW n \in Nat, NEW seed,
           \A i \in 1 .. n : u[m + i] = w[i]
    PROVE  Total(u, m + n, seed) = Total(w, n, Total(u, m, seed))
<1> DEFINE b == Total(u, m, seed)
           S == {i \in 0 .. n : Total(u, m + i, seed) = Total(w, i, b)}
<1>1. 0 \in S
  BY TotalStep
<1>2. ASSUME NEW i \in 0 .. n - 1, i \in S PROVE i + 1 \in S
  <2>1. i \in Nat /\ m + i \in Nat /\ i + 1 \in 1 .. n /\ i + 1 \in 0 .. n
        /\ m + (i + 1) = (m + i) + 1
    OBVIOUS
  <2>2. Total(u, m + (i + 1), seed) = Total(u, m + i, seed) + u[m + (i + 1)]
    <3> DEFINE k == m + i
    <3>2. k \in Nat
      BY <2>1
    <3> HIDE DEF k
    <3>3. Total(u, k + 1, seed) = Total(u, k, seed) + u[k + 1]
      BY <3>2, TotalStep
    <3>1. Total(u, (m + i) + 1, seed) = Total(u, m + i, seed) + u[(m + i) + 1]
      BY <3>3 DEF k
    <3> QED
      BY <2>1, <3>1
  <2>3. Total(w, i + 1, b) = Total(w, i, b) + w[i + 1]
    BY <2>1, TotalStep
  <2>4. u[m + (i + 1)] = w[i + 1]
    BY <2>1
  <2> HIDE DEF b
  <2> QED
    BY <1>2, <2>1, <2>2, <2>3, <2>4
<1>3. n \in S
  <2> HIDE DEF S
  <2>1. 0 .. n \subseteq S
    BY <1>1, <1>2, UpTo
  <2> QED
    BY <2>1
<1> QED
  BY <1>3

(* Sums of the same words are the same.                                     *)
LEMMA SumSame ==
    ASSUME NEW u, NEW w, NEW n \in Nat, NEW seed, \A i \in 1 .. n : u[i] = w[i]
    PROVE  Total(u, n, seed) = Total(w, n, seed)
<1>1. \A i \in 1 .. n : u[0 + i] = w[i]
  OBVIOUS
<1>2. 0 \in Nat /\ 0 + n = n /\ Total(u, 0, seed) = seed
  BY TotalStep
<1>3. Total(u, 0 + n, seed) = Total(w, n, Total(u, 0, seed))
  BY <1>1, <1>2, SumSplit
<1> QED
  BY <1>2, <1>3

(* A sum of natural numbers is one, and the seed is one of its summands.    *)
LEMMA SumSeed ==
    ASSUME NEW w, NEW n \in Nat, NEW seed \in Nat, \A i \in 1 .. n : w[i] \in Nat
    PROVE  /\ Total(w, n, seed) \in Nat /\ Total(w, n, 0) \in Nat
           /\ Total(w, n, seed) = Total(w, n, 0) + seed
<1> DEFINE S == {i \in 0 .. n : /\ Total(w, i, seed) \in Nat /\ Total(w, i, 0) \in Nat
                                /\ Total(w, i, seed) = Total(w, i, 0) + seed}
<1>1. 0 \in S
  BY TotalStep
<1>2. ASSUME NEW i \in 0 .. n - 1, i \in S PROVE i + 1 \in S
  <2>1. i \in Nat /\ i + 1 \in 1 .. n /\ i + 1 \in 0 .. n /\ w[i + 1] \in Nat
    OBVIOUS
  <2>2. /\ Total(w, i + 1, seed) = Total(w, i, seed) + w[i + 1]
        /\ Total(w, i + 1, 0) = Total(w, i, 0) + w[i + 1]
    BY <2>1, TotalStep
  <2> QED
    BY <1>2, <2>1, <2>2
<1>3. n \in S
  <2> HIDE DEF S
  <2>1. 0 .. n \subseteq S
    BY <1>1, <1>2, UpTo
  <2> QED
    BY <2>1
<1> QED
  BY <1>3

\* n numbers that differ in place k at most
Variants(u, w, n, k) ==
    \A i \in 1 .. n : u[i] \in Nat /\ w[i] \in Nat /\ (i # k => u[i] = w[i])

(* Two sums whose words differ in one place differ by as much.              *)
LEMMA SumChange ==
    ASSUME NEW u, NEW w, NEW n \in Nat, NEW k \in 1 .. n, NEW seed \in Nat, Variants(u, w, n, k)
    PROVE  /\ Total(u, n, seed) \in Nat /\ Total(w, n, seed) \in Nat
           /\ Total(u, n, seed) + w[k] = Total(w, n, seed) + u[k]
<1> USE DEF Variants
<1> DEFINE S == {i \in 0 .. n : Total(u, i, seed) + (IF i >= k THEN w[k] ELSE 0)
                                  = Total(w, i, seed) + (IF i >= k THEN u[k] ELSE 0)}
<1>1. 0 \in S
  BY TotalStep
<1>2. ASSUME NEW i \in 0 .. n - 1, i \in S PROVE i + 1 \in S
  <2>1. i \in Nat /\ i + 1 \in 1 .. n /\ i + 1 \in 0 .. n
        /\ u[i + 1] \in Nat /\ w[i + 1] \in Nat /\ u[k] \in Nat /\ w[k] \in Nat
    OBVIOUS
  <2> DEFINE a == Total(u, i, seed)
             b == Total(w, i, seed)
             c == Total(u, i + 1, seed)
             d == Total(w, i + 1, seed)
  <2>2. c = a + u[i + 1] /\ d = b + w[i + 1]
    BY <2>1, TotalStep
  <2>3. a \in Nat /\ b \in Nat
    <3>1. \A j \in 1 .. i : u[j] \in Nat /\ w[j] \in Nat
      BY <2>1
    <3> QED
      BY <2>1, <3>1, SumSeed
  <2>4. a + (IF i >= k THEN w[k] ELSE 0) = b + (IF i >= k THEN u[k] ELSE 0)
    BY <1>2
  <2> HIDE DEF a, b, c, d
  <2>5. c + (IF i + 1 >= k THEN w[k] ELSE 0) = d + (IF i + 1 >= k THEN u[k] ELSE 0)
    <3>1. CASE i + 1 = k
      BY <2>1, <2>2, <2>3, <2>4, <3>1
    <3>2. CASE i + 1 # k
      <4>1. u[i + 1] = w[i + 1] /\ (i + 1 >= k <=> i >= k)
        BY <2>1, <3>2
      <4> QED
        BY <2>1, <2>2, <2>3, <2>4, <4>1
    <3> QED
      BY <3>1, <3>2
  <2> QED
    BY <2>1, <2>5 DEF c, d
<1>3. n \in S
  <2> HIDE DEF S
  <2>1. 0 .. n \subseteq S
    BY <1>1, <1>2, UpTo
  <2> QED
    BY <2>1
<1>4. Total(u, n, seed) \in Nat /\ Total(w, n, seed) \in Nat
  BY SumSeed
<1> QED
  BY <1>3, <1>4

-----------------------------------------------------------------------------
(* Headers and frames.                                                      *)

\* x is s followed by t, in terms the provers do not unfold
Joins(x, s, t) ==
    /\ x \in Seq(Word16) /\ Len(x) = Len(s) + Len(t)
    /\ \A i \in 1 .. Len(s) + Len(t) : x[i] = IF i <= Len(s) THEN s[i] ELSE t[i - Len(s)]

\* x is the words m to n of s
PartOf(x, s, m, n) ==
    /\ x \in Seq(Word16) /\ Len(x) = (n + 1) - m
    /\ \A i \in 1 .. (n + 1) - m : x[i] = s[(m + i) - 1]

LEMMA Cat ==
    ASSUME NEW s \in Seq(Word16), NEW t \in Seq(Word16)
    PROVE  Joins(s \o t, s, t)
  BY ConcatProperties DEF Joins

LEMMA Chain ==
    ASSUME NEW r, NEW s, NEW x, NEW t \in Seq(Word16), Joins(x, r, s)
    PROVE  Joins(x \o t, x, t)
<1>1. x \in Seq(Word16)
  BY DEF Joins
<1> QED
  BY <1>1, Cat, Zenon

LEMMA Part ==
    ASSUME NEW s \in Seq(Word16), NEW m \in Nat, NEW n \in Nat, m >= 1, n <= Len(s),
           m <= n + 1
    PROVE  PartOf(SubSeq(s, m, n), s, m, n)
<1>1. Len(s) \in Nat /\ \A i \in 1 .. Len(s) : s[i] \in Word16
  BY LenProperties, ElementOfSeq
<1>2. \A i \in m .. n : s[i] \in Word16
  BY <1>1
<1> DEFINE x == SubSeq(s, m, n)
<1>3. /\ x \in Seq(Word16) /\ Len(x) = IF m <= n THEN n - m + 1 ELSE 0
      /\ \A i \in 1 .. n - m + 1 : x[i] = s[m + i - 1]
  <2>1. m \in Int /\ n \in Int
    OBVIOUS
  <2> QED
    BY <1>2, <2>1, SubSeqProperties
<1> HIDE DEF x
<1>4. Len(x) = (n + 1) - m
  BY <1>3
<1>5. ASSUME NEW i \in 1 .. (n + 1) - m PROVE x[i] = s[(m + i) - 1]
  BY <1>3
<1>6. PartOf(x, s, m, n)
  BY <1>3, <1>4, <1>5 DEF PartOf
<1> QED
  BY <1>6 DEF x

\* x is s with e for its word i
Patched(x, s, i, e) ==
    /\ x \in Seq(Word16) /\ Len(x) = Len(s)
    /\ \A j \in 1 .. Len(s) : x[j] = IF j = i THEN e ELSE s[j]

LEMMA Patch ==
    ASSUME NEW s \in Seq(Word16), NEW i \in 1 .. Len(s), NEW e \in Word16
    PROVE  Patched([s EXCEPT ![i] = e], s, i, e)
  BY ExceptSeq DEF Patched

\* An IPv4 header as rewsr_build_udp_ipv4 fills it in, and its words
Ipv4Header(a, b, c) == <<17664, a, b, 16384, 16401, c>> \o <<2560, 1>> \o <<2560, 258>>

Ipv4Words(ip, a, b, c) ==
    /\ ip \in Seq(Word16) /\ Len(ip) = 10
    /\ ip[1] = 17664 /\ ip[2] = a /\ ip[3] = b /\ ip[4] = 16384 /\ ip[5] = 16401
    /\ ip[6] = c /\ ip[7] = 2560 /\ ip[8] = 1 /\ ip[9] = 2560 /\ ip[10] = 258

LEMMA Ipv4Is ==
    ASSUME NEW a \in Word16, NEW b \in Word16, NEW c \in Word16
    PROVE  Ipv4Words(Ipv4Header(a, b, c), a, b, c)
<1> DEFINE s == <<17664, a, b, 16384, 16401, c>>
           t == <<2560, 1>>
           u == <<2560, 258>>
           st == s \o t
           ip == st \o u
<1>1. /\ s \in Seq(Word16) /\ Len(s) = 6 /\ t \in Seq(Word16) /\ Len(t) = 2
      /\ u \in Seq(Word16) /\ Len(u) = 2
  BY DEF Word16
<1>2. /\ s[1] = 17664 /\ s[2] = a /\ s[3] = b /\ s[4] = 16384 /\ s[5] = 16401 /\ s[6] = c
      /\ t[1] = 2560 /\ t[2] = 1 /\ u[1] = 2560 /\ u[2] = 258
  OBVIOUS
<1> HIDE DEF s, t, u
<1>3. Joins(st, s, t)
  BY <1>1, Cat, Zenon
<1>4. st \in Seq(Word16)
  BY <1>3 DEF Joins
<1> HIDE DEF st
<1>5. Joins(ip, st, u)
  BY <1>1, <1>4, Cat, Zenon
<1> HIDE DEF ip
<1>6. /\ Len(st) = 8
      /\ st[1] = 17664 /\ st[2] = a /\ st[3] = b /\ st[4] = 16384 /\ st[5] = 16401 /\ st[6] = c
      /\ st[7] = 2560 /\ st[8] = 1
  BY <1>1, <1>2, <1>3 DEF Joins
<1>7. Ipv4Words(ip, a, b, c)
  BY <1>1, <1>2, <1>5, <1>6 DEF Joins, Ipv4Words
<1> QED
  BY <1>7 DEF Ipv4Header, ip, st, s, t, u

(* The sum of ten words.                                                    *)
LEMMA TenWords ==
    ASSUME NEW w, NEW seed, \A i \in 1 .. 10 : w[i] \in Nat
    PROVE  Total(w, 10, seed) = seed + w[1] + w[2] + w[3] + w[4] + w[5] + w[6] + w[7] + w[8]
                                     + w[9] + w[10]
<1>1. /\ Total(w, 0, seed) = seed
      /\ \A n \in Nat : Total(w, n + 1, seed) = Total(w, n, seed) + w[n + 1]
  BY TotalStep
<1>2. /\ Total(w, 0 + 1, seed) = Total(w, 0, seed) + w[0 + 1]
      /\ Total(w, 1 + 1, seed) = Total(w, 1, seed) + w[1 + 1]
      /\ Total(w, 2 + 1, seed) = Total(w, 2, seed) + w[2 + 1]
      /\ Total(w, 3 + 1, seed) = Total(w, 3, seed) + w[3 + 1]
      /\ Total(w, 4 + 1, seed) = Total(w, 4, seed) + w[4 + 1]
      /\ Total(w, 5 + 1, seed) = Total(w, 5, seed) + w[5 + 1]
      /\ Total(w, 6 + 1, seed) = Total(w, 6, seed) + w[6 + 1]
      /\ Total(w, 7 + 1, seed) = Total(w, 7, seed) + w[7 + 1]
      /\ Total(w, 8 + 1, seed) = Total(w, 8, seed) + w[8 + 1]
      /\ Total(w, 9 + 1, seed) = Total(w, 9, seed) + w[9 + 1]
  BY <1>1
<1> QED
  BY <1>1, <1>2

\* What the IPv4 header sums to before its checksum is in it
IpSum(total, id) == 17664 + total + id + 16384 + 16401 + 2560 + 1 + 2560 + 258

\* The headers of a datagram from the generator's host to port p
HeadersAre(h, p, id, n) ==
    /\ h \in Seq(Word16) /\ Len(h) = 21
    /\ h[1] = 512 /\ h[2] = 0 /\ h[3] = 2 /\ h[4] = 512 /\ h[5] = 0 /\ h[6] = 1
    /\ h[7] = 2048 /\ h[8] = 17664 /\ h[9] = (20 + n) % 65536 /\ h[10] = id
    /\ h[11] = 16384 /\ h[12] = 16401
    /\ h[13] = Not16(cksum_fold[IpSum((20 + n) % 65536, id)])
    /\ h[14] = 2560 /\ h[15] = 1 /\ h[16] = 2560 /\ h[17] = 258
    /\ h[18] = 40000 /\ h[19] = p /\ h[20] = n % 65536 /\ h[21] = 0

(* rewsr_build_udp_ipv4 writes the headers field by field.                  *)
LEMMA HeadersWritten ==
    ASSUME NEW p \in Word16, NEW id \in Word16, NEW n \in Nat
    PROVE  HeadersAre(Headers(Flow(p), id, n), p, id, n)
<1> DEFINE tl == (20 + n) % 65536
           ul == n % 65536
           c == cksum(Ipv4Header(tl, id, 0), 20)
           dst == <<512, 0, 2>>
           src == <<512, 0, 1>>
           ty == <<2048>>
           udp == <<40000, p, ul, 0>>
           i2 == Ipv4Header(tl, id, c)
           m2 == dst \o src
           m3 == m2 \o ty
           m4 == m3 \o i2
           h == m4 \o udp
<1>1. Headers(Flow(p), id, n) = h
  BY DEF Headers, Flow, Ipv4Header
<1>2. tl \in Word16 /\ ul \in Word16 /\ 0 \in Word16
  BY DEF Word16
<1>3. c = Not16(cksum_fold[IpSum(tl, id)]) /\ c \in Word16
  <2> DEFINE w == Ipv4Header(tl, id, 0)
  <2> HIDE DEF tl
  <2>1. Ipv4Words(w, tl, id, 0)
    BY <1>2, Ipv4Is
  <2>2. c = Not16(cksum_fold[cksum_partial(w, 20, 0)])
    BY DEF cksum
  <2> HIDE DEF w, c
  <2>3. tl \in Nat /\ id \in Nat
    BY <1>2 DEF Word16
  <2>4. \A i \in 1 .. 10 : w[i] \in Nat
    BY <2>1, <2>3, SMTT(40) DEF Ipv4Words
  <2>5. cksum_partial(w, 20, 0) = Total(w, 10, 0)
    <3>1. cksum_partial(w, 20, 0) = Total(w, 20 \div 2, 0)
             + (IF 20 % 2 = 1 THEN 256 * (w[20 \div 2 + 1] \div 256) ELSE 0)
      BY PartialIs
    <3>2. Total(w, 10, 0) \in Nat
      BY <2>4, SumSeed
    <3> QED
      BY <3>1, <3>2
  <2>6. Total(w, 10, 0) = IpSum(tl, id)
    <3>1. Total(w, 10, 0) = 0 + w[1] + w[2] + w[3] + w[4] + w[5] + w[6] + w[7] + w[8]
                              + w[9] + w[10]
      BY <2>4, TenWords
    <3> QED
      BY <2>1, <2>3, <3>1 DEF IpSum, Ipv4Words
  <2>7. IpSum(tl, id) \in Nat
    BY <2>3 DEF IpSum
  <2>8. cksum_fold[IpSum(tl, id)] \in Word16
    BY <2>7, FoldIs
  <2> QED
    BY <2>2, <2>5, <2>6, <2>8 DEF Not16, Word16
<1> HIDE DEF tl, ul, c
<1>4. Ipv4Words(i2, tl, id, c) /\ i2 \in Seq(Word16) /\ Len(i2) = 10
  <2>1. Ipv4Words(i2, tl, id, c)
    BY <1>2, <1>3, Ipv4Is
  <2> HIDE DEF i2
  <2> QED
    BY <2>1 DEF Ipv4Words
<1> HIDE DEF i2
<1>5. /\ dst \in Seq(Word16) /\ Len(dst) = 3 /\ dst[1] = 512 /\ dst[2] = 0 /\ dst[3] = 2
      /\ src \in Seq(Word16) /\ Len(src) = 3 /\ src[1] = 512 /\ src[2] = 0 /\ src[3] = 1
      /\ ty \in Seq(Word16) /\ Len(ty) = 1 /\ ty[1] = 2048
  BY DEF Word16
<1>6. /\ udp \in Seq(Word16) /\ Len(udp) = 4
      /\ udp[1] = 40000 /\ udp[2] = p /\ udp[3] = ul /\ udp[4] = 0
  BY <1>2 DEF Word16
<1> HIDE DEF dst, src, ty, udp
<1>7. dst \in Seq(Word16) /\ src \in Seq(Word16) /\ ty \in Seq(Word16)
      /\ i2 \in Seq(Word16) /\ udp \in Seq(Word16)
  BY <1>4, <1>5, <1>6
<1>8. Joins(m2, dst, src)
  BY <1>7, Cat, Zenon
<1> HIDE DEF m2
<1>9. Joins(m3, m2, ty)
  BY <1>7, <1>8, Chain, Zenon
<1> HIDE DEF m3
<1>10. Joins(m4, m3, i2)
  BY <1>7, <1>9, Chain, Zenon
<1> HIDE DEF m4
<1>19. Joins(h, m4, udp)
  BY <1>7, <1>10, Chain, Zenon
<1> HIDE DEF h
<1>11. /\ Len(m2) = 6 /\ m2[1] = 512 /\ m2[2] = 0 /\ m2[3] = 2 /\ m2[4] = 512 /\ m2[5] = 0
       /\ m2[6] = 1
  BY <1>5, <1>8 DEF Joins
<1>12. Len(m3) = 7 /\ m3[7] = 2048 /\ \A i \in 1 .. 6 : m3[i] = m2[i]
  BY <1>5, <1>9, <1>11 DEF Joins
<1>13. Len(m4) = 17 /\ (\A i \in 1 .. 7 : m4[i] = m3[i]) /\ \A i \in 8 .. 17 : m4[i] = i2[i - 7]
  BY <1>4, <1>10, <1>12 DEF Joins
<1>14. /\ h \in Seq(Word16) /\ Len(h) = 21
       /\ (\A i \in 1 .. 17 : h[i] = m4[i]) /\ \A i \in 18 .. 21 : h[i] = udp[i - 17]
  BY <1>6, <1>13, <1>19 DEF Joins
<1>15. /\ h[1] = 512 /\ h[2] = 0 /\ h[3] = 2 /\ h[4] = 512 /\ h[5] = 0 /\ h[6] = 1 /\ h[7] = 2048
  BY <1>11, <1>12, <1>13, <1>14
<1>16. /\ h[8] = 17664 /\ h[9] = tl /\ h[10] = id /\ h[11] = 16384 /\ h[12] = 16401
       /\ h[13] = c /\ h[14] = 2560 /\ h[15] = 1 /\ h[16] = 2560 /\ h[17] = 258
  BY <1>4, <1>13, <1>14 DEF Ipv4Words
<1>17. h[18] = 40000 /\ h[19] = p /\ h[20] = ul /\ h[21] = 0
  BY <1>6, <1>14
<1>18. HeadersAre(h, p, id, n)
  BY <1>3, <1>14, <1>15, <1>16, <1>17 DEF HeadersAre, tl, ul
<1> QED
  BY <1>1, <1>18

-----------------------------------------------------------------------------
(* What a frame is, and that the functions of Wire keep it.                 *)

FrameOK(f) ==
    /\ f \in [words : Seq(Word16), len : Nat]
    /\ \/ f.len = 2 * Len(f.words)
       \/ f.len = 2 * Len(f.words) - 1 /\ f.words[Len(f.words)] % 256 = 0

(* Whatever is read of a frame is a word.                                   *)
LEMMA WordTyped ==
    ASSUME NEW f, FrameOK(f), NEW off \in Nat
    PROVE  Word(f, off) \in Nat /\ Word(f, off) <= 65535
<1>1. f.words \in Seq(Word16) /\ Len(f.words) \in Nat
  BY DEF FrameOK
<1> DEFINE k == off \div 2 + 1
<1>2. k \in Nat /\ k >= 1 /\ k - 1 = off \div 2
  OBVIOUS
<1>3. CASE k <= Len(f.words)
  <2>1. k \in 1 .. Len(f.words)
    BY <1>1, <1>2, <1>3
  <2>2. f.words[k] \in Word16
    BY <1>1, <2>1, ElementOfSeq
  <2>3. Word(f, off) = f.words[k]
    BY <1>1, <1>2, <1>3 DEF Word
  <2> QED
    BY <2>2, <2>3 DEF Word16
<1>4. CASE k > Len(f.words)
  <2>1. Word(f, off) = 0
    BY <1>1, <1>2, <1>4 DEF Word
  <2> QED
    BY <2>1
<1> QED
  BY <1>1, <1>2, <1>3, <1>4

(* On a little-endian host a field compared with a swapped constant is      *)
(* compared with the constant.                                              *)
LEMMA SwappedEqual ==
    ASSUME LittleEndian, NEW w \in Nat, w <= 65535
    PROVE  /\ AsLoaded(w) = bswap16(2048) <=> w = 2048
           /\ AsLoaded(w) = bswap16(4789) <=> w = 4789
<1> DEFINE l == w % 256
           h == w \div 256
<1>1. l \in Nat /\ l < 256 /\ h \in Nat /\ h < 256 /\ w = 256 * h + l
  OBVIOUS
<1>2. AsLoaded(w) = 256 * l + h
  BY DEF AsLoaded, bswap16
<1>3. bswap16(2048) = 8 /\ bswap16(4789) = 46354
  BY DEF bswap16
<1> HIDE DEF l, h
<1> QED
  BY <1>1, <1>2, <1>3

(* The two programs that look for UDP and its port agree on every frame, on *)
(* a little-endian host.                                                    *)
LEMMA ReceiversAgree ==
    ASSUME LittleEndian, NEW f, FrameOK(f)
    PROVE  /\ parse_udp_ipv4(f).rc = "OK" =>
                 (xdp_redirect(f) <=> parse_udp_ipv4(f).dst_port = 4789)
           /\ parse_udp_ipv4(f).rc \in {"NOT_IPV4", "NOT_UDP"} => ~xdp_redirect(f)
<1> DEFINE h == ip_hlen(f)
           ul == Word(f, 14 + h + 4)
           dp == Word(f, 14 + h + 2)
<1>1. f.len \in Nat
  BY DEF FrameOK
<1>2. /\ Word(f, 12) \in Nat /\ Word(f, 14) \in Nat /\ Word(f, 16) \in Nat
      /\ Word(f, 22) \in Nat
  BY WordTyped
<1>3. h \in Nat
  BY <1>2 DEF ip_hlen
<1> HIDE DEF h
<1>4. /\ ul \in Nat /\ dp \in Nat /\ dp <= 65535
      /\ Word(f, 12) \in Nat /\ Word(f, 12) <= 65535
  BY <1>3, WordTyped
<1> HIDE DEF ul, dp
<1>5. xdp_redirect(f) <=> /\ f.len >= 14 /\ Word(f, 12) = 2048
                          /\ f.len >= 34 /\ Word(f, 22) % 256 = 17
                          /\ f.len >= 14 + h + 8
                          /\ dp = 4789
  <2>1. /\ AsLoaded(Word(f, 12)) = bswap16(2048) <=> Word(f, 12) = 2048
        /\ AsLoaded(dp) = bswap16(4789) <=> dp = 4789
    BY <1>4, SwappedEqual
  <2> QED
    BY <2>1 DEF xdp_redirect, h, dp
<1>6. ASSUME parse_udp_ipv4(f).rc = "OK"
      PROVE  /\ f.len >= 42 /\ Word(f, 12) = 2048 /\ Word(f, 22) % 256 = 17
             /\ 14 + Word(f, 16) <= f.len /\ ul >= 8 /\ h + ul <= Word(f, 16)
             /\ parse_udp_ipv4(f).dst_port = dp
  BY <1>1, <1>2, <1>3, <1>4, <1>6 DEF parse_udp_ipv4, h, ul, dp
<1>7. ASSUME parse_udp_ipv4(f).rc = "NOT_IPV4"
      PROVE  Word(f, 12) # 2048
  BY <1>1, <1>2, <1>3, <1>4, <1>7 DEF parse_udp_ipv4
<1>8. ASSUME parse_udp_ipv4(f).rc = "NOT_UDP"
      PROVE  Word(f, 22) % 256 # 17
  BY <1>1, <1>2, <1>3, <1>4, <1>8 DEF parse_udp_ipv4
<1> QED
  BY <1>1, <1>2, <1>3, <1>4, <1>5, <1>6, <1>7, <1>8

(* The words of a frame, and how many they are.                             *)
LEMMA FrameParts ==
    ASSUME NEW f, FrameOK(f)
    PROVE  /\ f.words \in Seq(Word16) /\ Len(f.words) \in Nat /\ f.len \in Nat
           /\ \A i \in 1 .. Len(f.words) : f.words[i] \in Word16
           /\ f.len = 2 * Len(f.words) \/ f.len = 2 * Len(f.words) - 1
           /\ f = [words |-> f.words, len |-> f.len]
<1>1. f.words \in Seq(Word16) /\ Len(f.words) \in Nat /\ f.len \in Nat
  BY DEF FrameOK
<1>2. \A i \in 1 .. Len(f.words) : f.words[i] \in Word16
  BY <1>1, ElementOfSeq
<1>3. f = [words |-> f.words, len |-> f.len]
  BY DEF FrameOK
<1> QED
  BY <1>1, <1>2, <1>3 DEF FrameOK

(* Frames of the same length with the same words are the same.              *)
LEMMA SameFrame ==
    ASSUME NEW f, NEW g, FrameOK(f), FrameOK(g), f.len = g.len,
           \A i \in 1 .. Len(f.words) : f.words[i] = g.words[i]
    PROVE  f = g
<1>1. /\ f.words \in Seq(Word16) /\ Len(f.words) \in Nat /\ f.len \in Nat
      /\ f.len = 2 * Len(f.words) \/ f.len = 2 * Len(f.words) - 1
      /\ f = [words |-> f.words, len |-> f.len]
  BY FrameParts
<1>2. /\ g.words \in Seq(Word16) /\ Len(g.words) \in Nat /\ g.len \in Nat
      /\ g.len = 2 * Len(g.words) \/ g.len = 2 * Len(g.words) - 1
      /\ g = [words |-> g.words, len |-> g.len]
  BY FrameParts
<1>3. Len(f.words) = Len(g.words)
  BY <1>1, <1>2
<1> DEFINE s == f.words
           t == g.words
<1>4. s = t
  <2>1. /\ s \in Seq(Word16) /\ t \in Seq(Word16) /\ Len(s) = Len(t)
        /\ \A i \in 1 .. Len(s) : s[i] = t[i]
    BY <1>1, <1>2, <1>3
  <2> HIDE DEF s, t
  <2> QED
    BY <2>1, SeqEqual
<1> QED
  BY <1>1, <1>2, <1>4

(* A frame of the words w, len bytes long.                                  *)
LEMMA MakeFrame ==
    ASSUME NEW w \in Seq(Word16), NEW len \in Nat,
           \/ len = 2 * Len(w)
           \/ len = 2 * Len(w) - 1 /\ w[Len(w)] % 256 = 0
    PROVE  FrameOK([words |-> w, len |-> len])
  BY DEF FrameOK

\* g is f with a tag after the addresses
Tagged(g, f, tci) ==
    /\ FrameOK(g) /\ g.len = f.len + 4 /\ Len(g.words) = Len(f.words) + 2
    /\ \A i \in 1 .. 6 : g.words[i] = f.words[i]
    /\ g.words[7] = 33024 /\ g.words[8] = tci
    /\ \A i \in 7 .. Len(f.words) : g.words[i + 2] = f.words[i]

LEMMA VlanInserted ==
    ASSUME NEW f, FrameOK(f), NEW c \in Nat, NEW tci \in Word16, vlan_insert(f, c, tci).len >= 0
    PROVE  /\ Tagged(vlan_insert(f, c, tci), f, tci) /\ f.len >= 14
           /\ vlan_insert(f, c, tci).len <= c
<1> DEFINE w == f.words
           a == SubSeq(w, 1, 6)
           b == <<33024, tci>>
           d == SubSeq(w, 7, Len(w))
           ab == a \o b
           x == ab \o d
<1>1. /\ w \in Seq(Word16) /\ Len(w) \in Nat /\ f.len \in Nat
      /\ f.len = 2 * Len(w) \/ f.len = 2 * Len(w) - 1
  BY FrameParts
<1>2. f.len >= 14 /\ f.len + 4 <= c
  BY <1>1 DEF vlan_insert, Error
<1>3. Len(w) >= 7
  BY <1>1, <1>2
<1>4. vlan_insert(f, c, tci) = [words |-> x, len |-> f.len + 4]
  BY <1>1, <1>2 DEF vlan_insert, From
<1>5. f.len = 2 * Len(w) \/ (f.len = 2 * Len(w) - 1 /\ w[Len(w)] % 256 = 0)
  BY DEF FrameOK
<1> HIDE DEF w
<1>6. PartOf(a, w, 1, 6)
  BY <1>1, <1>3, Part
<1>7. PartOf(d, w, 7, Len(w))
  BY <1>1, <1>3, Part
<1>8. b \in Seq(Word16) /\ Len(b) = 2 /\ b[1] = 33024 /\ b[2] = tci
  BY DEF Word16
<1> HIDE DEF a, b, d
<1>9. a \in Seq(Word16) /\ b \in Seq(Word16) /\ d \in Seq(Word16)
  BY <1>6, <1>7, <1>8 DEF PartOf
<1>10. Joins(ab, a, b)
  BY <1>9, Cat, Zenon
<1> HIDE DEF ab
<1>11. Joins(x, ab, d)
  BY <1>9, <1>10, Chain, Zenon
<1> HIDE DEF x
<1>12. /\ Len(ab) = 8 /\ (\A i \in 1 .. 6 : ab[i] = w[i]) /\ ab[7] = 33024 /\ ab[8] = tci
  BY <1>6, <1>8, <1>10 DEF Joins, PartOf
<1>13. Len(d) = Len(w) - 6 /\ \A i \in 1 .. Len(w) - 6 : d[i] = w[i + 6]
  BY <1>1, <1>3, <1>7 DEF PartOf
<1>20. /\ x \in Seq(Word16) /\ Len(x) = Len(w) + 2
       /\ \A i \in 1 .. Len(w) + 2 : x[i] = IF i <= 8 THEN ab[i] ELSE d[i - 8]
  BY <1>1, <1>3, <1>11, <1>12, <1>13 DEF Joins
<1>21. \A i \in 7 .. Len(w) : x[i + 2] = w[i]
  <2> SUFFICES ASSUME NEW i \in 7 .. Len(w) PROVE x[i + 2] = w[i]
    OBVIOUS
  <2>1. x[i + 2] = d[(i + 2) - 8]
    BY <1>1, <1>3, <1>20
  <2>2. (i + 2) - 8 = i - 6 /\ i - 6 \in 1 .. Len(w) - 6 /\ (i - 6) + 6 = i
    BY <1>1, <1>3
  <2> QED
    BY <1>13, <2>1, <2>2
<1>14. /\ x \in Seq(Word16) /\ Len(x) = Len(w) + 2
       /\ (\A i \in 1 .. 6 : x[i] = w[i]) /\ x[7] = 33024 /\ x[8] = tci
       /\ \A i \in 7 .. Len(w) : x[i + 2] = w[i]
  <2>1. 7 \in 1 .. Len(w) + 2 /\ 8 \in 1 .. Len(w) + 2 /\ \A i \in 1 .. 6 : i \in 1 .. Len(w) + 2
    BY <1>1, <1>3
  <2> QED
    BY <1>12, <1>20, <1>21, <2>1
<1>15. FrameOK([words |-> x, len |-> f.len + 4])
  <2>1. f.len + 4 \in Nat /\ x[Len(x)] = w[Len(w)]
    BY <1>1, <1>3, <1>14, SMTT(40)
  <2>2. f.len + 4 = 2 * Len(x) \/ (f.len + 4 = 2 * Len(x) - 1 /\ x[Len(x)] % 256 = 0)
    BY <1>1, <1>5, <1>14, <2>1
  <2>3. x \in Seq(Word16)
    BY <1>14
  <2> DEFINE n == f.len + 4
  <2> HIDE DEF n
  <2>4. n \in Nat /\ (n = 2 * Len(x) \/ (n = 2 * Len(x) - 1 /\ x[Len(x)] % 256 = 0))
    BY <2>1, <2>2 DEF n
  <2>5. FrameOK([words |-> x, len |-> n])
    BY <2>3, <2>4, MakeFrame
  <2> QED
    BY <2>5 DEF n
<1>16. Tagged([words |-> x, len |-> f.len + 4], f, tci)
  BY <1>14, <1>15 DEF Tagged, w
<1> QED
  BY <1>2, <1>4, <1>16

\* g is f without the two words after the addresses
Stripped(g, f) ==
    /\ FrameOK(g) /\ g.len = f.len - 4 /\ Len(g.words) = Len(f.words) - 2
    /\ \A i \in 1 .. 6 : g.words[i] = f.words[i]
    /\ \A i \in 7 .. Len(f.words) - 2 : g.words[i] = f.words[i + 2]

LEMMA VlanStripped ==
    ASSUME NEW f, FrameOK(f), vlan_readable(f)
    PROVE  /\ Stripped(vlan_strip(f), f) /\ f.len >= 18 /\ f.words[7] = 33024
           /\ Word(f, 14) = f.words[8]
<1> DEFINE w == f.words
           a == SubSeq(w, 1, 6)
           d == SubSeq(w, 9, Len(w))
           x == a \o d
           n == f.len - 4
<1>1. /\ w \in Seq(Word16) /\ Len(w) \in Nat /\ f.len \in Nat
      /\ f.len = 2 * Len(w) \/ f.len = 2 * Len(w) - 1
  BY FrameParts
<1>2. f.len >= 18 /\ Word(f, 12) = 33024
  BY DEF vlan_readable, vlan_is_tagged
<1>3. Len(w) >= 9
  BY <1>1, <1>2
<1>4. vlan_strip(f) = [words |-> x, len |-> n]
  BY <1>1, <1>2 DEF vlan_strip, From
<1>5. f.len = 2 * Len(w) \/ (f.len = 2 * Len(w) - 1 /\ w[Len(w)] % 256 = 0)
  BY DEF FrameOK
<1>6. w[7] = 33024 /\ Word(f, 14) = w[8]
  BY <1>1, <1>2, <1>3 DEF Word
<1> HIDE DEF w
<1>7. PartOf(a, w, 1, 6)
  BY <1>1, <1>3, Part
<1>8. PartOf(d, w, 9, Len(w))
  BY <1>1, <1>3, Part
<1> HIDE DEF a, d
<1>9. a \in Seq(Word16) /\ d \in Seq(Word16)
  BY <1>7, <1>8 DEF PartOf
<1>10. Joins(x, a, d)
  BY <1>9, Cat, Zenon
<1> HIDE DEF x
<1>11. Len(a) = 6 /\ \A i \in 1 .. 6 : a[i] = w[i]
  BY <1>7 DEF PartOf
<1>12. Len(d) = Len(w) - 8 /\ \A i \in 1 .. Len(w) - 8 : d[i] = w[i + 8]
  BY <1>1, <1>3, <1>8 DEF PartOf
<1>13. /\ x \in Seq(Word16) /\ Len(x) = Len(w) - 2
       /\ \A i \in 1 .. Len(w) - 2 : x[i] = IF i <= 6 THEN a[i] ELSE d[i - 6]
  BY <1>1, <1>3, <1>10, <1>11, <1>12 DEF Joins
<1>14. ASSUME NEW i \in 7 .. Len(w) - 2 PROVE x[i] = w[i + 2]
  <2>1. x[i] = d[i - 6]
    BY <1>1, <1>3, <1>13
  <2>2. i - 6 \in 1 .. Len(w) - 8 /\ (i - 6) + 8 = i + 2
    BY <1>1, <1>3
  <2> QED
    BY <1>12, <2>1, <2>2
<1>15. ASSUME NEW i \in 1 .. 6 PROVE x[i] = w[i]
  BY <1>1, <1>3, <1>11, <1>13, SMTT(40)
<1>16. x \in Seq(Word16) /\ n \in Nat
       /\ (n = 2 * Len(x) \/ (n = 2 * Len(x) - 1 /\ x[Len(x)] % 256 = 0))
  <2>1. Len(x) \in 7 .. Len(w) - 2 /\ Len(x) + 2 = Len(w)
    BY <1>1, <1>3, <1>13
  <2>2. x[Len(x)] = w[Len(w)]
    BY <1>14, <2>1
  <2> QED
    BY <1>1, <1>2, <1>5, <1>13, <2>1, <2>2, SMTT(40)
<1>17. n = f.len - 4
  OBVIOUS
<1> HIDE DEF n
<1>18. FrameOK([words |-> x, len |-> n])
  BY <1>16, MakeFrame
<1>19. Stripped([words |-> x, len |-> n], f)
  BY <1>13, <1>14, <1>15, <1>17, <1>18 DEF Stripped, w
<1> QED
  BY <1>2, <1>4, <1>6, <1>19 DEF w

(* rewsr_vlan_strip undoes rewsr_vlan_insert, and the tag reads as written. *)
LEMMA VlanInverse ==
    ASSUME NEW f, FrameOK(f), NEW g, NEW tci \in Word16, Tagged(g, f, tci), f.len >= 14
    PROVE  vlan_readable(g) /\ vlan_strip(g) = f /\ Word(g, 14) = tci
<1>1. /\ Len(f.words) \in Nat /\ f.len \in Nat
      /\ f.len = 2 * Len(f.words) \/ f.len = 2 * Len(f.words) - 1
  BY FrameParts
<1>2. FrameOK(g) /\ g.len = f.len + 4 /\ Len(g.words) = Len(f.words) + 2
  BY DEF Tagged
<1>3. Len(f.words) >= 7
  BY <1>1
<1>4. Word(g, 12) = g.words[7] /\ g.words[7] = 33024
  BY <1>1, <1>2, <1>3 DEF Word, Tagged
<1>5. vlan_readable(g)
  BY <1>1, <1>2, <1>4 DEF vlan_readable, vlan_is_tagged
<1> DEFINE h == vlan_strip(g)
<1>6. Stripped(h, g) /\ Word(g, 14) = g.words[8]
  BY <1>2, <1>5, VlanStripped
<1> HIDE DEF h
<1>7. FrameOK(h) /\ h.len = f.len /\ Len(h.words) = Len(f.words)
  BY <1>1, <1>2, <1>6 DEF Stripped
<1>8. ASSUME NEW i \in 1 .. Len(f.words) PROVE f.words[i] = h.words[i]
  <2>1. CASE i <= 6
    <3>1. i \in 1 .. 6
      BY <1>1, <2>1
    <3>2. g.words[i] = f.words[i]
      BY <3>1, SMTT(40) DEF Tagged
    <3>3. h.words[i] = g.words[i]
      BY <1>6, <3>1 DEF Stripped
    <3> QED
      BY <3>2, <3>3
  <2>2. CASE i >= 7
    <3>1. i \in 7 .. Len(f.words) /\ i \in 7 .. Len(g.words) - 2
      BY <1>1, <1>2, <2>2
    <3> QED
      BY <1>6, <3>1 DEF Stripped, Tagged
  <2> QED
    BY <1>1, <2>1, <2>2
<1>9. f = h
  BY <1>7, <1>8, SameFrame
<1> QED
  BY <1>5, <1>6, <1>9 DEF h, Tagged

(* The fields of a tag are the ones it was made from, as far as they fit.   *)
LEMMA VlanFields ==
    ASSUME NEW pcp \in Nat, NEW dei \in BOOLEAN, NEW vid \in Nat
    PROVE  /\ vlan_tci(pcp, dei, vid) \in Word16
           /\ vlan_fields(vlan_tci(pcp, dei, vid)) = <<pcp % 8, dei, vid % 4096>>
<1> DEFINE p == pcp % 8
           v == vid % 4096
           OK(b) == /\ vlan_tci(pcp, b, vid) \in Word16
                    /\ vlan_fields(vlan_tci(pcp, b, vid)) = <<p, b, v>>
<1>1. p \in Nat /\ p <= 7 /\ v \in Nat /\ v <= 4095
  OBVIOUS
<1>2. OK(TRUE)
  <2> DEFINE t == vlan_tci(pcp, TRUE, vid)
  <2>1. t = 8192 * p + 4096 + v
    BY DEF vlan_tci
  <2> HIDE DEF t, p, v
  <2>2. /\ t \in Nat /\ t <= 65535 /\ t \div 8192 = p /\ t % 4096 = v
        /\ t \div 4096 = 2 * p + 1
    BY <1>1, <2>1
  <2>3. (t \div 4096) % 2 = 1
    BY <1>1, <2>2
  <2> DEFINE e == (t \div 4096) % 2 = 1
             a == t \div 8192
             c == t % 4096
  <2>4. vlan_fields(t) = <<a, e, c>>
    BY SMTT(40) DEF vlan_fields
  <2>5. e = TRUE /\ a = p /\ c = v
    BY <2>2, <2>3
  <2>6. t \in Word16
    BY <2>2 DEF Word16
  <2> HIDE DEF e, a, c
  <2>7. vlan_fields(t) = <<p, TRUE, v>>
    BY <2>4, <2>5, Zenon
  <2> QED
    BY <2>6, <2>7, Zenon DEF t
<1>3. OK(FALSE)
  <2> DEFINE t == vlan_tci(pcp, FALSE, vid)
  <2>1. t = 8192 * p + v
    BY <1>1 DEF vlan_tci
  <2> HIDE DEF t, p, v
  <2>2. /\ t \in Nat /\ t <= 65535 /\ t \div 8192 = p /\ t % 4096 = v
        /\ t \div 4096 = 2 * p
    BY <1>1, <2>1
  <2>3. (t \div 4096) % 2 # 1
    BY <1>1, <2>2
  <2> DEFINE e == (t \div 4096) % 2 = 1
             a == t \div 8192
             c == t % 4096
  <2>4. vlan_fields(t) = <<a, e, c>>
    BY SMTT(40) DEF vlan_fields
  <2>5. e = FALSE /\ a = p /\ c = v
    BY <2>2, <2>3
  <2>6. t \in Word16
    BY <2>2 DEF Word16
  <2> HIDE DEF e, a, c
  <2>7. vlan_fields(t) = <<p, FALSE, v>>
    BY <2>4, <2>5, Zenon
  <2> QED
    BY <2>6, <2>7, Zenon DEF t
<1>4. dei = TRUE \/ dei = FALSE
  OBVIOUS
<1> HIDE DEF OK
<1>5. OK(dei)
  BY <1>2, <1>3, <1>4, Zenon
<1> QED
  BY <1>5 DEF OK

\* w is the window of len bytes at word k of f
WindowOf(w, f, k, len) ==
    /\ FrameOK(w) /\ w.len = len
    /\ \A i \in 1 .. Len(w.words) :
          w.words[i] = IF i = Len(w.words) /\ len # 2 * Len(w.words)
                       THEN 256 * (f.words[k + i] \div 256) ELSE f.words[k + i]

LEMMA Windowed ==
    ASSUME NEW f, FrameOK(f), NEW k \in Nat, NEW len \in Nat, 2 * k + len <= f.len
    PROVE  WindowOf(Window(f, 2 * k, len), f, k, len)
<1> DEFINE w == f.words
           m == (len + 1) \div 2
           x == SubSeq(w, k + 1, k + m)
           y == [x EXCEPT ![Len(x)] = 256 * (@ \div 256)]
<1>1. /\ w \in Seq(Word16) /\ Len(w) \in Nat /\ f.len \in Nat
      /\ f.len = 2 * Len(w) \/ f.len = 2 * Len(w) - 1
  BY FrameParts
<1>2. m \in Nat /\ (len = 2 * m \/ len = 2 * m - 1)
  OBVIOUS
<1>3. len % 2 = 0 <=> len = 2 * m
  OBVIOUS
<1>4. (2 * k) \div 2 + 1 = k + 1 /\ (2 * k + len + 1) \div 2 = k + m
  OBVIOUS
<1>5. Window(f, 2 * k, len) = [words |-> IF len % 2 = 0 THEN x ELSE y, len |-> len]
  <2> DEFINE a == (2 * k) \div 2 + 1
             b == (2 * k + len + 1) \div 2
  <2>1. Window(f, 2 * k, len) =
          [words |-> IF len % 2 = 0 THEN SubSeq(w, a, b)
                     ELSE [SubSeq(w, a, b) EXCEPT ![Len(SubSeq(w, a, b))] = 256 * (@ \div 256)],
           len |-> len]
    BY Zenon DEF Window
  <2>2. a = k + 1 /\ b = k + m
    BY <1>4
  <2> HIDE DEF a, b, m, w
  <2> QED
    BY <2>1, <2>2, Zenon
<1> HIDE DEF w, m
<1>6. k + m <= Len(w)
  BY <1>1, <1>2
<1>7. PartOf(x, w, k + 1, k + m)
  <2> DEFINE a == k + 1
             b == k + m
  <2>1. a \in Nat /\ b \in Nat /\ a >= 1 /\ b <= Len(w) /\ a <= b + 1
    BY <1>1, <1>2, <1>6
  <2> HIDE DEF a, b
  <2>2. PartOf(SubSeq(w, a, b), w, a, b)
    BY <1>1, <2>1, Part
  <2> QED
    BY <2>2 DEF a, b
<1> HIDE DEF x
<1>8. x \in Seq(Word16) /\ Len(x) = m /\ \A i \in 1 .. m : x[i] = w[k + i]
  <2>1. x \in Seq(Word16) /\ Len(x) = ((k + m) + 1) - (k + 1)
    BY <1>7 DEF PartOf
  <2>2. ((k + m) + 1) - (k + 1) = m
    BY <1>2
  <2>3. ASSUME NEW i \in 1 .. m PROVE x[i] = w[k + i]
    <3>1. i \in 1 .. ((k + m) + 1) - (k + 1) /\ ((k + 1) + i) - 1 = k + i
      BY <2>2
    <3> QED
      BY <1>7, <3>1 DEF PartOf
  <2> QED
    BY <2>1, <2>2, <2>3
<1>9. CASE len = 2 * m
  <2>1. FrameOK([words |-> x, len |-> len])
    BY <1>8, <1>9, MakeFrame
  <2>2. Window(f, 2 * k, len) = [words |-> x, len |-> len]
    BY <1>3, <1>5, <1>9
  <2> QED
    BY <1>8, <1>9, <2>1, <2>2 DEF WindowOf, w
<1>10. CASE len = 2 * m - 1
  <2>1. m >= 1 /\ m \in DOMAIN x /\ x[m] \in Nat /\ x[m] <= 65535
    <3>1. m \in 1 .. Len(x)
      BY <1>2, <1>8, <1>10
    <3>2. x[m] \in Word16
      BY <1>8, <3>1, ElementOfSeq
    <3> QED
      BY <1>8, <3>1, <3>2 DEF Word16
  <2> DEFINE v == 256 * (x[m] \div 256)
  <2>2. v \in Word16 /\ v % 256 = 0
    BY <2>1 DEF Word16
  <2>3. y = [x EXCEPT ![m] = v]
    BY <1>8
  <2>4. y \in Seq(Word16) /\ Len(y) = m /\ \A i \in 1 .. m : y[i] = IF i = m THEN v ELSE x[i]
    <3> HIDE DEF v, y
    <3>1. m \in 1 .. Len(x)
      BY <1>2, <1>8, <1>10
    <3>2. y \in Seq(Word16) /\ Len(y) = Len(x)
      BY <1>8, <2>2, <2>3, <3>1, ExceptSeq
    <3> QED
      BY <1>8, <2>3, <3>2
  <2> HIDE DEF y, v
  <2>5. len # 2 * m
    BY <1>2, <1>10
  <2>6. FrameOK([words |-> y, len |-> len])
    <3>1. y[Len(y)] = v
      BY <2>1, <2>4, <1>2
    <3> QED
      BY <1>10, <2>2, <2>4, <3>1, MakeFrame
  <2>7. Window(f, 2 * k, len) = [words |-> y, len |-> len]
    BY <1>3, <1>5, <2>5
  <2>8. v = 256 * (w[k + m] \div 256)
    BY <1>2, <1>8, <2>1 DEF v
  <2>9. ASSUME NEW i \in 1 .. m
        PROVE  y[i] = IF i = m /\ len # 2 * m THEN 256 * (w[k + i] \div 256) ELSE w[k + i]
    <3>1. CASE i = m
      BY <2>4, <2>5, <2>8, <3>1
    <3>2. CASE i # m
      BY <1>8, <2>4, <3>2
    <3> QED
      BY <3>1, <3>2
  <2>10. Len(y) = m
    BY <2>4
  <2>11. WindowOf([words |-> y, len |-> len], f, k, len)
    BY <2>6, <2>9, <2>10 DEF WindowOf, w
  <2> QED
    BY <2>7, <2>11
<1> QED
  BY <1>2, <1>9, <1>10

\* w begins with the headers of a datagram with n bytes of UDP from the generator's host to port p
Header(w, p, id, n) ==
    /\ w[1] = 512 /\ w[2] = 0 /\ w[3] = 2 /\ w[4] = 512 /\ w[5] = 0 /\ w[6] = 1
    /\ w[7] = 2048 /\ w[8] = 17664 /\ w[9] = 20 + n /\ w[10] = id
    /\ w[11] = 16384 /\ w[12] = 16401
    /\ w[13] = Not16(cksum_fold[IpSum(20 + n, id)])
    /\ w[14] = 2560 /\ w[15] = 1 /\ w[16] = 2560 /\ w[17] = 258
    /\ w[18] = 40000 /\ w[19] = p /\ w[20] = n

Sized(f, n) == FrameOK(f) /\ f.len = 34 + n /\ n \in Nat /\ 8 <= n /\ n <= 65515

\* f is such a datagram
Carries(f, p, id, n) ==
    Sized(f, n) /\ p \in Word16 /\ id \in Word16 /\ Header(f.words, p, id, n)

(* The words at the offsets that the parsers look at.                       *)
LEMMA WordAt ==
    ASSUME NEW f, FrameOK(f), NEW k \in Nat, k < Len(f.words)
    PROVE  Word(f, 2 * k) = f.words[k + 1]
<1>1. (2 * k) \div 2 = k
  OBVIOUS
<1> QED
  BY <1>1 DEF Word

LEMMA CarriesWords ==
    ASSUME NEW f, NEW p, NEW id, NEW n, Carries(f, p, id, n)
    PROVE  /\ Len(f.words) \in Nat /\ Len(f.words) >= 21 /\ f.len >= 42
           /\ f.len = 2 * Len(f.words) \/ f.len = 2 * Len(f.words) - 1
           /\ Word(f, 12) = 2048 /\ Word(f, 14) = 17664 /\ Word(f, 16) = 20 + n
           /\ Word(f, 22) = 16401 /\ Word(f, 34) = 40000 /\ Word(f, 36) = p /\ Word(f, 38) = n
           /\ Word(f, 40) = f.words[21] /\ ip_hlen(f) = 20
<1>1. Sized(f, n)
  BY Zenon DEF Carries
<1>2. /\ Len(f.words) \in Nat /\ f.len \in Nat
      /\ f.len = 2 * Len(f.words) \/ f.len = 2 * Len(f.words) - 1
  BY <1>1, FrameParts DEF Sized
<1>3. f.len >= 42 /\ Len(f.words) >= 21
  <2>1. f.len = 34 + n /\ n \in Nat /\ 8 <= n
    BY <1>1 DEF Sized
  <2> QED
    BY <1>2, <2>1
<1>7. Header(f.words, p, id, n)
  BY Zenon DEF Carries
<1>4. /\ Word(f, 12) = f.words[7] /\ Word(f, 14) = f.words[8]
      /\ Word(f, 16) = f.words[9] /\ Word(f, 22) = f.words[12]
      /\ Word(f, 34) = f.words[18] /\ Word(f, 36) = f.words[19]
      /\ Word(f, 38) = f.words[20] /\ Word(f, 40) = f.words[21]
  BY <1>2, <1>3 DEF Word
<1>5. /\ Word(f, 12) = 2048 /\ Word(f, 14) = 17664 /\ Word(f, 16) = 20 + n
      /\ Word(f, 22) = 16401 /\ Word(f, 34) = 40000 /\ Word(f, 36) = p /\ Word(f, 38) = n
      /\ Word(f, 40) = f.words[21]
  BY <1>4, <1>7 DEF Header
<1>6. ip_hlen(f) = 20
  BY <1>5 DEF ip_hlen
<1> QED
  BY <1>2, <1>3, <1>5, <1>6

(* Such a datagram parses.                                                  *)
LEMMA CarriesParse ==
    ASSUME NEW f, NEW p, NEW id, NEW n, Carries(f, p, id, n)
    PROVE  parse_udp_ipv4(f) =
             [rc |-> "OK",
              dst_mac |-> SubSeq(f.words, 1, 3), src_mac |-> SubSeq(f.words, 4, 6),
              src_ip |-> SubSeq(f.words, 14, 15), dst_ip |-> SubSeq(f.words, 16, 17),
              src_port |-> 40000, dst_port |-> p, payload |-> 42, payload_len |-> n - 8]
<1>1. /\ Word(f, 12) = 2048 /\ Word(f, 14) = 17664 /\ Word(f, 16) = 20 + n
      /\ Word(f, 22) = 16401 /\ Word(f, 34) = 40000 /\ Word(f, 36) = p /\ Word(f, 38) = n
      /\ ip_hlen(f) = 20
  BY CarriesWords
<1>6. Sized(f, n)
  BY Zenon DEF Carries
<1>2. f.len = 34 + n /\ n \in Nat /\ 8 <= n
  BY <1>6 DEF Sized
<1>3. /\ ~(f.len < 42) /\ ~(Word(f, 12) # 2048)
      /\ ~(Word(f, 14) \div 4096 # 4 \/ ip_hlen(f) < 20)
      /\ ~(14 + Word(f, 16) > f.len \/ Word(f, 16) < ip_hlen(f)) /\ ~(Word(f, 22) % 256 # 17)
  BY <1>1, <1>2
<1>4. 14 + ip_hlen(f) = 34 /\ 34 + 4 = 38 /\ 34 + 2 = 36 /\ 34 + 8 = 42
  BY <1>1
<1>5. ~(n < 8 \/ ip_hlen(f) + n > Word(f, 16))
  BY <1>1, <1>2
<1> QED
  BY <1>1, <1>3, <1>4, <1>5, SMT DEF parse_udp_ipv4

\* Lengths that the 16-bit fields hold
Fits(n) == (20 + n) % 65536 = 20 + n /\ n % 65536 = n

LEMMA HeaderWritten ==
    ASSUME NEW h, NEW p, NEW id, NEW n \in Nat, HeadersAre(h, p, id, n), Fits(n)
    PROVE  Header(h, p, id, n)
<1> DEFINE a == (20 + n) % 65536
           b == n % 65536
           s == 20 + n
<1>1. a = s /\ b = n
  BY DEF Fits
<1>2. h[13] = Not16(cksum_fold[IpSum(a, id)])
  BY DEF HeadersAre
<1>3. h[9] = a /\ h[20] = b
  BY DEF HeadersAre
<1>4. /\ h[1] = 512 /\ h[2] = 0 /\ h[3] = 2 /\ h[4] = 512 /\ h[5] = 0 /\ h[6] = 1
      /\ h[7] = 2048 /\ h[8] = 17664 /\ h[10] = id /\ h[11] = 16384 /\ h[12] = 16401
      /\ h[14] = 2560 /\ h[15] = 1 /\ h[16] = 2560 /\ h[17] = 258
      /\ h[18] = 40000 /\ h[19] = p
  BY DEF HeadersAre
<1> HIDE DEF a, b, s
<1>5. h[13] = Not16(cksum_fold[IpSum(s, id)]) /\ h[9] = s /\ h[20] = n
  BY <1>1, <1>2, <1>3
<1> QED
  BY <1>4, <1>5 DEF Header, s

VniOK(vni) == vni \in Nat /\ vni <= 16777215

EncapWords(tun, id, vni, f) ==
    Headers([tun EXCEPT !.dst_port = 4789], id, 16 + f.len) \o vxlan_write_vni(vni) \o f.words

LEMMA EncapForm ==
    ASSUME NEW f, NEW c \in Nat, NEW tun, NEW id, NEW vni \in Nat, f.len \in Nat,
           vxlan_encap(c, tun, vni, f, id).len >= 0
    PROVE  /\ VniOK(vni) /\ 50 + f.len <= c
           /\ vxlan_encap(c, tun, vni, f, id) =
                [words |-> EncapWords(tun, id, vni, f), len |-> 50 + f.len]
<1> DEFINE w == EncapWords(tun, id, vni, f)
<1>1. vxlan_encap(c, tun, vni, f, id) = IF vni > 16777215 \/ 50 + f.len > c THEN Error
                                        ELSE [words |-> w, len |-> 50 + f.len]
  BY SMT DEF vxlan_encap, EncapWords
<1> HIDE DEF w
<1>2. ~(vni > 16777215 \/ 50 + f.len > c)
  BY <1>1, SMT DEF Error
<1>3. VniOK(vni) /\ 50 + f.len <= c
  BY <1>2, SMT DEF VniOK
<1>4. vxlan_encap(c, tun, vni, f, id) = [words |-> w, len |-> 50 + f.len]
  BY <1>1, <1>2, SMT
<1> QED
  BY <1>3, <1>4, SMT DEF w

LEMMA TunnelFlow == [Flow(0) EXCEPT !.dst_port = 4789] = Flow(4789)
<1> DEFINE r == Flow(0)
           a == <<512, 0, 1>>
           b == <<512, 0, 2>>
           s == <<2560, 1>>
           d == <<2560, 258>>
<1>1. r = [src_mac |-> a, dst_mac |-> b, src_ip |-> s, dst_ip |-> d, src_port |-> 40000,
           dst_port |-> 0]
  BY DEF Flow
<1>2. Flow(4789) = [src_mac |-> a, dst_mac |-> b, src_ip |-> s, dst_ip |-> d,
                    src_port |-> 40000, dst_port |-> 4789]
  BY DEF Flow
<1> HIDE DEF r, a, b, s, d
<1>3. [r EXCEPT !.dst_port = 4789] =
        [src_mac |-> a, dst_mac |-> b, src_ip |-> s, dst_ip |-> d, src_port |-> 40000,
         dst_port |-> 4789]
  BY <1>1
<1> QED
  BY <1>2, <1>3 DEF r

(* The three bytes of a VNI.                                                *)
LEMMA VniWords ==
    ASSUME NEW vni, VniOK(vni)
    PROVE  LET v == vxlan_write_vni(vni)
           IN  /\ v \in Seq(Word16) /\ Len(v) = 4 /\ v[1] = 2048 /\ v[2] = 0
               /\ v[3] = vni \div 256 /\ v[4] = 256 * (vni % 256)
<1> DEFINE a == vni \div 256
           b == 256 * (vni % 256)
           v == <<2048, 0, a, b>>
<1>1. a \in Word16 /\ b \in Word16 /\ 2048 \in Word16 /\ 0 \in Word16
  BY SMT DEF Word16, VniOK
<1> HIDE DEF a, b
<1>2. v \in Seq(Word16) /\ Len(v) = 4 /\ v[1] = 2048 /\ v[2] = 0 /\ v[3] = a /\ v[4] = b
  BY <1>1, SMT
<1>3. vxlan_write_vni(vni) = v
  BY SMT DEF vxlan_write_vni, a, b
<1> QED
  BY <1>2, <1>3, SMT DEF a, b

\* g is f in a tunnel
Tunnels(g, f, vni) ==
    /\ Carries(g, 4789, 7, 16 + f.len) /\ Len(g.words) = 25 + Len(f.words)
    /\ g.words[22] = 2048 /\ g.words[23] = 0
    /\ g.words[24] = vni \div 256 /\ g.words[25] = 256 * (vni % 256)
    /\ \A i \in 1 .. Len(f.words) : g.words[25 + i] = f.words[i]

LEMMA Encapsulated ==
    ASSUME NEW f, FrameOK(f), NEW c \in Word16, NEW vni \in Nat,
           vxlan_encap(c, Flow(0), vni, f, 7).len >= 0
    PROVE  /\ Tunnels(vxlan_encap(c, Flow(0), vni, f, 7), f, vni) /\ VniOK(vni)
           /\ vxlan_encap(c, Flow(0), vni, f, 7).len <= c
<1> DEFINE u == f.words
           n == 16 + f.len
           h == Headers(Flow(4789), 7, n)
           v == vxlan_write_vni(vni)
           hv == h \o v
           x == hv \o u
           len == 50 + f.len
<1>1. /\ u \in Seq(Word16) /\ Len(u) \in Nat /\ f.len \in Nat
      /\ f.len = 2 * Len(u) \/ f.len = 2 * Len(u) - 1
  BY FrameParts
<1>2. c \in Nat /\ c <= 65535 /\ f.len \in Nat
  BY <1>1 DEF Word16
<1>3. /\ VniOK(vni) /\ 50 + f.len <= c
      /\ vxlan_encap(c, Flow(0), vni, f, 7) = [words |-> x, len |-> len]
  <2>1. c \in Nat /\ f.len \in Nat
    BY <1>2
  <2>2. /\ VniOK(vni) /\ 50 + f.len <= c
        /\ vxlan_encap(c, Flow(0), vni, f, 7) =
             [words |-> EncapWords(Flow(0), 7, vni, f), len |-> 50 + f.len]
    BY <2>1, EncapForm
  <2>3. EncapWords(Flow(0), 7, vni, f) = x
    <3> DEFINE r == [Flow(0) EXCEPT !.dst_port = 4789]
               s == Flow(4789)
               H(y) == Headers(y, 7, n)
    <3>1. r = s
      BY TunnelFlow
    <3>2. EncapWords(Flow(0), 7, vni, f) = H(r) \o v \o u
      BY DEF EncapWords
    <3>3. x = H(s) \o v \o u
      OBVIOUS
    <3> HIDE DEF r, s, u, v, H, n, x
    <3> QED
      BY <3>1, <3>2, <3>3, Zenon
  <2> HIDE DEF x
  <2> QED
    BY <2>2, <2>3
<1>4. f.len = 2 * Len(u) \/ (f.len = 2 * Len(u) - 1 /\ u[Len(u)] % 256 = 0)
  BY DEF FrameOK
<1>5. n \in Nat /\ 4789 \in Word16 /\ 7 \in Word16
  BY <1>1 DEF Word16
<1>6. /\ n = 16 + f.len /\ len = 34 + n /\ 8 <= n /\ n <= 65515
      /\ len \in Nat /\ len <= c /\ len = 50 + f.len
  BY <1>2, <1>3, SMT
<1> HIDE DEF u, n, len
<1>24. Fits(n)
  BY <1>5, <1>6, SMT DEF Fits
<1>7. HeadersAre(h, 4789, 7, n)
  BY <1>5, HeadersWritten
<1> HIDE DEF h
<1>8. h \in Seq(Word16) /\ Len(h) = 21
  BY <1>7 DEF HeadersAre
<1>9. Header(h, 4789, 7, n)
  BY <1>5, <1>7, <1>24, HeaderWritten
<1>10. /\ v \in Seq(Word16) /\ Len(v) = 4 /\ v[1] = 2048 /\ v[2] = 0 /\ v[3] = vni \div 256
       /\ v[4] = 256 * (vni % 256)
  BY <1>3, VniWords
<1> HIDE DEF v
<1>11. Joins(hv, h, v)
  <2>1. h \in Seq(Word16) /\ v \in Seq(Word16)
    BY <1>8, <1>10
  <2> QED
    BY <2>1, Cat, Zenon
<1> HIDE DEF hv
<1>12. Joins(x, hv, u)
  <2>1. u \in Seq(Word16)
    BY <1>1
  <2> QED
    BY <1>11, <2>1, Chain, Zenon
<1> HIDE DEF x
<1>13. /\ Len(hv) = 25 /\ (\A i \in 1 .. 21 : hv[i] = h[i])
       /\ hv[22] = v[1] /\ hv[23] = v[2] /\ hv[24] = v[3] /\ hv[25] = v[4]
  BY <1>8, <1>10, <1>11 DEF Joins
<1>14. /\ x \in Seq(Word16) /\ Len(x) = 25 + Len(u)
       /\ \A i \in 1 .. 25 + Len(u) : x[i] = IF i <= 25 THEN hv[i] ELSE u[i - 25]
  BY <1>12, <1>13 DEF Joins
<1>15. ASSUME NEW i \in 1 .. Len(u) PROVE x[25 + i] = u[i]
  <2>1. 25 + i \in 1 .. 25 + Len(u) /\ ~(25 + i <= 25) /\ (25 + i) - 25 = i
    BY <1>1
  <2> QED
    BY <1>14, <2>1
<1>16. ASSUME NEW i \in 1 .. 25 PROVE x[i] = hv[i]
  <2>1. i \in 1 .. 25 + Len(u) /\ i <= 25
    BY <1>1
  <2> QED
    BY <1>14, <2>1
<1>17. \A i \in 1 .. 21 : x[i] = h[i]
  BY <1>13, <1>16
<1>18. Header(x, 4789, 7, n)
  BY <1>9, <1>17 DEF Header
<1>19. FrameOK([words |-> x, len |-> len])
  <2>1. CASE f.len = 2 * Len(u)
    <3>1. len = 2 * Len(x)
      BY <1>1, <1>6, <1>14, <2>1
    <3> QED
      BY <1>6, <1>14, <3>1, MakeFrame
  <2>2. CASE f.len = 2 * Len(u) - 1 /\ u[Len(u)] % 256 = 0
    <3>1. len = 2 * Len(x) - 1 /\ Len(u) \in 1 .. Len(u) /\ Len(x) = 25 + Len(u)
      BY <1>1, <1>6, <1>14, <2>2
    <3>2. x[Len(x)] % 256 = 0
      BY <1>15, <2>2, <3>1
    <3>3. len \in Nat /\ x \in Seq(Word16) /\ len = 2 * Len(x) - 1
      BY <1>6, <1>14, <3>1
    <3> QED
      BY <3>2, <3>3, MakeFrame
  <2> QED
    BY <1>4, <2>1, <2>2
<1>20. Sized([words |-> x, len |-> len], n)
  BY <1>5, <1>6, <1>19 DEF Sized
<1>21. Carries([words |-> x, len |-> len], 4789, 7, n)
  BY <1>5, <1>18, <1>20 DEF Carries
<1>22. Tunnels([words |-> x, len |-> len], f, vni)
  <2>1. n = 16 + f.len
    BY <1>6
  <2>2. x[22] = v[1] /\ x[23] = v[2] /\ x[24] = v[3] /\ x[25] = v[4]
    BY <1>13, <1>16
  <2> DEFINE r == [words |-> x, len |-> len]
  <2>3. r.words = x
    OBVIOUS
  <2>4. Carries(r, 4789, 7, 16 + f.len)
    BY <1>21, <2>1
  <2> HIDE DEF r
  <2>5. /\ x[22] = 2048 /\ x[23] = 0 /\ x[24] = vni \div 256 /\ x[25] = 256 * (vni % 256)
        /\ Len(x) = 25 + Len(f.words) /\ \A i \in 1 .. Len(f.words) : x[25 + i] = f.words[i]
    BY <1>10, <1>14, <1>15, <2>2 DEF u
  <2>6. Tunnels(r, f, vni)
    BY <2>3, <2>4, <2>5 DEF Tunnels
  <2> QED
    BY <2>6 DEF r
<1> QED
  BY <1>2, <1>3, <1>6, <1>22

(* rewsr_vxlan_decap undoes rewsr_vxlan_encap and finds its VNI.            *)
LEMMA VxlanInverse ==
    ASSUME NEW f, FrameOK(f), NEW g, NEW vni, VniOK(vni), Tunnels(g, f, vni)
    PROVE  vxlan_decap(g) = [rc |-> "OK", vni |-> vni, inner |-> f]
<1> DEFINE n == 16 + f.len
           w == Window(g, 50, f.len)
<1>1. Carries(g, 4789, 7, n) /\ Len(g.words) = 25 + Len(f.words)
  BY DEF Tunnels
<1>2. /\ Len(f.words) \in Nat /\ f.len \in Nat
      /\ f.len = 2 * Len(f.words) \/ f.len = 2 * Len(f.words) - 1
      /\ \A i \in 1 .. Len(f.words) : f.words[i] \in Word16
  BY FrameParts
<1>3. n \in Nat /\ n - 8 = 8 + f.len /\ n >= 16 /\ ~(n - 8 < 8) /\ (n - 8) - 8 = f.len
  <2>1. f.len \in Nat
    BY <1>2
  <2> QED
    BY <2>1, SMT
<1>4. FrameOK(g) /\ g.len = 34 + n
  BY <1>1 DEF Carries, Sized
<1> DEFINE dg == parse_udp_ipv4(g)
<1>5. dg.rc = "OK" /\ dg.dst_port = 4789 /\ dg.payload = 42 /\ dg.payload_len = n - 8
  <2> HIDE DEF n
  <2>1. dg = [rc |-> "OK",
              dst_mac |-> SubSeq(g.words, 1, 3), src_mac |-> SubSeq(g.words, 4, 6),
              src_ip |-> SubSeq(g.words, 14, 15), dst_ip |-> SubSeq(g.words, 16, 17),
              src_port |-> 40000, dst_port |-> 4789, payload |-> 42, payload_len |-> n - 8]
    BY <1>1, CarriesParse
  <2> HIDE DEF dg
  <2> QED
    BY <2>1
<1>6. Word(g, 42) = 2048 /\ Word(g, 46) = vni \div 256 /\ Word(g, 48) = 256 * (vni % 256)
  BY <1>1, <1>2, SMTT(40) DEF Word, Tunnels
<1>7. vxlan_read_vni(g, 42) = vni
  BY <1>6, SMT DEF vxlan_read_vni, VniOK
<1>8. w = f
  <2>8. f.len \in Nat /\ g.len = 34 + (16 + f.len)
    BY <1>2, <1>4
  <2>1. 25 \in Nat /\ 2 * 25 = 50 /\ 2 * 25 + f.len <= g.len
    BY <2>8, SMT
  <2>2. WindowOf(Window(g, 2 * 25, f.len), g, 25, f.len)
    BY <1>2, <1>4, <2>1, Windowed
  <2>3. WindowOf(w, g, 25, f.len)
    BY <2>1, <2>2
  <2> HIDE DEF w
  <2>4. FrameOK(w) /\ w.len = f.len
    BY <2>3 DEF WindowOf
  <2>5. Len(w.words) \in Nat /\ (w.len = 2 * Len(w.words) \/ w.len = 2 * Len(w.words) - 1)
    BY <2>4, FrameParts
  <2>6. Len(w.words) = Len(f.words)
    BY <1>2, <2>4, <2>5
  <2>7. ASSUME NEW i \in 1 .. Len(f.words) PROVE f.words[i] = w.words[i]
    <3>4. f.words[i] \in Word16
      BY <1>2
    <3>5. g.words[25 + i] = f.words[i]
      BY DEF Tunnels
    <3>1. g.words[25 + i] = f.words[i] /\ f.words[i] \in Nat
      BY <3>4, <3>5, SMT DEF Word16
    <3>2. CASE i = Len(f.words) /\ f.len # 2 * Len(f.words)
      <4>1. f.words[i] % 256 = 0
        BY <3>2 DEF FrameOK
      <4>2. w.words[i] = 256 * (f.words[i] \div 256)
        BY <2>3, <2>6, <3>1, <3>2, SMTT(40) DEF WindowOf
      <4> QED
        BY <3>1, <4>1, <4>2
    <3>3. CASE ~(i = Len(f.words) /\ f.len # 2 * Len(f.words))
      BY <2>3, <2>6, <3>1, <3>3 DEF WindowOf
    <3> QED
      BY <3>2, <3>3
  <2> QED
    BY <2>4, <2>7, SameFrame
<1>9. ~((Word(g, dg.payload) \div 2048) % 2 = 0)
  BY <1>5, <1>6
<1> HIDE DEF n, w, dg
<1>10. dg.payload + 8 = 50
  BY <1>5
<1>11. vxlan_decap(g) = IF dg.rc # "OK" THEN [rc |-> dg.rc]
        ELSE IF dg.dst_port # 4789 THEN [rc |-> "NOT_UDP"]
        ELSE IF dg.payload_len < 8 THEN [rc |-> "BAD_LEN"]
        ELSE IF (Word(g, dg.payload) \div 2048) % 2 = 0 THEN [rc |-> "BAD_IHL"]
        ELSE [rc |-> "OK", vni |-> vxlan_read_vni(g, dg.payload),
              inner |-> Window(g, dg.payload + 8, dg.payload_len - 8)]
  BY Zenon DEF vxlan_decap, dg
<1>12. vxlan_decap(g) = [rc |-> "OK", vni |-> vxlan_read_vni(g, dg.payload),
                         inner |-> Window(g, dg.payload + 8, dg.payload_len - 8)]
  BY <1>3, <1>5, <1>9, <1>11, SMT
<1>13. dg.payload_len - 8 = f.len
  BY <1>3, <1>5
<1>14. Window(g, 50, f.len) = f
  BY <1>8 DEF w
<1> QED
  BY <1>5, <1>7, <1>10, <1>12, <1>13, <1>14, SMT

(* What a frame that parses has been found to be.                           *)
LEMMA ParseFacts ==
    ASSUME NEW f, FrameOK(f), parse_udp_ipv4(f).rc = "OK"
    PROVE  LET dg == parse_udp_ipv4(f)
               h  == ip_hlen(f)
               ul == Word(f, 14 + h + 4)
           IN  /\ h \in Nat /\ ul \in Nat /\ (\E k \in Nat : h = 4 * k) /\ h >= 20
               /\ Word(f, 12) = 2048 /\ ul >= 8 /\ 14 + h + ul <= f.len /\ f.len >= 42
               /\ dg.payload = 14 + h + 8 /\ dg.payload_len = ul - 8
               /\ dg.dst_port = Word(f, 14 + h + 2)
<1> DEFINE h == ip_hlen(f)
           ul == Word(f, 14 + h + 4)
           dg == parse_udp_ipv4(f)
           k == (Word(f, 14) \div 256) % 16
<1>1. f.len \in Nat
  BY DEF FrameOK
<1>2. /\ Word(f, 12) \in Nat /\ Word(f, 14) \in Nat /\ Word(f, 16) \in Nat
      /\ Word(f, 22) \in Nat
  BY WordTyped
<1>3. k \in Nat /\ h = 4 * k
  BY <1>2 DEF ip_hlen
<1>4. h \in Nat
  BY <1>3
<1> HIDE DEF h, k
<1>5. ul \in Nat
  BY <1>4, WordTyped
<1> HIDE DEF ul
<1>6. /\ f.len >= 42 /\ Word(f, 12) = 2048 /\ h >= 20
      /\ 14 + Word(f, 16) <= f.len /\ ul >= 8 /\ h + ul <= Word(f, 16)
      /\ dg.payload = 14 + h + 8 /\ dg.payload_len = ul - 8 /\ dg.dst_port = Word(f, 14 + h + 2)
  BY <1>1, <1>2, <1>4, <1>5 DEF parse_udp_ipv4, h, ul
<1>7. 14 + h + ul <= f.len
  BY <1>1, <1>2, <1>4, <1>5, <1>6
<1> HIDE DEF dg
<1>8. /\ h \in Nat /\ ul \in Nat /\ (\E j \in Nat : h = 4 * j) /\ h >= 20
      /\ Word(f, 12) = 2048 /\ ul >= 8 /\ 14 + h + ul <= f.len /\ f.len >= 42
      /\ dg.payload = 14 + h + 8 /\ dg.payload_len = ul - 8
      /\ dg.dst_port = Word(f, 14 + h + 2)
  BY <1>3, <1>4, <1>5, <1>6, <1>7
<1> QED
  BY <1>8 DEF h, ul, dg

(* A window that rewsr_vxlan_decap finds is a frame.                        *)
LEMMA DecapKeeps ==
    ASSUME NEW f, FrameOK(f), vxlan_decap(f).rc = "OK"
    PROVE  /\ FrameOK(vxlan_decap(f).inner) /\ vxlan_decap(f).inner.len <= f.len
           /\ Word(f, 12) = 2048 /\ parse_udp_ipv4(f).rc = "OK"
           /\ parse_udp_ipv4(f).dst_port = 4789
           /\ (Word(f, parse_udp_ipv4(f).payload) \div 2048) % 2 # 0
<1> DEFINE dg == parse_udp_ipv4(f)
           h == ip_hlen(f)
           ul == Word(f, 14 + h + 4)
           x == Window(f, dg.payload + 8, dg.payload_len - 8)
<1>1. vxlan_decap(f) = IF dg.rc # "OK" THEN [rc |-> dg.rc]
        ELSE IF dg.dst_port # 4789 THEN [rc |-> "NOT_UDP"]
        ELSE IF dg.payload_len < 8 THEN [rc |-> "BAD_LEN"]
        ELSE IF (Word(f, dg.payload) \div 2048) % 2 = 0 THEN [rc |-> "BAD_IHL"]
        ELSE [rc |-> "OK", vni |-> vxlan_read_vni(f, dg.payload), inner |-> x]
  BY Zenon DEF vxlan_decap
<1> HIDE DEF dg, x
<1>2. /\ dg.rc = "OK" /\ dg.dst_port = 4789 /\ ~(dg.payload_len < 8)
      /\ (Word(f, dg.payload) \div 2048) % 2 # 0 /\ vxlan_decap(f).inner = x
  BY <1>1, SMT
<1>3. parse_udp_ipv4(f).rc = "OK"
  BY <1>2 DEF dg
<1>4. /\ h \in Nat /\ ul \in Nat /\ (\E k \in Nat : h = 4 * k)
      /\ Word(f, 12) = 2048 /\ ul >= 8 /\ 14 + h + ul <= f.len
      /\ dg.payload = 14 + h + 8 /\ dg.payload_len = ul - 8
  BY <1>3, ParseFacts DEF dg
<1> HIDE DEF h, ul
<1>5. PICK k \in Nat : h = 4 * k
  BY <1>4
<1> DEFINE m == 2 * k + 15
           len == ul - 16
<1>6. /\ f.len \in Nat /\ m \in Nat /\ len \in Nat /\ dg.payload + 8 = 2 * m /\ dg.payload_len - 8 = len
      /\ 2 * m + len <= f.len /\ len <= f.len
  <2>1. f.len \in Nat
    BY DEF FrameOK
  <2>2. ul >= 16
    BY <1>2, <1>4, SMT
  <2> QED
    BY <1>4, <1>5, <2>1, <2>2, SMT
<1> HIDE DEF m, len
<1>7. WindowOf(Window(f, 2 * m, len), f, m, len)
  BY <1>6, Windowed
<1>8. x = Window(f, 2 * m, len)
  BY <1>6 DEF x
<1>9. FrameOK(x) /\ x.len = len
  BY <1>7, <1>8 DEF WindowOf
<1> QED
  BY <1>2, <1>3, <1>4, <1>6, <1>9 DEF dg

(* A flipped bit changes a word, by at most half of what a word can hold.   *)
Flipped(x, b, y) ==
    /\ y \in Nat /\ y <= 65535 /\ (b >= 8 /\ x % 256 = 0 => y % 256 = 0)
    /\ y # x /\ y <= x + 32768 /\ x <= y + 32768

LEMMA FlipIs ==
    ASSUME NEW x \in Word16, NEW b \in 0 .. 15
    PROVE  Flipped(x, b, Flip(x, b))
<1>0. x \in Nat /\ x <= 65535
  BY DEF Word16
<1> USE DEF Flipped
<1>1. b = 0 \/ b = 1 \/ b = 2 \/ b = 3 \/ b = 4 \/ b = 5 \/ b = 6 \/ b = 7 \/ b = 8
      \/ b = 9 \/ b = 10 \/ b = 11 \/ b = 12 \/ b = 13 \/ b = 14 \/ b = 15
  OBVIOUS
<1>2. CASE b = 0
  BY <1>0, <1>2 DEF Flip
<1>3. CASE b = 1
  BY <1>0, <1>3 DEF Flip
<1>4. CASE b = 2
  BY <1>0, <1>4 DEF Flip
<1>5. CASE b = 3
  BY <1>0, <1>5 DEF Flip
<1>6. CASE b = 4
  BY <1>0, <1>6 DEF Flip
<1>7. CASE b = 5
  BY <1>0, <1>7 DEF Flip
<1>8. CASE b = 6
  BY <1>0, <1>8 DEF Flip
<1>9. CASE b = 7
  BY <1>0, <1>9 DEF Flip
<1>10. CASE b = 8
  BY <1>0, <1>10 DEF Flip
<1>11. CASE b = 9
  BY <1>0, <1>11 DEF Flip
<1>12. CASE b = 10
  BY <1>0, <1>12 DEF Flip
<1>13. CASE b = 11
  BY <1>0, <1>13 DEF Flip
<1>14. CASE b = 12
  BY <1>0, <1>14 DEF Flip
<1>15. CASE b = 13
  BY <1>0, <1>15 DEF Flip
<1>16. CASE b = 14
  BY <1>0, <1>16 DEF Flip
<1>17. CASE b = 15
  BY <1>0, <1>17 DEF Flip
<1> QED
  BY <1>1, <1>2, <1>3, <1>4, <1>5, <1>6, <1>7, <1>8, <1>9, <1>10, <1>11, <1>12, <1>13,
     <1>14, <1>15, <1>16, <1>17


(* A frame stays one when a bit is flipped that is part of it.              *)
LEMMA FlipKeeps ==
    ASSUME NEW f, FrameOK(f), NEW i \in 1 .. Len(f.words), NEW b \in 0 .. 15,
           (i = Len(f.words) /\ f.len % 2 = 1) => b >= 8
    PROVE  /\ FrameOK([f EXCEPT !.words[i] = Flip(@, b)])
           /\ [f EXCEPT !.words[i] = Flip(@, b)].len = f.len
<1> DEFINE w == f.words
           x == w[i]
           y == Flip(x, b)
           s == [w EXCEPT ![i] = y]
           n == f.len
<1>1. /\ w \in Seq(Word16) /\ Len(w) \in Nat /\ n \in Nat
      /\ n = 2 * Len(w) \/ n = 2 * Len(w) - 1
      /\ f = [words |-> w, len |-> n]
  BY FrameParts
<1>2. n = 2 * Len(w) \/ (n = 2 * Len(w) - 1 /\ w[Len(w)] % 256 = 0)
  BY DEF FrameOK
<1>3. [f EXCEPT !.words[i] = Flip(@, b)] = [words |-> s, len |-> n]
  <2> DEFINE z == [f.words EXCEPT ![i] = Flip(f.words[i], b)]
  <2>1. [f EXCEPT !.words[i] = Flip(@, b)] = [f EXCEPT !.words = z]
    BY Zenon
  <2>2. z = s
    OBVIOUS
  <2> HIDE DEF z, s
  <2>3. [f EXCEPT !.words = z] = [words |-> z, len |-> n]
    <3>1. f = [words |-> w, len |-> n]
      BY <1>1
    <3> HIDE DEF w, n
    <3> QED
      BY <3>1
  <2> QED
    BY <2>1, <2>2, <2>3
<1>4. x \in Nat /\ x <= 65535
  <2>1. w[i] \in Word16
    BY <1>1, ElementOfSeq
  <2> QED
    BY <2>1 DEF Word16
<1>5. n = 2 * Len(w) - 1 => n % 2 = 1
  BY <1>1
<1> HIDE DEF w, n, x
<1>6. y \in Nat /\ y <= 65535 /\ (b >= 8 /\ x % 256 = 0 => y % 256 = 0)
  <2>1. x \in Word16
    BY <1>4 DEF Word16
  <2>2. Flipped(x, b, y)
    BY <2>1, FlipIs
  <2> HIDE DEF y
  <2> QED
    BY <2>2 DEF Flipped
<1> HIDE DEF y
<1>7. i \in 1 .. Len(w) /\ (i = Len(w) /\ n % 2 = 1 => b >= 8)
  BY DEF w, n
<1>8. y \in Word16
  BY <1>6 DEF Word16
<1>9. /\ s \in Seq(Word16) /\ Len(s) = Len(w)
      /\ \A j \in 1 .. Len(w) : s[j] = IF j = i THEN y ELSE w[j]
  BY <1>1, <1>7, <1>8, ExceptSeq
<1> HIDE DEF s
<1>10. CASE n = 2 * Len(w)
  <2>1. n \in Nat /\ s \in Seq(Word16) /\ n = 2 * Len(s)
    BY <1>1, <1>9, <1>10
  <2>2. FrameOK([words |-> s, len |-> n])
    BY <2>1, MakeFrame
  <2> QED
    BY <1>3, <2>2 DEF n
<1>11. CASE n = 2 * Len(w) - 1 /\ w[Len(w)] % 256 = 0
  <2>1. n \in Nat /\ s \in Seq(Word16) /\ n = 2 * Len(s) - 1 /\ Len(w) \in 1 .. Len(w)
    BY <1>1, <1>9, <1>11
  <2>2. s[Len(w)] = IF Len(w) = i THEN y ELSE w[Len(w)]
    BY <1>9, <2>1
  <2>3. i = Len(w) => y % 256 = 0
    <3>1. i = Len(w) => b >= 8
      BY <1>5, <1>7, <1>11
    <3> QED
      BY <1>6, <1>11, <3>1 DEF x
  <2>4. s[Len(s)] % 256 = 0
    BY <1>9, <1>11, <2>2, <2>3
  <2>5. FrameOK([words |-> s, len |-> n])
    BY <2>1, <2>4, MakeFrame
  <2> QED
    BY <1>3, <2>5 DEF n
<1> QED
  BY <1>2, <1>10, <1>11

-----------------------------------------------------------------------------
(* The UDP checksum.                                                        *)

\* The addresses of the generator's flow, as rewsr_cksum_ipv4_pseudo adds them
Pseudo(n) == cksum_ipv4_pseudo(<<2560, 1>>, <<2560, 258>>, 17, n)

\* What a datagram with the payload pay of len bytes sums to without its checksum
UdpSum(p, len, pay) == Pseudo(8 + len) + 40000 + p + (8 + len) + cksum_partial(pay, len, 0)

UdpCheck(p, len, pay) ==
    LET check == Not16(cksum_fold[UdpSum(p, len, pay)])
    IN  IF check = 0 THEN 65535 ELSE check

\* len bytes, in words
Bytes(w, len) ==
    /\ w \in Seq(Word16) /\ len \in Nat
    /\ \/ len = 2 * Len(w)
       \/ len = 2 * Len(w) - 1 /\ w[Len(w)] % 256 = 0

LEMMA PseudoIs ==
    ASSUME NEW n \in Nat
    PROVE  Pseudo(n) \in Nat /\ Pseudo(n) = Pseudo(0) + n /\ Pseudo(n) > 0
<1> DEFINE s == <<2560, 1>>
           d == <<2560, 258>>
           a == AsLoaded(s[1])
           b == AsLoaded(s[2])
           c == AsLoaded(d[1])
           e == AsLoaded(d[2])
<1>1. a \in Nat /\ b \in Nat /\ c \in Nat /\ e \in Nat
  BY DEF AsLoaded, bswap16
<1>2. Pseudo(n) = a + b + c + e + 17 + n /\ Pseudo(0) = a + b + c + e + 17 + 0
  BY Zenon DEF Pseudo, cksum_ipv4_pseudo
<1> HIDE DEF a, b, c, e
<1> QED
  BY <1>1, <1>2

(* The words of len bytes are natural numbers, and so is their sum.         *)
LEMMA PartialTyped ==
    ASSUME NEW w, NEW len \in Nat, NEW seed \in Nat,
           \A i \in 1 .. (len + 1) \div 2 : w[i] \in Word16
    PROVE  /\ cksum_partial(w, len, seed) \in Nat
           /\ cksum_partial(w, len, seed) = seed + cksum_partial(w, len, 0)
<1> DEFINE n == len \div 2
           odd == IF len % 2 = 1 THEN 256 * (w[n + 1] \div 256) ELSE 0
<1>1. n \in Nat /\ n <= (len + 1) \div 2 /\ (len % 2 = 1 => n + 1 = (len + 1) \div 2)
  OBVIOUS
<1>2. \A i \in 1 .. n : w[i] \in Nat
  BY <1>1 DEF Word16
<1>3. odd \in Nat
  <2>1. CASE len % 2 = 1
    <3>1. n + 1 \in 1 .. (len + 1) \div 2
      BY <1>1, <2>1
    <3>2. w[n + 1] \in Nat
      BY <3>1 DEF Word16
    <3> QED
      BY <3>2
  <2>2. CASE len % 2 # 1
    BY <2>2
  <2> QED
    BY <2>1, <2>2
<1>4. /\ cksum_partial(w, len, seed) = Total(w, n, seed) + odd
      /\ cksum_partial(w, len, 0) = Total(w, n, 0) + odd
  BY PartialIs
<1> HIDE DEF n, odd
<1>5. /\ Total(w, n, seed) \in Nat /\ Total(w, n, 0) \in Nat
      /\ Total(w, n, seed) = Total(w, n, 0) + seed
  BY <1>1, <1>2, SumSeed
<1> QED
  BY <1>3, <1>4, <1>5

(* The checksum goes over four header words and then over the payload.      *)
LEMMA PartialSplit ==
    ASSUME NEW u, NEW w, NEW len \in Nat, NEW seed \in Nat,
           \A i \in 1 .. (len + 1) \div 2 : w[i] \in Word16 /\ u[4 + i] = w[i],
           \A i \in 1 .. 4 : u[i] \in Nat
    PROVE  cksum_partial(u, 8 + len, seed) =
             seed + u[1] + u[2] + u[3] + u[4] + cksum_partial(w, len, 0)
<1> DEFINE n == len \div 2
           t == seed + u[1] + u[2] + u[3] + u[4]
           odd(v, m) == IF len % 2 = 1 THEN 256 * (v[m + 1] \div 256) ELSE 0
<1>1. /\ n \in Nat /\ n <= (len + 1) \div 2 /\ (len % 2 = 1 => n + 1 = (len + 1) \div 2)
      /\ (8 + len) \div 2 = 4 + n /\ (8 + len) % 2 = len % 2
  OBVIOUS
<1>2. cksum_partial(u, 8 + len, seed) = Total(u, 4 + n, seed) + odd(u, 4 + n)
  <2> DEFINE k == 8 + len
  <2>1. k \in Nat
    OBVIOUS
  <2>2. k \div 2 = 4 + n /\ k % 2 = len % 2
    BY <1>1
  <2> HIDE DEF k, n
  <2>3. cksum_partial(u, k, seed) = Total(u, k \div 2, seed)
            + (IF k % 2 = 1 THEN 256 * (u[k \div 2 + 1] \div 256) ELSE 0)
    BY <2>1, PartialIs
  <2>4. cksum_partial(u, k, seed) = Total(u, 4 + n, seed) + odd(u, 4 + n)
    BY <2>2, <2>3
  <2> QED
    BY <2>4 DEF k
<1>3. cksum_partial(w, len, t) = Total(w, n, t) + odd(w, n)
  BY PartialIs
<1>4. Total(u, 4, seed) = t
  <2>1. /\ Total(u, 0, seed) = seed
        /\ \A k \in Nat : Total(u, k + 1, seed) = Total(u, k, seed) + u[k + 1]
    BY TotalStep
  <2>2. /\ Total(u, 0 + 1, seed) = Total(u, 0, seed) + u[0 + 1]
        /\ Total(u, 1 + 1, seed) = Total(u, 1, seed) + u[1 + 1]
        /\ Total(u, 2 + 1, seed) = Total(u, 2, seed) + u[2 + 1]
        /\ Total(u, 3 + 1, seed) = Total(u, 3, seed) + u[3 + 1]
    BY <2>1
  <2> QED
    BY <2>1, <2>2
<1>5. t \in Nat
  OBVIOUS
<1> HIDE DEF t
<1>6. \A i \in 1 .. n : u[4 + i] = w[i]
  BY <1>1
<1>7. Total(u, 4 + n, seed) = Total(w, n, t)
  <2>1. 4 \in Nat
    OBVIOUS
  <2>2. Total(u, 4 + n, seed) = Total(w, n, Total(u, 4, seed))
    BY <1>1, <1>6, <2>1, SumSplit
  <2> QED
    BY <1>4, <2>2
<1>8. odd(u, 4 + n) = odd(w, n)
  <2>1. CASE len % 2 = 1
    <3>1. n + 1 \in 1 .. (len + 1) \div 2 /\ (4 + n) + 1 = 4 + (n + 1)
      BY <1>1, <2>1
    <3>2. u[(4 + n) + 1] = w[n + 1]
      BY <3>1
    <3> QED
      BY <2>1, <3>2
  <2>2. CASE len % 2 # 1
    BY <2>2
  <2> QED
    BY <2>1, <2>2
<1>9. cksum_partial(w, len, t) = t + cksum_partial(w, len, 0)
  BY <1>5, PartialTyped
<1> HIDE DEF odd, n
<1>10. cksum_partial(u, 8 + len, seed) = t + cksum_partial(w, len, 0)
  BY <1>2, <1>3, <1>7, <1>8, <1>9
<1> QED
  BY <1>10 DEF t

(* A word count does for a byte count.                                      *)
LEMMA BytesParts ==
    ASSUME NEW w, NEW len, Bytes(w, len)
    PROVE  /\ w \in Seq(Word16) /\ len \in Nat /\ Len(w) \in Nat
           /\ (len = 2 * Len(w) \/ (len = 2 * Len(w) - 1 /\ w[Len(w)] % 256 = 0))
           /\ Len(w) = (len + 1) \div 2
           /\ \A i \in 1 .. Len(w) : w[i] \in Word16
<1>1. /\ w \in Seq(Word16) /\ len \in Nat /\ Len(w) \in Nat
      /\ (len = 2 * Len(w) \/ (len = 2 * Len(w) - 1 /\ w[Len(w)] % 256 = 0))
  BY DEF Bytes
<1>2. \A i \in 1 .. Len(w) : w[i] \in Word16
  BY <1>1, ElementOfSeq
<1>3. Len(w) = (len + 1) \div 2
  <2> DEFINE n == Len(w)
  <2>1. n \in Nat /\ len \in Nat /\ (len = 2 * n \/ len = 2 * n - 1)
    BY <1>1
  <2> HIDE DEF n
  <2>2. n = (len + 1) \div 2
    BY <2>1
  <2> QED
    BY <2>2 DEF n
<1> QED
  BY <1>1, <1>2, <1>3

\* f is what rewsr_build_udp_ipv4 makes of a payload
Built(f, p, id, pay, len) ==
    /\ Carries(f, p, id, 8 + len) /\ f.len = 42 + len /\ Len(f.words) = 21 + Len(pay)
    /\ f.words[21] = UdpCheck(p, len, pay)
    /\ \A i \in 1 .. Len(pay) : f.words[21 + i] = pay[i]

LEMMA UdpCheckIs ==
    ASSUME NEW p \in Word16, NEW len, NEW pay, Bytes(pay, len)
    PROVE  /\ UdpSum(p, len, pay) \in Nat /\ UdpSum(p, len, pay) > 0
           /\ UdpCheck(p, len, pay) \in Word16
<1>1. /\ len \in Nat /\ Len(pay) = (len + 1) \div 2
      /\ \A i \in 1 .. Len(pay) : pay[i] \in Word16
  BY BytesParts
<1>2. cksum_partial(pay, len, 0) \in Nat
  BY <1>1, PartialTyped
<1>3. 8 + len \in Nat /\ Pseudo(8 + len) \in Nat
  <2>1. 8 + len \in Nat
    BY <1>1
  <2> QED
    BY <2>1, PseudoIs
<1>4. p \in Nat
  BY DEF Word16
<1> DEFINE s == UdpSum(p, len, pay)
<1>5. s \in Nat /\ s > 0
  BY <1>2, <1>3, <1>4 DEF UdpSum
<1> HIDE DEF s
<1>6. cksum_fold[s] \in Nat /\ cksum_fold[s] <= 65535
  BY <1>5, FoldIs DEF Word16
<1>7. UdpCheck(p, len, pay) \in Word16
  BY <1>6 DEF UdpCheck, Not16, s, Word16
<1> QED
  BY <1>5, <1>7 DEF s

\* Header and payload fit the buffer, and the 16-bit fields
Room(len, c) == 42 + len <= c /\ 42 + len <= 65535

LEMMA BuildIs ==
    ASSUME NEW p \in Word16, NEW id \in Word16, NEW len, NEW pay, Bytes(pay, len), NEW c \in Nat,
           Room(len, c)
    PROVE  Built(build_udp_ipv4(c, Flow(p), id, pay, len), p, id, pay, len)
<1> DEFINE n == 8 + len
           h == Headers(Flow(p), id, n)
           udp == SubSeq(h, 18, 21)
           pre == cksum_partial(udp, 8, cksum_ipv4_pseudo(Flow(p).src_ip, Flow(p).dst_ip, 17, n))
           sum == cksum_partial(pay, len, pre)
           check == Not16(cksum_fold[sum])
           k == IF check = 0 THEN 65535 ELSE check
           g == [h EXCEPT ![21] = k]
           x == g \o pay
           tot == 42 + len
<1>1. /\ pay \in Seq(Word16) /\ len \in Nat /\ Len(pay) \in Nat
      /\ (len = 2 * Len(pay) \/ (len = 2 * Len(pay) - 1 /\ pay[Len(pay)] % 256 = 0))
      /\ Len(pay) = (len + 1) \div 2
      /\ \A i \in 1 .. Len(pay) : pay[i] \in Word16
  BY BytesParts
<1>2. len \in Nat /\ tot \in Nat /\ tot <= 65535 /\ tot = 34 + n /\ n \in Nat /\ 8 <= n
      /\ n <= 65515 /\ n = 8 + len /\ ~(tot > c) /\ tot = 42 + len
  <2>1. len \in Nat
    BY <1>1
  <2> QED
    BY <2>1, SMT DEF Room
<1>3. build_udp_ipv4(c, Flow(p), id, pay, len) = [words |-> x, len |-> tot]
  <2>1. build_udp_ipv4(c, Flow(p), id, pay, len) =
          IF tot > c THEN Error ELSE [words |-> x, len |-> tot]
    BY SMT DEF build_udp_ipv4
  <2> HIDE DEF x, tot
  <2> QED
    BY <1>2, <2>1, SMT
<1>4. Fits(n)
  <2> HIDE DEF n, tot
  <2> QED
    BY <1>2, SMT DEF Fits
<1>5. HeadersAre(h, p, id, n)
  BY <1>2, HeadersWritten
<1>6. Header(h, p, id, n)
  <2> HIDE DEF h
  <2> QED
    BY <1>2, <1>4, <1>5, HeaderWritten
<1>7. Flow(p).src_ip = <<2560, 1>> /\ Flow(p).dst_ip = <<2560, 258>>
  BY DEF Flow
<1> HIDE DEF h, n, tot
<1>8. h \in Seq(Word16) /\ Len(h) = 21 /\ h[18] = 40000 /\ h[19] = p /\ h[21] = 0 /\ h[20] = n
  BY <1>5, <1>6 DEF HeadersAre, Header
<1>9. PartOf(udp, h, 18, 21)
  <2>1. h \in Seq(Word16) /\ 18 \in Nat /\ 21 \in Nat /\ 18 >= 1 /\ 21 <= Len(h) /\ 18 <= 21 + 1
    BY <1>8
  <2> QED
    BY <2>1, Part, Zenon
<1>10. udp[1] = 40000 /\ udp[2] = p /\ udp[3] = n /\ udp[4] = 0
  <2> HIDE DEF udp
  <2> QED
    BY <1>8, <1>9 DEF PartOf
<1> HIDE DEF udp
<1>11. p \in Nat /\ Pseudo(n) \in Nat
  BY <1>2, PseudoIs DEF Word16
<1>12. pre = Pseudo(n) + 40000 + p + n /\ pre \in Nat
  <2> DEFINE q == Pseudo(n)
  <2>1. pre = cksum_partial(udp, 8, q)
    BY <1>7 DEF Pseudo
  <2> HIDE DEF q, pre
  <2>2. cksum_partial(udp, 8, q) = Total(udp, 4, q)
    <3>1. cksum_partial(udp, 8, q) = Total(udp, 8 \div 2, q)
             + (IF 8 % 2 = 1 THEN 256 * (udp[8 \div 2 + 1] \div 256) ELSE 0)
      BY PartialIs
    <3>2. \A i \in 1 .. 4 : udp[i] \in Nat
      BY <1>2, <1>10, <1>11
    <3>3. Total(udp, 4, q) \in Nat
      BY <1>11, <3>2, SumSeed DEF q
    <3> QED
      BY <3>1, <3>3
  <2>3. /\ Total(udp, 0, q) = q
        /\ \A j \in Nat : Total(udp, j + 1, q) = Total(udp, j, q) + udp[j + 1]
    BY TotalStep
  <2>4. /\ Total(udp, 0 + 1, q) = Total(udp, 0, q) + udp[0 + 1]
        /\ Total(udp, 1 + 1, q) = Total(udp, 1, q) + udp[1 + 1]
        /\ Total(udp, 2 + 1, q) = Total(udp, 2, q) + udp[2 + 1]
        /\ Total(udp, 3 + 1, q) = Total(udp, 3, q) + udp[3 + 1]
    BY <2>3
  <2>5. q \in Nat
    BY <1>11 DEF q
  <2>6. Total(udp, 4, q) = q + 40000 + p + n
    BY <1>2, <1>10, <1>11, <2>3, <2>4, <2>5
  <2> QED
    BY <1>2, <1>11, <2>1, <2>2, <2>5, <2>6 DEF q
<1> HIDE DEF pre
<1>13. sum = UdpSum(p, len, pay)
  <2>1. cksum_partial(pay, len, pre) = pre + cksum_partial(pay, len, 0)
    BY <1>1, <1>12, PartialTyped
  <2> QED
    BY <1>12, <2>1 DEF UdpSum, n
<1> HIDE DEF sum
<1>14. k = UdpCheck(p, len, pay)
  BY <1>13 DEF UdpCheck
<1>15. k \in Word16
  BY <1>14, UdpCheckIs
<1> HIDE DEF k
<1>16. /\ g \in Seq(Word16) /\ Len(g) = 21
       /\ \A i \in 1 .. 21 : g[i] = IF i = 21 THEN k ELSE h[i]
  <2>1. 21 \in 1 .. Len(h) /\ h \in Seq(Word16) /\ Len(h) = 21
    BY <1>8
  <2>2. /\ g \in Seq(Word16) /\ Len(g) = Len(h)
        /\ \A i \in 1 .. Len(h) : g[i] = IF i = 21 THEN k ELSE h[i]
    <3>1. Patched(g, h, 21, k)
      BY <1>15, <2>1, Patch, Zenon
    <3> QED
      BY <3>1, Zenon DEF Patched
  <2> HIDE DEF g
  <2> QED
    BY <2>1, <2>2
<1> HIDE DEF g
<1>17. Joins(x, g, pay)
  <2>1. g \in Seq(Word16) /\ pay \in Seq(Word16)
    BY <1>1, <1>16
  <2> QED
    BY <2>1, Cat, Zenon
<1> HIDE DEF x
<1>18. /\ x \in Seq(Word16) /\ Len(x) = 21 + Len(pay)
       /\ \A i \in 1 .. 21 + Len(pay) : x[i] = IF i <= 21 THEN g[i] ELSE pay[i - 21]
  BY <1>16, <1>17 DEF Joins
<1>19. ASSUME NEW i \in 1 .. Len(pay) PROVE x[21 + i] = pay[i]
  <2>1. 21 + i \in 1 .. 21 + Len(pay) /\ ~(21 + i <= 21) /\ (21 + i) - 21 = i
    BY <1>1
  <2> QED
    BY <1>18, <2>1
<1>20. ASSUME NEW i \in 1 .. 21 PROVE x[i] = g[i]
  <2>1. i \in 1 .. 21 + Len(pay) /\ i <= 21
    BY <1>1
  <2> QED
    BY <1>18, <2>1
<1>21. (\A i \in 1 .. 20 : x[i] = h[i]) /\ x[21] = k
  <2>1. \A i \in 1 .. 21 : g[i] = IF i = 21 THEN k ELSE h[i]
    BY <1>16
  <2>2. ASSUME NEW i \in 1 .. 20 PROVE x[i] = h[i]
    <3>1. i \in 1 .. 21 /\ i # 21
      OBVIOUS
    <3> QED
      BY <1>20, <2>1, <3>1
  <2>3. 21 \in 1 .. 21
    OBVIOUS
  <2>4. x[21] = k
    BY <1>20, <2>1, <2>3
  <2> QED
    BY <2>2, <2>4
<1>22. Header(x, p, id, n)
  BY <1>6, <1>21 DEF Header
<1>23. FrameOK([words |-> x, len |-> tot])
  <2>1. CASE len = 2 * Len(pay)
    <3>1. tot = 2 * Len(x) /\ tot \in Nat /\ x \in Seq(Word16)
      BY <1>1, <1>2, <1>18, <2>1
    <3> QED
      BY <3>1, MakeFrame
  <2>2. CASE len = 2 * Len(pay) - 1 /\ pay[Len(pay)] % 256 = 0
    <3>1. /\ tot = 2 * Len(x) - 1 /\ tot \in Nat /\ x \in Seq(Word16)
          /\ Len(pay) \in 1 .. Len(pay) /\ Len(x) = 21 + Len(pay)
      BY <1>1, <1>2, <1>18, <2>2
    <3>2. x[Len(x)] % 256 = 0
      BY <1>19, <2>2, <3>1
    <3>3. tot = 2 * Len(x) - 1 /\ tot \in Nat /\ x \in Seq(Word16)
      BY <3>1
    <3> QED
      BY <3>2, <3>3, MakeFrame
  <2> QED
    BY <1>1, <2>1, <2>2
<1>24. Sized([words |-> x, len |-> tot], n)
  BY <1>2, <1>23 DEF Sized
<1>25. Carries([words |-> x, len |-> tot], p, id, n)
  BY <1>22, <1>24 DEF Carries
<1>26. Built([words |-> x, len |-> tot], p, id, pay, len)
  <2>1. n = 8 + len /\ tot = 42 + len /\ Len(x) = 21 + Len(pay) /\ x[21] = UdpCheck(p, len, pay)
    BY <1>2, <1>14, <1>18, <1>21
  <2> QED
    BY <1>19, <1>25, <2>1 DEF Built
<1> QED
  BY <1>3, <1>26

-----------------------------------------------------------------------------
(* The packet generator.                                                    *)

LEMMA PatternByteIs ==
    ASSUME NEW i \in Nat
    PROVE  PatternByte(i) \in Nat /\ PatternByte(i) <= 255
<1> DEFINE a == i % 256
           b == Flip(a, 7)
<1>1. a \in Nat /\ a <= 255
  OBVIOUS
<1> HIDE DEF a
<1>2. b \in Nat /\ b <= 255
  BY <1>1 DEF Flip
<1> HIDE DEF b
<1>3. Flip(b, 5) \in Nat /\ Flip(b, 5) <= 255
  BY <1>2 DEF Flip
<1> QED
  BY <1>3 DEF PatternByte, a, b

LEMMA PatternIs ==
    ASSUME NEW len \in Nat, len >= 8
    PROVE  /\ Bytes(Pattern(len), len) /\ Len(Pattern(len)) >= 4
           /\ \A i \in 1 .. 4 : Pattern(len)[i] = 0
<1> DEFINE n == (len + 1) \div 2
           Lo(w) == IF 2 * w - 1 < len THEN PatternByte(2 * w - 1) ELSE 0
           V(w) == IF w <= 4 THEN 0 ELSE 256 * PatternByte(2 * w - 2) + Lo(w)
           x == [w \in 1 .. n |-> V(w)]
<1>1. n \in Nat /\ n >= 4 /\ (len = 2 * n \/ len = 2 * n - 1)
  OBVIOUS
<1>2. Pattern(len) = x
  BY DEF Pattern
<1> HIDE DEF n
<1>3. ASSUME NEW w \in 1 .. n PROVE V(w) \in Word16
  <2>1. CASE w <= 4
    BY <2>1 DEF Word16
  <2>2. CASE w > 4
    <3>1. 2 * w - 2 \in Nat /\ 2 * w - 1 \in Nat
      BY <1>1
    <3> DEFINE a == PatternByte(2 * w - 2)
               b == PatternByte(2 * w - 1)
    <3>2. a \in Nat /\ a <= 255 /\ b \in Nat /\ b <= 255
      BY <3>1, PatternByteIs
    <3> HIDE DEF a, b
    <3>3. Lo(w) \in Nat /\ Lo(w) <= 255
      BY <3>2 DEF b
    <3>4. V(w) = 256 * a + Lo(w)
      BY <1>1, <2>2 DEF a
    <3> HIDE DEF Lo, V
    <3> QED
      BY <3>2, <3>3, <3>4 DEF Word16
  <2> QED
    BY <1>1, <2>1, <2>2
<1>4. len = 2 * n - 1 => V(n) % 256 = 0
  <2> SUFFICES ASSUME len = 2 * n - 1 PROVE V(n) % 256 = 0
    OBVIOUS
  <2>1. Lo(n) = 0 /\ n > 4
    BY <1>1
  <2>2. 2 * n - 2 \in Nat
    BY <1>1
  <2> DEFINE a == PatternByte(2 * n - 2)
  <2>3. a \in Nat
    BY <2>2, PatternByteIs
  <2>4. V(n) = 256 * a + 0
    BY <1>1, <2>1
  <2> HIDE DEF a, V
  <2> QED
    BY <2>3, <2>4
<1>5. \A i \in 1 .. 4 : V(i) = 0
  OBVIOUS
<1> HIDE DEF V
<1>6. x \in Seq(Word16) /\ Len(x) = n /\ \A i \in 1 .. n : x[i] = V(i)
  <2>1. x \in [1 .. n -> Word16]
    BY <1>3
  <2>2. \A i \in 1 .. n : x[i] = V(i)
    OBVIOUS
  <2>3. DOMAIN x = 1 .. n
    OBVIOUS
  <2> HIDE DEF x
  <2> QED
    BY <1>1, <2>1, <2>2, <2>3
<1> HIDE DEF x
<1>7. Bytes(x, len)
  <2>1. CASE len = 2 * n
    BY <1>6, <2>1 DEF Bytes
  <2>2. CASE len = 2 * n - 1
    <3>1. n \in 1 .. n
      BY <1>1
    <3>2. x[n] % 256 = 0
      BY <1>4, <1>6, <2>2, <3>1
    <3> QED
      BY <1>6, <2>2, <3>2 DEF Bytes
  <2> QED
    BY <1>1, <2>1, <2>2
<1>8. \A i \in 1 .. 4 : x[i] = 0
  BY <1>1, <1>5, <1>6
<1> QED
  BY <1>1, <1>2, <1>6, <1>7, <1>8

\* The checksum after the four words of the sequence number, one update each
Patches(g) ==
    LET u(c, w) == cksum_update(c, Word(g.tmpl, 40 + 2 * w), g.seq[w])
    IN  u(u(u(u(g.udp_check_base, 1), 2), 3), 4)

PatchLoop(g) ==
    LET check[w \in 0 .. 4] ==
            IF w = 0 THEN g.udp_check_base
            ELSE cksum_update(check[w - 1], Word(g.tmpl, 40 + 2 * w), g.seq[w])
    IN  check[4]

LEMMA PatchLoopIs ==
    ASSUME NEW g
    PROVE  PatchLoop(g) = Patches(g)
<1> DEFINE U(c, w) == cksum_update(c, Word(g.tmpl, 40 + 2 * w), g.seq[w])
           b == g.udp_check_base
           Rec(f) == [w \in 0 .. 4 |-> IF w = 0 THEN b ELSE U(f[w - 1], w)]
           e == [w \in 0 .. 4 |-> IF w = 0 THEN b
                                  ELSE IF w = 1 THEN U(b, 1)
                                  ELSE IF w = 2 THEN U(U(b, 1), 2)
                                  ELSE IF w = 3 THEN U(U(U(b, 1), 2), 3)
                                  ELSE U(U(U(U(b, 1), 2), 3), 4)]
           h == CHOOSE f : f = Rec(f)
<1>1. PatchLoop(g) = h[4]
  BY DEF PatchLoop
<1>2. Patches(g) = U(U(U(U(b, 1), 2), 3), 4)
  BY DEF Patches
<1> HIDE DEF U, b
<1>3. e = Rec(e)
  <2>1. /\ e[0] = b /\ e[1] = U(e[0], 1) /\ e[2] = U(e[1], 2) /\ e[3] = U(e[2], 3)
        /\ e[4] = U(e[3], 4)
    OBVIOUS
  <2>2. ASSUME NEW w \in 0 .. 4 PROVE e[w] = IF w = 0 THEN b ELSE U(e[w - 1], w)
    <3>1. w = 0 \/ w = 1 \/ w = 2 \/ w = 3 \/ w = 4
      OBVIOUS
    <3> HIDE DEF e
    <3> QED
      BY <2>1, <3>1
  <2>3. DOMAIN e = 0 .. 4
    OBVIOUS
  <2>4. e = [w \in 0 .. 4 |-> e[w]]
    OBVIOUS
  <2> HIDE DEF e
  <2> QED
    BY <2>2, <2>3, <2>4
<1> HIDE DEF e
<1>4. h = Rec(h)
  BY <1>3
<1> HIDE DEF h
<1>5. h[0] = b /\ h[1] = U(h[0], 1) /\ h[2] = U(h[1], 2) /\ h[3] = U(h[2], 3) /\ h[4] = U(h[3], 4)
  BY <1>4
<1> QED
  BY <1>1, <1>2, <1>5

\* c is a checksum for what sums to s
Cancels(c, s) == c \in Word16 /\ \E k \in Int : s + c = 65535 * k

LEMMA CancelIntro ==
    ASSUME NEW c \in Word16, NEW s \in Nat, NEW i \in Int, s + c = 65535 * i
    PROVE  Cancels(c, s)
<1>1. c \in Nat
  BY DEF Word16
<1>2. \E k \in Int : s + c = 65535 * k
  BY <1>1
<1> QED
  BY <1>2 DEF Cancels

(* RFC 1624: an update changes the sum as much as the field has changed.    *)
LEMMA UpdateCancels ==
    ASSUME NEW c, NEW s \in Nat, Cancels(c, s), NEW m \in Word16, NEW n \in Word16, m <= s
    PROVE  Cancels(cksum_update(c, m, n), (s - m) + n)
<1> DEFINE x == Not16(c) + Not16(m) + n
           b == cksum_fold[x]
           d == cksum_update(c, m, n)
<1>1. c \in Nat /\ c <= 65535 /\ m \in Nat /\ m <= 65535 /\ n \in Nat /\ n <= 65535
  BY DEF Cancels, Word16
<1>2. PICK k \in Int : s + c = 65535 * k
  BY DEF Cancels
<1>3. x \in Nat /\ x = (65535 - c) + (65535 - m) + n
  BY <1>1 DEF Not16
<1>4. d = 65535 - b
  BY DEF cksum_update, Not16
<1> HIDE DEF x, d
<1>5. b \in Nat /\ b <= 65535
  BY <1>3, FoldIs DEF Word16
<1>6. PICK j \in Nat : x = 65535 * j + b
  BY <1>3, FoldIs
<1> HIDE DEF b
<1>7. d \in Word16
  BY <1>4, <1>5 DEF Word16
<1> DEFINE i == (k + j) - 1
           r == (s - m) + n
<1>8. r + d = 65535 * i /\ i \in Int /\ r \in Nat
  BY <1>1, <1>2, <1>3, <1>4, <1>5, <1>6
<1> HIDE DEF i, r
<1>9. Cancels(d, r)
  BY <1>7, <1>8, CancelIntro
<1> QED
  BY <1>9 DEF d, r

(* What is summed with its checksum verifies.                               *)
LEMMA CancelsVerify ==
    ASSUME NEW c, NEW s \in Nat, Cancels(c, s), s > 0
    PROVE  cksum_fold[s + c] = 65535
<1>1. c \in Nat
  BY DEF Cancels, Word16
<1>2. PICK k \in Int : s + c = 65535 * k
  BY DEF Cancels
<1> DEFINE t == s + c
<1>3. t \in Nat /\ t > 0 /\ t = 65535 * (k - 1) + 65535 /\ k - 1 \in Int
  BY <1>1, <1>2
<1> HIDE DEF t
<1>4. 65535 \in Word16 /\ 65535 > 0
  BY DEF Word16
<1> DEFINE j == k - 1
           w == 65535
<1>5. t = 65535 * j + w /\ j \in Int /\ w \in Word16 /\ w > 0
  BY <1>3, <1>4
<1> HIDE DEF j, w
<1>6. cksum_fold[t] = w
  BY <1>3, <1>5, FoldUnique
<1> QED
  BY <1>6 DEF t, w

(* Two checksums of one sum are the same, or the two zeros.                 *)
LEMMA CancelsSame ==
    ASSUME NEW c, NEW d, NEW s \in Nat, Cancels(c, s), Cancels(d, s)
    PROVE  c = d \/ {c, d} = {0, 65535}
<1>1. c \in Nat /\ c <= 65535 /\ d \in Nat /\ d <= 65535
  BY DEF Cancels, Word16
<1>2. PICK k \in Int : s + c = 65535 * k
  BY DEF Cancels
<1>3. PICK j \in Int : s + d = 65535 * j
  BY DEF Cancels
<1>4. c - d = 65535 * (k - j)
  BY <1>1, <1>2, <1>3
<1>5. k - j = 0 \/ k - j = 1 \/ k - j = -1
  BY <1>1, <1>4
<1>6. c = d \/ (c = 65535 /\ d = 0) \/ (c = 0 /\ d = 65535)
  BY <1>1, <1>4, <1>5
<1> QED
  BY <1>6

(* A folded and inverted sum is a checksum.                                 *)
LEMMA FoldCancels ==
    ASSUME NEW s \in Nat
    PROVE  Cancels(Not16(cksum_fold[s]), s)
<1> DEFINE b == cksum_fold[s]
           c == Not16(b)
<1>1. b \in Nat /\ b <= 65535
  BY FoldIs DEF Word16
<1>2. PICK j \in Nat : s = 65535 * j + b
  BY FoldIs
<1> HIDE DEF b
<1>3. c \in Word16
  BY <1>1 DEF Word16, Not16
<1> DEFINE i == j + 1
<1>4. s + c = 65535 * i /\ i \in Int
  BY <1>1, <1>2 DEF Not16
<1> HIDE DEF c, i
<1>5. Cancels(c, s)
  BY <1>3, <1>4, CancelIntro
<1> QED
  BY <1>5 DEF c, b

LEMMA UdpCheckCancels ==
    ASSUME NEW p \in Word16, NEW len, NEW pay, Bytes(pay, len)
    PROVE  Cancels(UdpCheck(p, len, pay), UdpSum(p, len, pay))
<1> DEFINE s == UdpSum(p, len, pay)
           c == Not16(cksum_fold[s])
           d == UdpCheck(p, len, pay)
<1>1. s \in Nat /\ d \in Word16
  BY UdpCheckIs
<1>2. d = IF c = 0 THEN 65535 ELSE c
  BY DEF UdpCheck
<1> HIDE DEF s, d
<1>3. Cancels(c, s)
  BY <1>1, FoldCancels
<1> HIDE DEF c
<1>4. PICK k \in Int : s + c = 65535 * k
  BY <1>3 DEF Cancels
<1>5. c \in Nat
  BY <1>3 DEF Cancels, Word16
<1>6. CASE c = 0
  <2> DEFINE i == k + 1
  <2>1. s + d = 65535 * i /\ i \in Int
    BY <1>1, <1>2, <1>4, <1>6
  <2> HIDE DEF i
  <2>2. Cancels(d, s)
    BY <1>1, <2>1, CancelIntro
  <2> QED
    BY <2>2 DEF s, d
<1>7. CASE c # 0
  BY <1>2, <1>3, <1>7 DEF s, d
<1> QED
  BY <1>6, <1>7

(* The id's update of the header checksum gives what a fresh header has.    *)
LEMMA IpUpdate ==
    ASSUME NEW t \in Word16, NEW a \in Word16, NEW id \in Word16
    PROVE  cksum_update(Not16(cksum_fold[IpSum(t, a)]), a, id) = Not16(cksum_fold[IpSum(t, id)])
<1> DEFINE s == IpSum(t, a)
           r == IpSum(t, id)
           b == cksum_fold[s]
           x == b + (65535 - a) + id
           d == cksum_fold[x]
<1>1. t \in Nat /\ a \in Nat /\ a <= 65535 /\ id \in Nat
  BY DEF Word16
<1>2. s \in Nat /\ s > 0 /\ r \in Nat /\ r > 0 /\ r = (s - a) + id
  BY <1>1 DEF IpSum
<1> HIDE DEF s, r
<1>3. b \in Nat /\ b <= 65535 /\ b > 0
  BY <1>2, FoldIs DEF Word16
<1>4. PICK j \in Nat : s = 65535 * j + b
  BY <1>2, FoldIs
<1>5. cksum_update(Not16(b), a, id) = Not16(d)
  <2>1. Not16(Not16(b)) + Not16(a) + id = x
    BY <1>1, <1>3 DEF Not16
  <2> HIDE DEF b, x
  <2> QED
    BY <2>1 DEF cksum_update
<1> HIDE DEF b
<1>6. x \in Nat /\ x > 0
  BY <1>1, <1>3
<1>7. r = 65535 * (j - 1) + x
  BY <1>1, <1>2, <1>3, <1>4
<1> HIDE DEF x
<1>8. d \in Word16 /\ d > 0
  BY <1>6, FoldIs
<1>9. PICK k \in Nat : x = 65535 * k + d
  BY <1>6, FoldIs
<1> HIDE DEF d
<1>10. d \in Nat
  BY <1>8 DEF Word16
<1> DEFINE i == (j - 1) + k
<1>11. i \in Int /\ r = 65535 * i + d
  BY <1>7, <1>9, <1>10
<1> HIDE DEF i
<1>12. cksum_fold[r] = d
  BY <1>2, <1>8, <1>11, FoldUnique
<1> QED
  BY <1>5, <1>12 DEF b, r, s

\* The template of a generator for port p and payloads of len bytes, and the generator
Template(p, len) == build_udp_ipv4(TemplateCapacity, Flow(p), 4096, Pattern(len), len)

PayloadLen(len) == len \in Nat /\ 8 <= len /\ len <= 2048

GenOf(p, len, id, seq) ==
    [base_ip_id |-> 4096, ip_id |-> id, seq |-> seq, tmpl |-> Template(p, len),
     ip_check_base |-> Template(p, len).words[13], udp_check_base |-> Template(p, len).words[21]]

FourWords(seq) == seq \in Seq(Word16) /\ Len(seq) = 4

LEMMA FourParts ==
    ASSUME NEW seq, FourWords(seq)
    PROVE  \A i \in 1 .. 4 : seq[i] \in Word16
<1>1. seq \in Seq(Word16) /\ Len(seq) = 4
  BY DEF FourWords
<1>2. \A i \in 1 .. Len(seq) : seq[i] \in Word16
  BY <1>1, ElementOfSeq
<1> QED
  BY <1>1, <1>2

LEMMA TemplateIs ==
    ASSUME NEW p \in Word16, NEW len, PayloadLen(len)
    PROVE  /\ Built(Template(p, len), p, 4096, Pattern(len), len)
           /\ Bytes(Pattern(len), len) /\ Len(Pattern(len)) >= 4
           /\ \A i \in 1 .. 4 : Pattern(len)[i] = 0
<1>1. len \in Nat /\ len >= 8 /\ TemplateCapacity \in Nat /\ Room(len, TemplateCapacity)
      /\ 4096 \in Word16
  BY SMT DEF PayloadLen, TemplateCapacity, Room, Word16
<1>2. /\ Bytes(Pattern(len), len) /\ Len(Pattern(len)) >= 4
      /\ \A i \in 1 .. 4 : Pattern(len)[i] = 0
  BY <1>1, PatternIs
<1>3. Built(Template(p, len), p, 4096, Pattern(len), len)
  BY <1>1, <1>2, BuildIs DEF Template
<1> QED
  BY <1>2, <1>3

LEMMA BuiltParts ==
    ASSUME NEW f, NEW p, NEW id, NEW pay, NEW len, Built(f, p, id, pay, len)
    PROVE  /\ Carries(f, p, id, 8 + len) /\ FrameOK(f) /\ Header(f.words, p, id, 8 + len)
           /\ f.words \in Seq(Word16) /\ Len(f.words) \in Nat /\ Len(f.words) >= 21
           /\ f.len \in Nat /\ f.len = 42 + len
           /\ f = [words |-> f.words, len |-> f.len]
<1>1. Carries(f, p, id, 8 + len) /\ f.len = 42 + len
  BY DEF Built
<1>2. FrameOK(f) /\ Header(f.words, p, id, 8 + len)
  BY <1>1 DEF Carries, Sized
<1>3. Len(f.words) >= 21
  BY <1>1, CarriesWords
<1> QED
  BY <1>1, <1>2, <1>3, FrameParts

(* rewsr_pktgen_init.                                                       *)
LEMMA GenInit ==
    ASSUME NEW p \in Word16, NEW len, PayloadLen(len)
    PROVE  pktgen_init(Flow(p), len) = GenOf(p, len, 4096, <<0, 0, 0, 0>>)
<1> DEFINE t == Template(p, len)
           z == <<0, 0, 0, 0>>
<1>1. Built(t, p, 4096, Pattern(len), len)
  BY TemplateIs
<1>2. pktgen_init(Flow(p), len) =
        [base_ip_id |-> 4096, ip_id |-> 4096, seq |-> z, tmpl |-> t,
         ip_check_base |-> Word(t, 24), udp_check_base |-> Word(t, 40)]
  BY DEF pktgen_init, Template
<1>3. GenOf(p, len, 4096, z) =
        [base_ip_id |-> 4096, ip_id |-> 4096, seq |-> z, tmpl |-> t,
         ip_check_base |-> t.words[13], udp_check_base |-> t.words[21]]
  BY DEF GenOf
<1> HIDE DEF t, z
<1>4. Len(t.words) \in Nat /\ Len(t.words) >= 21
  BY <1>1, BuiltParts
<1>5. Word(t, 24) = t.words[13] /\ Word(t, 40) = t.words[21]
  BY <1>4 DEF Word
<1>6. pktgen_init(Flow(p), len) = GenOf(p, len, 4096, z)
  BY <1>2, <1>3, <1>5
<1> QED
  BY <1>6 DEF z

(* Calls of rewsr_pktgen_next.                                              *)
LEMMA GenStep ==
    ASSUME NEW p, NEW len, NEW id, NEW seq, NEW n
    PROVE  pktgen_advance(GenOf(p, len, id, seq), n) =
             GenOf(p, len, (id + n[4]) % 65536, Plus(seq, n))
<1> DEFINE t == Template(p, len)
           a == t.words[13]
           b == t.words[21]
           G(x, y) == [base_ip_id |-> 4096, ip_id |-> x, seq |-> y, tmpl |-> t,
                       ip_check_base |-> a, udp_check_base |-> b]
           g == GenOf(p, len, id, seq)
           i == (id + n[4]) % 65536
           s == Plus(seq, n)
<1>1. g = G(id, seq)
  BY DEF GenOf
<1>2. GenOf(p, len, i, s) = G(i, s)
  BY DEF GenOf
<1> HIDE DEF t, a, b, g
<1>3. g.ip_id = id /\ g.seq = seq
  BY <1>1
<1>4. pktgen_advance(g, n) = [g EXCEPT !.ip_id = (g.ip_id + n[4]) % 65536,
                                       !.seq = Plus(g.seq, n)]
  BY DEF pktgen_advance
<1>5. pktgen_advance(g, n) = [g EXCEPT !.ip_id = i, !.seq = s]
  <2> DEFINE j == (g.ip_id + n[4]) % 65536
             r == Plus(g.seq, n)
  <2>1. j = i /\ r = s
    BY <1>3
  <2>2. pktgen_advance(g, n) = [g EXCEPT !.ip_id = j, !.seq = r]
    BY <1>4
  <2> HIDE DEF i, s, j, r
  <2> QED
    BY <2>1, <2>2
<1> HIDE DEF i, s
<1>6. [g EXCEPT !.ip_id = i, !.seq = s] = G(i, s)
  <2> DEFINE h == [g EXCEPT !.ip_id = i]
  <2>1. [g EXCEPT !.ip_id = i, !.seq = s] = [h EXCEPT !.seq = s]
    BY Zenon
  <2>2. h = G(i, seq)
    BY <1>1
  <2> HIDE DEF h
  <2>3. [h EXCEPT !.seq = s] = G(i, s)
    BY <2>2
  <2> QED
    BY <2>1, <2>3
<1> QED
  BY <1>2, <1>5, <1>6 DEF g, i, s

\* f is the generator's frame with this id and sequence number
Generated(f, p, len, id, seq) ==
    /\ Carries(f, p, id, 8 + len) /\ f.len = 42 + len
    /\ Len(f.words) = Len(Template(p, len).words) /\ Len(f.words) >= 25
    /\ f.words[21] = Patches(GenOf(p, len, id, seq))
    /\ \A i \in 1 .. 4 : f.words[21 + i] = seq[i]
    /\ \A i \in 26 .. Len(f.words) : f.words[i] = Template(p, len).words[i]

(* The fields of the generator.                                             *)
LEMMA GenFields ==
    ASSUME NEW p, NEW len, NEW id, NEW seq
    PROVE  LET g == GenOf(p, len, id, seq)
           IN  /\ g.base_ip_id = 4096 /\ g.ip_id = id /\ g.seq = seq /\ g.tmpl = Template(p, len)
               /\ g.ip_check_base = Template(p, len).words[13]
               /\ g.udp_check_base = Template(p, len).words[21]
  BY DEF GenOf

(* The checksum of a generated frame goes with its sum.                     *)
LEMMA PatchesCancel ==
    ASSUME NEW p \in Word16, NEW len, PayloadLen(len), NEW id, NEW seq, FourWords(seq)
    PROVE  Cancels(Patches(GenOf(p, len, id, seq)),
                   UdpSum(p, len, Pattern(len)) + seq[1] + seq[2] + seq[3] + seq[4])
<1> DEFINE g == GenOf(p, len, id, seq)
           t == Template(p, len)
           s == UdpSum(p, len, Pattern(len))
           c0 == t.words[21]
           c1 == cksum_update(c0, 0, seq[1])
           c2 == cksum_update(c1, 0, seq[2])
           c3 == cksum_update(c2, 0, seq[3])
           c4 == cksum_update(c3, 0, seq[4])
<1>1. g.seq = seq /\ g.tmpl = t /\ g.udp_check_base = c0
  BY GenFields
<1>2. /\ Built(t, p, 4096, Pattern(len), len) /\ Bytes(Pattern(len), len)
      /\ Len(Pattern(len)) >= 4 /\ \A i \in 1 .. 4 : Pattern(len)[i] = 0
  BY TemplateIs
<1>3. s \in Nat /\ Cancels(c0, s)
  <2>1. c0 = UdpCheck(p, len, Pattern(len))
    BY <1>2 DEF Built
  <2>2. s \in Nat
    BY <1>2, UdpCheckIs
  <2>3. Cancels(UdpCheck(p, len, Pattern(len)), UdpSum(p, len, Pattern(len)))
    BY <1>2, UdpCheckCancels
  <2> QED
    BY <2>1, <2>2, <2>3
<1>4. seq[1] \in Word16 /\ seq[2] \in Word16 /\ seq[3] \in Word16 /\ seq[4] \in Word16
  BY FourParts
<1>5. seq[1] \in Nat /\ seq[2] \in Nat /\ seq[3] \in Nat /\ seq[4] \in Nat
  BY <1>4 DEF Word16
<1>6. Word(t, 42) = 0 /\ Word(t, 44) = 0 /\ Word(t, 46) = 0 /\ Word(t, 48) = 0
  <2> DEFINE y == Pattern(len)
  <2> HIDE DEF t, y
  <2>1. Len(t.words) = 21 + Len(y) /\ Len(y) \in Nat
    BY <1>2, BytesParts DEF Built, y
  <2>2. Len(y) >= 4 /\ \A i \in 1 .. 4 : y[i] = 0
    BY <1>2 DEF y
  <2>3. \A i \in 1 .. Len(y) : t.words[21 + i] = y[i]
    BY <1>2 DEF Built, y
  <2>4. t.words[21 + 1] = 0 /\ t.words[21 + 2] = 0 /\ t.words[21 + 3] = 0 /\ t.words[21 + 4] = 0
    BY <2>1, <2>2, <2>3, SMTT(40)
  <2> QED
    BY <2>1, <2>2, <2>4 DEF Word
<1>7. Patches(g) = c4
  <2> DEFINE U(c, w) == cksum_update(c, Word(g.tmpl, 40 + 2 * w), g.seq[w])
  <2>1. Patches(g) = U(U(U(U(g.udp_check_base, 1), 2), 3), 4)
    BY DEF Patches
  <2>2. /\ \A c : U(c, 1) = cksum_update(c, Word(g.tmpl, 42), g.seq[1])
        /\ \A c : U(c, 2) = cksum_update(c, Word(g.tmpl, 44), g.seq[2])
        /\ \A c : U(c, 3) = cksum_update(c, Word(g.tmpl, 46), g.seq[3])
        /\ \A c : U(c, 4) = cksum_update(c, Word(g.tmpl, 48), g.seq[4])
    OBVIOUS
  <2> HIDE DEF U, g, t
  <2> QED
    BY <1>1, <1>6, <2>1, <2>2
<1> HIDE DEF g, t, s, c0
<1>8. 0 \in Word16
  BY DEF Word16
<1> DEFINE s1 == s + seq[1]
           s2 == s1 + seq[2]
           s3 == s2 + seq[3]
           s4 == s3 + seq[4]
<1>9. s1 \in Nat /\ s2 \in Nat /\ s3 \in Nat /\ s4 \in Nat
  BY <1>3, <1>5
<1>10. (s - 0) + seq[1] = s1 /\ (s1 - 0) + seq[2] = s2 /\ (s2 - 0) + seq[3] = s3
       /\ (s3 - 0) + seq[4] = s4 /\ 0 <= s /\ 0 <= s1 /\ 0 <= s2 /\ 0 <= s3
  BY <1>3, <1>5
<1>11. s4 = s + seq[1] + seq[2] + seq[3] + seq[4]
  BY <1>3, <1>5
<1> HIDE DEF s1, s2, s3, s4
<1>12. Cancels(c1, s1)
  <2>1. Cancels(c1, (s - 0) + seq[1])
    BY <1>3, <1>4, <1>8, <1>10, UpdateCancels
  <2> QED
    BY <1>10, <2>1
<1> HIDE DEF c1
<1>13. Cancels(c2, s2)
  <2>1. Cancels(c2, (s1 - 0) + seq[2])
    BY <1>4, <1>8, <1>9, <1>10, <1>12, UpdateCancels
  <2> QED
    BY <1>10, <2>1
<1> HIDE DEF c2
<1>14. Cancels(c3, s3)
  <2>1. Cancels(c3, (s2 - 0) + seq[3])
    BY <1>4, <1>8, <1>9, <1>10, <1>13, UpdateCancels
  <2> QED
    BY <1>10, <2>1
<1> HIDE DEF c3
<1>15. Cancels(c4, s4)
  <2>1. Cancels(c4, (s3 - 0) + seq[4])
    BY <1>4, <1>8, <1>9, <1>10, <1>14, UpdateCancels
  <2> QED
    BY <1>10, <2>1
<1> HIDE DEF c4
<1> QED
  BY <1>7, <1>11, <1>15 DEF g, s

(* rewsr_pktgen_next writes id, sequence number and both checksums.         *)
LEMMA GenFrameIs ==
    ASSUME NEW p \in Word16, NEW len, PayloadLen(len), NEW id \in Word16, NEW seq, FourWords(seq)
    PROVE  Generated(pktgen_frame(GenOf(p, len, id, seq)), p, len, id, seq)
<1> DEFINE g == GenOf(p, len, id, seq)
           t == Template(p, len)
           w == t.words
           n == 8 + len
           a == cksum_update(w[13], 4096, id)
           b == Patches(g)
           x == [w EXCEPT ![10] = id]
           y == [x EXCEPT ![13] = a]
           z == [y EXCEPT ![21] = b]
           d == SubSeq(z, 1, 21)
           e == SubSeq(w, 26, Len(w))
           ds == d \o seq
           r == ds \o e
           tot == 42 + len
<1>1. /\ Built(t, p, 4096, Pattern(len), len) /\ Bytes(Pattern(len), len)
      /\ Len(Pattern(len)) >= 4
  BY TemplateIs
<1>2. /\ FrameOK(t) /\ Header(w, p, 4096, n) /\ w \in Seq(Word16) /\ Len(w) \in Nat
      /\ t.len = tot /\ tot \in Nat /\ t = [words |-> w, len |-> tot] /\ Carries(t, p, 4096, n)
  BY <1>1, BuiltParts
<1>3. Len(w) >= 25
  <2> DEFINE k == Len(Pattern(len))
  <2>1. Len(w) = 21 + k /\ k >= 4 /\ k \in Nat
    BY <1>1, BytesParts DEF Built
  <2> HIDE DEF k, w
  <2> QED
    BY <2>1
<1>4. pktgen_frame(g) = [words |-> r, len |-> tot]
  <2>1. /\ g.base_ip_id = 4096 /\ g.ip_id = id /\ g.seq = seq /\ g.tmpl = t
        /\ g.ip_check_base = w[13]
    BY GenFields
  <2> HIDE DEF g, t
  <2> DEFINE zz == [g.tmpl.words EXCEPT
                     ![10] = g.ip_id,
                     ![13] = cksum_update(g.ip_check_base, g.base_ip_id, g.ip_id),
                     ![21] = PatchLoop(g)]
             rr == SubSeq(zz, 1, 21) \o g.seq \o From(g.tmpl, 50)
  <2>2. pktgen_frame(g) = [g.tmpl EXCEPT !.words = rr]
    BY Zenon DEF pktgen_frame, PatchLoop
  <2>3. zz = z
    <3> DEFINE a0 == cksum_update(g.ip_check_base, g.base_ip_id, g.ip_id)
               b0 == PatchLoop(g)
               w0 == g.tmpl.words
               i0 == g.ip_id
    <3>1. a0 = a /\ b0 = b /\ w0 = w /\ i0 = id
      BY <2>1, PatchLoopIs
    <3>2. zz = [w0 EXCEPT ![10] = i0, ![13] = a0, ![21] = b0]
      OBVIOUS
    <3> HIDE DEF a0, b0, w0, i0, zz, a, b, w
    <3>3. zz = [w EXCEPT ![10] = id, ![13] = a, ![21] = b]
      BY <3>1, <3>2
    <3> QED
      BY <3>3
  <2>4. From(g.tmpl, 50) = e
    <3> DEFINE k == 50 \div 2 + 1
    <3>1. k = 26
      OBVIOUS
    <3>2. From(g.tmpl, 50) = SubSeq(g.tmpl.words, k, Len(g.tmpl.words))
      BY Zenon DEF From
    <3> HIDE DEF k
    <3>3. g.tmpl.words = w
      BY <2>1
    <3> HIDE DEF w
    <3> QED
      BY <3>1, <3>2, <3>3, Zenon
  <2>5. rr = r
    <3> DEFINE d0 == SubSeq(zz, 1, 21)
               e0 == From(g.tmpl, 50)
               s0 == g.seq
    <3>1. rr = (d0 \o s0) \o e0
      OBVIOUS
    <3> HIDE DEF zz, z, e
    <3>2. d0 = d /\ e0 = e
      BY <2>3, <2>4, Zenon
    <3>3. s0 = seq
      BY <2>1
    <3> HIDE DEF d0, e0, s0, rr, d
    <3> QED
      BY <3>1, <3>2, <3>3, Zenon
  <2> HIDE DEF rr, r
  <2>6. [t EXCEPT !.words = r] = [words |-> r, len |-> tot]
    <3>1. t = [words |-> w, len |-> tot]
      BY <1>2
    <3> HIDE DEF w, tot
    <3> QED
      BY <3>1
  <2> QED
    BY <2>1, <2>2, <2>5, <2>6
<1>5. n \in Nat /\ 20 + n \in Word16 /\ 4096 \in Word16 /\ tot = 34 + n /\ 8 <= n /\ n <= 65515
      /\ tot = 42 + len /\ n = 8 + len /\ tot \in Nat
  BY SMT DEF PayloadLen, Word16
<1>6. w[13] = Not16(cksum_fold[IpSum(20 + n, 4096)])
  BY <1>2 DEF Header
<1>7. a = Not16(cksum_fold[IpSum(20 + n, id)]) /\ a \in Word16
  <2> DEFINE tl == 20 + n
  <2>1. tl \in Word16 /\ 4096 \in Word16
    BY <1>5
  <2> HIDE DEF tl
  <2>2. cksum_update(Not16(cksum_fold[IpSum(tl, 4096)]), 4096, id)
          = Not16(cksum_fold[IpSum(tl, id)])
    BY <2>1, IpUpdate
  <2>3. IpSum(tl, id) \in Nat
    BY <2>1 DEF IpSum, Word16
  <2>4. Not16(cksum_fold[IpSum(tl, id)]) \in Word16
    BY <2>3, FoldCancels DEF Cancels
  <2> QED
    BY <1>6, <2>2, <2>4 DEF tl
<1>8. b \in Word16
  BY PatchesCancel DEF Cancels
<1>9. w \in Seq(Word16) /\ Len(w) \in Nat /\ Header(w, p, 4096, n)
  BY <1>2
<1>10. w[Len(w)] % 256 = 0 \/ tot = 2 * Len(w)
  BY <1>2 DEF FrameOK
<1>11. tot = 2 * Len(w) \/ tot = 2 * Len(w) - 1
  BY <1>2 DEF FrameOK
<1> HIDE DEF w, a, b, n, tot
<1>12. Patched(x, w, 10, id)
  <2>1. w \in Seq(Word16) /\ 10 \in 1 .. Len(w)
    BY <1>3, <1>9
  <2> QED
    BY <2>1, Patch, Zenon
<1> HIDE DEF x
<1>13. Patched(y, x, 13, a)
  <2>1. x \in Seq(Word16) /\ 13 \in 1 .. Len(x)
    BY <1>3, <1>9, <1>12 DEF Patched
  <2> QED
    BY <1>7, <2>1, Patch, Zenon
<1> HIDE DEF y
<1>14. Patched(z, y, 21, b)
  <2>1. y \in Seq(Word16) /\ 21 \in 1 .. Len(y)
    BY <1>3, <1>9, <1>12, <1>13 DEF Patched
  <2> QED
    BY <1>8, <2>1, Patch, Zenon
<1> HIDE DEF z
<1>15. /\ z \in Seq(Word16) /\ Len(z) = Len(w)
       /\ \A i \in 1 .. Len(w) : z[i] = IF i = 21 THEN b ELSE IF i = 13 THEN a
                                        ELSE IF i = 10 THEN id ELSE w[i]
  BY <1>3, <1>9, <1>12, <1>13, <1>14 DEF Patched
<1>16. PartOf(d, z, 1, 21)
  <2>1. z \in Seq(Word16) /\ 1 \in Nat /\ 21 \in Nat /\ 1 >= 1 /\ 21 <= Len(z) /\ 1 <= 21 + 1
    BY <1>3, <1>9, <1>15
  <2> QED
    BY <2>1, Part, Zenon
<1>17. PartOf(e, w, 26, Len(w))
  <2> DEFINE k == Len(w)
  <2>1. w \in Seq(Word16) /\ 26 \in Nat /\ k \in Nat /\ 26 >= 1 /\ k <= Len(w) /\ 26 <= k + 1
    BY <1>3, <1>9
  <2> HIDE DEF k
  <2>2. PartOf(SubSeq(w, 26, k), w, 26, k)
    BY <2>1, Part, Zenon
  <2> QED
    BY <2>2 DEF k
<1> HIDE DEF d, e
<1>18. d \in Seq(Word16) /\ Len(d) = 21 /\ \A i \in 1 .. 21 : d[i] = z[i]
  BY <1>16 DEF PartOf
<1>19. e \in Seq(Word16) /\ Len(e) = Len(w) - 25 /\ \A i \in 1 .. Len(w) - 25 : e[i] = w[25 + i]
  <2>1. e \in Seq(Word16) /\ Len(e) = Len(w) - 25
    BY <1>3, <1>9, <1>17 DEF PartOf
  <2>2. ASSUME NEW i \in 1 .. Len(w) - 25 PROVE e[i] = w[25 + i]
    <3>1. i \in 1 .. (Len(w) + 1) - 26 /\ (26 + i) - 1 = 25 + i
      BY <1>9
    <3> QED
      BY <1>17, <3>1 DEF PartOf
  <2> QED
    BY <2>1, <2>2
<1>20. Joins(ds, d, seq)
  <2>1. d \in Seq(Word16) /\ seq \in Seq(Word16)
    BY <1>18 DEF FourWords
  <2> QED
    BY <2>1, Cat, Zenon
<1> HIDE DEF ds
<1>21. Joins(r, ds, e)
  <2>1. e \in Seq(Word16)
    BY <1>19
  <2> QED
    BY <1>20, <2>1, Chain, Zenon
<1> HIDE DEF r
<1>22. Len(ds) = 25 /\ (\A i \in 1 .. 21 : ds[i] = d[i]) /\ (\A i \in 1 .. 4 : ds[21 + i] = seq[i])
  <2>1. Len(seq) = 4
    BY DEF FourWords
  <2> QED
    BY <1>18, <1>20, <2>1 DEF Joins
<1>23. /\ r \in Seq(Word16) /\ Len(r) = Len(w)
       /\ \A i \in 1 .. Len(w) : r[i] = IF i <= 25 THEN ds[i] ELSE e[i - 25]
  BY <1>3, <1>9, <1>19, <1>21, <1>22 DEF Joins
<1>24. ASSUME NEW i \in 1 .. 25 PROVE r[i] = ds[i]
  <2>1. i \in 1 .. Len(w) /\ i <= 25
    BY <1>3, <1>9
  <2> QED
    BY <1>23, <2>1
<1>25. ASSUME NEW i \in 26 .. Len(w) PROVE r[i] = w[i]
  <2>1. i \in 1 .. Len(w) /\ ~(i <= 25) /\ i - 25 \in 1 .. Len(w) - 25 /\ 25 + (i - 25) = i
    BY <1>9
  <2> QED
    BY <1>19, <1>23, <2>1
<1>26. ASSUME NEW i \in 1 .. 21 PROVE r[i] = z[i]
  <2>1. i \in 1 .. 25
    OBVIOUS
  <2> QED
    BY <1>18, <1>22, <1>24, <2>1
<1>27. ASSUME NEW i \in 1 .. 4 PROVE r[21 + i] = seq[i]
  <2>1. 21 + i \in 1 .. 25
    OBVIOUS
  <2> QED
    BY <1>22, <1>24, <2>1
<1>28. (\A i \in 1 .. 20 : i # 10 /\ i # 13 => r[i] = w[i]) /\ r[10] = id /\ r[13] = a /\ r[21] = b
  <2>1. ASSUME NEW i \in 1 .. 21
        PROVE  r[i] = IF i = 21 THEN b ELSE IF i = 13 THEN a ELSE IF i = 10 THEN id ELSE w[i]
    <3>1. i \in 1 .. Len(w)
      BY <1>3, <1>9
    <3> QED
      BY <1>15, <1>26, <3>1
  <2> QED
    BY <2>1
<1>29. Header(r, p, id, n)
  <2>1. r[13] = Not16(cksum_fold[IpSum(20 + n, id)]) /\ r[10] = id
    BY <1>7, <1>28
  <2>2. \A i \in 1 .. 20 : i # 10 /\ i # 13 => r[i] = w[i]
    BY <1>28
  <2>3. /\ r[1] = w[1] /\ r[2] = w[2] /\ r[3] = w[3] /\ r[4] = w[4] /\ r[5] = w[5]
        /\ r[6] = w[6] /\ r[7] = w[7] /\ r[8] = w[8] /\ r[9] = w[9] /\ r[11] = w[11]
        /\ r[12] = w[12] /\ r[14] = w[14] /\ r[15] = w[15] /\ r[16] = w[16]
        /\ r[17] = w[17] /\ r[18] = w[18] /\ r[19] = w[19] /\ r[20] = w[20]
    BY <2>2
  <2>4. Header(w, p, 4096, n)
    BY <1>9
  <2> QED
    BY <2>1, <2>3, <2>4 DEF Header
<1>30. FrameOK([words |-> r, len |-> tot])
  <2>1. r \in Seq(Word16) /\ Len(r) = Len(w) /\ tot \in Nat
    BY <1>5, <1>23
  <2>2. CASE tot = 2 * Len(w)
    <3>1. tot = 2 * Len(r)
      BY <2>1, <2>2
    <3> QED
      BY <2>1, <3>1, MakeFrame
  <2>3. CASE tot # 2 * Len(w)
    <3>1. tot = 2 * Len(r) - 1 /\ w[Len(w)] % 256 = 0
      BY <1>10, <1>11, <2>1, <2>3
    <3>2. r[Len(r)] % 256 = 0
      <4>1. CASE Len(w) >= 26
        <5>1. Len(w) \in 26 .. Len(w)
          BY <1>9, <4>1
        <5> QED
          BY <1>25, <2>1, <3>1, <5>1
      <4>2. CASE Len(w) = 25
        <5>1. len = 7
          BY <1>5, <1>11, <2>3, <4>2, SMT DEF PayloadLen
        <5> QED
          BY <5>1, SMT DEF PayloadLen
      <4>3. Len(w) >= 26 \/ Len(w) = 25
        <5> DEFINE k == Len(w)
        <5>1. k \in Nat /\ k >= 25
          BY <1>3, <1>9
        <5> HIDE DEF k
        <5>2. k >= 26 \/ k = 25
          BY <5>1
        <5> QED
          BY <5>2 DEF k
      <4> QED
        BY <4>1, <4>2, <4>3
    <3> QED
      BY <2>1, <3>1, <3>2, MakeFrame
  <2> QED
    BY <2>2, <2>3
<1>31. Sized([words |-> r, len |-> tot], n)
  BY <1>5, <1>30 DEF Sized
<1>32. Carries([words |-> r, len |-> tot], p, id, n)
  BY <1>29, <1>31 DEF Carries
<1>33. Generated([words |-> r, len |-> tot], p, len, id, seq)
  <2> DEFINE f == [words |-> r, len |-> tot]
  <2>1. f.words = r /\ f.len = tot
    OBVIOUS
  <2> HIDE DEF f
  <2>2. Carries(f, p, id, 8 + len) /\ f.len = 42 + len
    BY <1>5, <1>32, <2>1 DEF f
  <2>3. Len(f.words) = Len(w) /\ Len(f.words) >= 25
    BY <1>3, <1>23, <2>1
  <2>4. f.words[21] = b
    BY <1>28, <2>1
  <2>5. \A i \in 1 .. 4 : f.words[21 + i] = seq[i]
    BY <1>27, <2>1
  <2>6. \A i \in 26 .. Len(f.words) : f.words[i] = w[i]
    BY <1>25, <2>1, <2>3
  <2>7. Generated(f, p, len, id, seq)
    BY <2>2, <2>3, <2>4, <2>5, <2>6 DEF Generated, b, w
  <2> QED
    BY <2>7 DEF f
<1> QED
  BY <1>4, <1>33

\* The carries of an addition word by word, and the number that four words are
Carry(x, y) == (x + y) \div 65536

SeqValue(seq) == 65536 * (65536 * (65536 * seq[1] + seq[2]) + seq[3]) + seq[4]

LEMMA PlusIs ==
    ASSUME NEW seq, FourWords(seq), NEW n, \A i \in 1 .. 4 : n[i] \in Word16
    PROVE  LET s(w) == seq[w] + n[w]
               c4   == Carry(s(4), 0)
               c3   == Carry(s(3), c4)
               c2   == Carry(s(2), c3)
           IN  /\ Plus(seq, n)[4] = (s(4) + 0) % 65536 /\ Plus(seq, n)[3] = (s(3) + c4) % 65536
               /\ Plus(seq, n)[2] = (s(2) + c3) % 65536 /\ Plus(seq, n)[1] = (s(1) + c2) % 65536
               /\ FourWords(Plus(seq, n))
<1> DEFINE s(w) == seq[w] + n[w]
           c4 == Carry(s(4), 0)
           c3 == Carry(s(3), c4)
           c2 == Carry(s(2), c3)
           c1 == Carry(s(1), c2)
           Rec(f) == [w \in 1 .. 5 |-> IF w = 5 THEN 0 ELSE Carry(s(w), f[w + 1])]
           e == [w \in 1 .. 5 |-> IF w = 1 THEN c1 ELSE IF w = 2 THEN c2 ELSE IF w = 3 THEN c3
                                  ELSE IF w = 4 THEN c4 ELSE 0]
           h == CHOOSE f : f = Rec(f)
           x == [w \in 1 .. 4 |-> (s(w) + h[w + 1]) % 65536]
<1>1. Plus(seq, n) = x
  BY DEF Plus, Carry
<1>2. s(1) \in Nat /\ s(2) \in Nat /\ s(3) \in Nat /\ s(4) \in Nat
  BY FourParts DEF Word16
<1> HIDE DEF s
<1>3. c4 \in Nat
  BY <1>2 DEF Carry
<1>4. c3 \in Nat
  <2> HIDE DEF c4
  <2> QED
    BY <1>2, <1>3 DEF Carry
<1>5. c2 \in Nat
  <2> HIDE DEF c3
  <2> QED
    BY <1>2, <1>4 DEF Carry
<1>6. e[5] = 0 /\ e[4] = c4 /\ e[3] = c3 /\ e[2] = c2 /\ e[1] = c1
  <2> HIDE DEF c1, c2, c3, c4
  <2> QED
    OBVIOUS
<1>7. e = [w \in 1 .. 5 |-> e[w]]
  <2> HIDE DEF c1, c2, c3, c4
  <2> QED
    OBVIOUS
<1> HIDE DEF e
<1>8. e[4] = Carry(s(4), e[5]) /\ e[3] = Carry(s(3), e[4]) /\ e[2] = Carry(s(2), e[3])
      /\ e[1] = Carry(s(1), e[2])
  BY <1>6
<1>9. e = Rec(e)
  <2>1. ASSUME NEW w \in 1 .. 5 PROVE e[w] = IF w = 5 THEN 0 ELSE Carry(s(w), e[w + 1])
    <3>1. w = 1 \/ w = 2 \/ w = 3 \/ w = 4 \/ w = 5
      OBVIOUS
    <3>2. 4 + 1 = 5 /\ 3 + 1 = 4 /\ 2 + 1 = 3 /\ 1 + 1 = 2
      OBVIOUS
    <3> HIDE DEF c1, c2, c3, c4
    <3> QED
      BY <1>6, <1>8, <3>1, <3>2
  <2> QED
    BY <1>7, <2>1
<1>10. h = Rec(h)
  BY <1>9
<1> HIDE DEF h
<1>11. h[5] = 0 /\ h[4] = Carry(s(4), h[5]) /\ h[3] = Carry(s(3), h[4])
       /\ h[2] = Carry(s(2), h[3])
  <2>1. 4 + 1 = 5 /\ 3 + 1 = 4 /\ 2 + 1 = 3
    OBVIOUS
  <2> QED
    BY <1>10, <2>1
<1>12. h[4] = c4 /\ h[3] = c3 /\ h[2] = c2
  BY <1>11
<1> HIDE DEF c1, c2, c3, c4
<1>13. x[4] = (s(4) + 0) % 65536 /\ x[3] = (s(3) + c4) % 65536 /\ x[2] = (s(2) + c3) % 65536
       /\ x[1] = (s(1) + c2) % 65536
  BY <1>11, <1>12
<1>14. x[1] \in Word16 /\ x[2] \in Word16 /\ x[3] \in Word16 /\ x[4] \in Word16
  <2> HIDE DEF x
  <2> QED
    BY <1>2, <1>3, <1>4, <1>5, <1>13, SMT DEF Word16
<1>15. x = <<x[1], x[2], x[3], x[4]>>
  OBVIOUS
<1> HIDE DEF x
<1>16. FourWords(x)
  <2> DEFINE x1 == x[1]
             x2 == x[2]
             x3 == x[3]
             x4 == x[4]
  <2>1. x1 \in Word16 /\ x2 \in Word16 /\ x3 \in Word16 /\ x4 \in Word16 /\ x = <<x1, x2, x3, x4>>
    BY <1>14, <1>15
  <2> HIDE DEF x1, x2, x3, x4
  <2> QED
    BY <2>1 DEF FourWords
<1> QED
  BY <1>1, <1>13, <1>16 DEF s, c2, c3, c4

(* One more frame makes the number larger by at most one.                   *)
LEMMA PlusOne ==
    ASSUME NEW seq, FourWords(seq)
    PROVE  /\ FourWords(Plus(seq, <<0, 0, 0, 1>>))
           /\ SeqValue(Plus(seq, <<0, 0, 0, 1>>)) <= SeqValue(seq) + 1
<1> DEFINE n == <<0, 0, 0, 1>>
           x == Plus(seq, n)
           c4 == Carry(seq[4] + 1, 0)
           c3 == Carry(seq[3] + 0, c4)
           c2 == Carry(seq[2] + 0, c3)
<1>1. \A i \in 1 .. 4 : n[i] \in Word16
  BY DEF Word16
<1>2. n[1] = 0 /\ n[2] = 0 /\ n[3] = 0 /\ n[4] = 1
  OBVIOUS
<1> HIDE DEF n
<1>3. /\ x[4] = ((seq[4] + 1) + 0) % 65536 /\ x[3] = ((seq[3] + 0) + c4) % 65536
      /\ x[2] = ((seq[2] + 0) + c3) % 65536 /\ x[1] = ((seq[1] + 0) + c2) % 65536
      /\ FourWords(x)
  BY <1>1, <1>2, PlusIs
<1>4. seq[1] \in Nat /\ seq[2] \in Nat /\ seq[3] \in Nat /\ seq[4] \in Nat
  BY FourParts DEF Word16
<1> DEFINE q1 == seq[1]
           q2 == seq[2]
           q3 == seq[3]
           q4 == seq[4]
<1>5. /\ c4 = (q4 + 1) \div 65536 /\ c3 = (q3 + c4) \div 65536 /\ c2 = (q2 + c3) \div 65536
      /\ c4 \in Nat /\ c3 \in Nat /\ c2 \in Nat
  <2>1. c4 = (q4 + 1) \div 65536 /\ c4 \in Nat
    BY <1>4 DEF Carry
  <2> HIDE DEF c4
  <2>2. c3 = (q3 + c4) \div 65536 /\ c3 \in Nat
    BY <1>4, <2>1 DEF Carry
  <2> HIDE DEF c3
  <2>3. c2 = (q2 + c3) \div 65536 /\ c2 \in Nat
    BY <1>4, <2>2 DEF Carry
  <2> QED
    BY <2>1, <2>2, <2>3
<1> HIDE DEF x, c4, c3, c2
<1>6. /\ x[4] = (q4 + 1) % 65536 /\ x[3] = (q3 + c4) % 65536 /\ x[2] = (q2 + c3) % 65536
      /\ x[1] = (q1 + c2) % 65536
  BY <1>3, <1>4, <1>5
<1>7. q1 \in Nat /\ q2 \in Nat /\ q3 \in Nat /\ q4 \in Nat
  BY <1>4
<1> HIDE DEF q1, q2, q3, q4
<1>8. x[4] = (q4 + 1) - 65536 * c4
  BY <1>5, <1>6, <1>7
<1>9. x[3] = (q3 + c4) - 65536 * c3
  BY <1>5, <1>6, <1>7
<1>10. x[2] = (q2 + c3) - 65536 * c2
  BY <1>5, <1>6, <1>7
<1>11. x[1] <= q1 + c2 /\ x[1] \in Nat
  BY <1>5, <1>6, <1>7
<1>12. 65536 * (65536 * (65536 * x[1] + x[2]) + x[3]) + x[4]
         <= 65536 * (65536 * (65536 * q1 + q2) + q3) + q4 + 1
  <2> DEFINE y == x[1]
  <2> HIDE DEF y
  <2>1. y <= q1 + c2 /\ y \in Nat
    BY <1>11 DEF y
  <2>2. 65536 * (65536 * (65536 * y + ((q2 + c3) - 65536 * c2)) + ((q3 + c4) - 65536 * c3))
           + ((q4 + 1) - 65536 * c4)
         <= 65536 * (65536 * (65536 * q1 + q2) + q3) + q4 + 1
    BY <1>5, <1>7, <2>1
  <2> QED
    BY <1>8, <1>9, <1>10, <2>2 DEF y
<1> QED
  BY <1>3, <1>12 DEF SeqValue, x, n, q1, q2, q3, q4

(* Calls from the first sequence number on.                                 *)
LEMMA PlusZero ==
    ASSUME NEW n, \A i \in 1 .. 4 : n[i] \in Word16
    PROVE  /\ FourWords(Plus(<<0, 0, 0, 0>>, n))
           /\ \A i \in 1 .. 4 : Plus(<<0, 0, 0, 0>>, n)[i] = n[i]
<1> DEFINE z == <<0, 0, 0, 0>>
           x == Plus(z, n)
<1>1. FourWords(z) /\ z[1] = 0 /\ z[2] = 0 /\ z[3] = 0 /\ z[4] = 0
  BY DEF FourWords, Word16
<1> HIDE DEF z
<1>2. /\ x[4] = ((z[4] + n[4]) + 0) % 65536
      /\ x[3] = ((z[3] + n[3]) + Carry(z[4] + n[4], 0)) % 65536
      /\ x[2] = ((z[2] + n[2]) + Carry(z[3] + n[3], Carry(z[4] + n[4], 0))) % 65536
      /\ x[1] = ((z[1] + n[1]) + Carry(z[2] + n[2], Carry(z[3] + n[3], Carry(z[4] + n[4], 0)))) % 65536
      /\ FourWords(x)
  BY <1>1, PlusIs
<1> HIDE DEF x
<1>3. n[1] \in Word16 /\ n[2] \in Word16 /\ n[3] \in Word16 /\ n[4] \in Word16
  OBVIOUS
<1>4. ASSUME NEW a \in Word16
      PROVE  0 + a = a /\ Carry(a, 0) = 0 /\ (a + 0) % 65536 = a
  BY DEF Carry, Word16
<1>5. z[1] + n[1] = n[1] /\ z[2] + n[2] = n[2] /\ z[3] + n[3] = n[3] /\ z[4] + n[4] = n[4]
  BY <1>1, <1>3, <1>4
<1>6. x[1] = n[1] /\ x[2] = n[2] /\ x[3] = n[3] /\ x[4] = n[4]
  BY <1>2, <1>3, <1>4, <1>5
<1>7. \A i \in 1 .. 4 : x[i] = n[i]
  BY <1>6
<1> QED
  BY <1>2, <1>7 DEF x, z

-----------------------------------------------------------------------------
(* ARP, and the datagram with an option.                                    *)

Words(x, n) == x \in Seq(Word16) /\ Len(x) = n

(* A part of a sequence is known from its elements.                         *)
LEMMA PartEqual ==
    ASSUME NEW s \in Seq(Word16), NEW m \in Nat, NEW n \in Nat, m >= 1, n <= Len(s), m <= n + 1,
           NEW x \in Seq(Word16), Len(x) = (n + 1) - m,
           \A i \in 1 .. (n + 1) - m : s[(m + i) - 1] = x[i]
    PROVE  SubSeq(s, m, n) = x
<1> DEFINE y == SubSeq(s, m, n)
<1>1. PartOf(y, s, m, n)
  BY Part, Zenon
<1> HIDE DEF y
<1>2. y \in Seq(Word16) /\ Len(y) = Len(x) /\ \A i \in 1 .. Len(x) : y[i] = x[i]
  BY <1>1 DEF PartOf
<1>3. y = x
  BY <1>2, SeqEqual
<1> QED
  BY <1>3 DEF y

\* x is the three words, or the two, from word m of s on
Triple(s, m, k, n, x) ==
    /\ s \in Seq(Word16) /\ m \in Nat /\ m >= 1 /\ k = m + 1 /\ n = m + 2 /\ n <= Len(s)
    /\ x \in Seq(Word16) /\ Len(x) = 3 /\ s[m] = x[1] /\ s[k] = x[2] /\ s[n] = x[3]

Pair(s, m, n, x) ==
    /\ s \in Seq(Word16) /\ m \in Nat /\ m >= 1 /\ n = m + 1 /\ n <= Len(s)
    /\ x \in Seq(Word16) /\ Len(x) = 2 /\ s[m] = x[1] /\ s[n] = x[2]

LEMMA ThreeWords ==
    ASSUME NEW s, NEW m, NEW k, NEW n, NEW x, Triple(s, m, k, n, x)
    PROVE  SubSeq(s, m, n) = x
<1>1. /\ s \in Seq(Word16) /\ m \in Nat /\ m >= 1 /\ k = m + 1 /\ n = m + 2 /\ n <= Len(s)
      /\ x \in Seq(Word16) /\ Len(x) = 3 /\ s[m] = x[1] /\ s[k] = x[2] /\ s[n] = x[3]
  BY DEF Triple
<1>2. (n + 1) - m = 3 /\ m <= n + 1 /\ n \in Nat
  BY <1>1
<1>3. ASSUME NEW i \in 1 .. (n + 1) - m PROVE s[(m + i) - 1] = x[i]
  <2>1. i \in 1 .. 3
    BY <1>2
  <2>2. i = 1 \/ i = 2 \/ i = 3
    BY <2>1
  <2>3. (m + 1) - 1 = m /\ (m + 2) - 1 = k /\ (m + 3) - 1 = n
    BY <1>1
  <2> QED
    BY <1>1, <2>2, <2>3
<1> QED
  BY <1>1, <1>2, <1>3, PartEqual

LEMMA TwoWords ==
    ASSUME NEW s, NEW m, NEW n, NEW x, Pair(s, m, n, x)
    PROVE  SubSeq(s, m, n) = x
<1>1. /\ s \in Seq(Word16) /\ m \in Nat /\ m >= 1 /\ n = m + 1 /\ n <= Len(s)
      /\ x \in Seq(Word16) /\ Len(x) = 2 /\ s[m] = x[1] /\ s[n] = x[2]
  BY DEF Pair
<1>2. (n + 1) - m = 2 /\ m <= n + 1 /\ n \in Nat
  BY <1>1
<1>3. ASSUME NEW i \in 1 .. (n + 1) - m PROVE s[(m + i) - 1] = x[i]
  <2>1. i \in 1 .. 2
    BY <1>2
  <2>2. i = 1 \/ i = 2
    BY <2>1
  <2>3. (m + 1) - 1 = m /\ (m + 2) - 1 = n
    BY <1>1
  <2> QED
    BY <1>1, <2>2, <2>3
<1> QED
  BY <1>1, <1>2, <1>3, PartEqual

\* g is an ARP packet
ArpWords(g, dm, sm, sip, oper, tm, tip) ==
    /\ FrameOK(g) /\ g.len = 42 /\ Len(g.words) = 21
    /\ g.words[1] = dm[1] /\ g.words[2] = dm[2] /\ g.words[3] = dm[3]
    /\ g.words[7] = 2054 /\ g.words[8] = 1 /\ g.words[9] = 2048 /\ g.words[10] = 1540
    /\ g.words[11] = oper
    /\ g.words[12] = sm[1] /\ g.words[13] = sm[2] /\ g.words[14] = sm[3]
    /\ g.words[15] = sip[1] /\ g.words[16] = sip[2]
    /\ g.words[17] = tm[1] /\ g.words[18] = tm[2] /\ g.words[19] = tm[3]
    /\ g.words[20] = tip[1] /\ g.words[21] = tip[2]

LEMMA ArpBuilt ==
    ASSUME NEW c \in Nat, NEW dm, Words(dm, 3), NEW sm, Words(sm, 3), NEW sip, Words(sip, 2),
           NEW oper \in Word16, NEW tm, Words(tm, 3), NEW tip, Words(tip, 2),
           arp_build(c, dm, sm, sip, oper, tm, tip).len >= 0
    PROVE  /\ ArpWords(arp_build(c, dm, sm, sip, oper, tm, tip), dm, sm, sip, oper, tm, tip)
           /\ 42 <= c
<1> DEFINE v == <<2054, 1, 2048, 1540, oper>>
           m1 == dm \o sm
           m2 == m1 \o v
           m3 == m2 \o sm
           m4 == m3 \o sip
           m5 == m4 \o tm
           m6 == m5 \o tip
<1>1. 42 <= c /\ arp_build(c, dm, sm, sip, oper, tm, tip) = [words |-> m6, len |-> 42]
  <2> DEFINE g == [words |-> m6, len |-> 42]
  <2>1. arp_build(c, dm, sm, sip, oper, tm, tip) = IF c < 42 THEN Error ELSE g
    BY DEF arp_build, ARP_FRAME_LEN
  <2> HIDE DEF g
  <2>2. ~(Error.len >= 0)
    BY DEF Error
  <2> QED
    BY <2>1, <2>2 DEF g
<1>2. v \in Seq(Word16) /\ Len(v) = 5 /\ v[1] = 2054 /\ v[2] = 1 /\ v[3] = 2048 /\ v[4] = 1540
      /\ v[5] = oper
  BY DEF Word16
<1>3. /\ dm \in Seq(Word16) /\ sm \in Seq(Word16) /\ sip \in Seq(Word16) /\ tm \in Seq(Word16)
      /\ tip \in Seq(Word16) /\ v \in Seq(Word16)
  BY <1>2 DEF Words
<1>4. Len(dm) = 3 /\ Len(sm) = 3 /\ Len(sip) = 2 /\ Len(tm) = 3 /\ Len(tip) = 2
  BY DEF Words
<1> HIDE DEF v
<1>5. Joins(m1, dm, sm)
  BY <1>3, Cat, Zenon
<1> HIDE DEF m1
<1>6. Joins(m2, m1, v)
  BY <1>3, <1>5, Chain, Zenon
<1> HIDE DEF m2
<1>7. Joins(m3, m2, sm)
  BY <1>3, <1>6, Chain, Zenon
<1> HIDE DEF m3
<1>8. Joins(m4, m3, sip)
  BY <1>3, <1>7, Chain, Zenon
<1> HIDE DEF m4
<1>9. Joins(m5, m4, tm)
  BY <1>3, <1>8, Chain, Zenon
<1> HIDE DEF m5
<1>10. Joins(m6, m5, tip)
  BY <1>3, <1>9, Chain, Zenon
<1> HIDE DEF m6
<1>11. Len(m1) = 6 /\ m1[1] = dm[1] /\ m1[2] = dm[2] /\ m1[3] = dm[3]
  BY <1>4, <1>5 DEF Joins
<1>12. /\ Len(m2) = 11 /\ (\A i \in 1 .. 3 : m2[i] = m1[i])
       /\ m2[7] = v[1] /\ m2[8] = v[2] /\ m2[9] = v[3] /\ m2[10] = v[4] /\ m2[11] = v[5]
  BY <1>2, <1>6, <1>11 DEF Joins
<1>13. /\ Len(m3) = 14 /\ (\A i \in 1 .. 11 : m3[i] = m2[i])
       /\ m3[12] = sm[1] /\ m3[13] = sm[2] /\ m3[14] = sm[3]
  BY <1>4, <1>7, <1>12 DEF Joins
<1>14. /\ Len(m4) = 16 /\ (\A i \in 1 .. 14 : m4[i] = m3[i])
       /\ m4[15] = sip[1] /\ m4[16] = sip[2]
  BY <1>4, <1>8, <1>13 DEF Joins
<1>15. /\ Len(m5) = 19 /\ (\A i \in 1 .. 16 : m5[i] = m4[i])
       /\ m5[17] = tm[1] /\ m5[18] = tm[2] /\ m5[19] = tm[3]
  BY <1>4, <1>9, <1>14 DEF Joins
<1>16. /\ m6 \in Seq(Word16) /\ Len(m6) = 21 /\ (\A i \in 1 .. 19 : m6[i] = m5[i])
       /\ m6[20] = tip[1] /\ m6[21] = tip[2]
  BY <1>4, <1>10, <1>15 DEF Joins
<1>17. m6[1] = dm[1] /\ m6[2] = dm[2] /\ m6[3] = dm[3]
  BY <1>11, <1>12, <1>13, <1>14, <1>15, <1>16, SMTT(40)
<1>18. m6[7] = 2054 /\ m6[8] = 1 /\ m6[9] = 2048 /\ m6[10] = 1540 /\ m6[11] = oper
  BY <1>2, <1>12, <1>13, <1>14, <1>15, <1>16
<1>19. m6[12] = sm[1] /\ m6[13] = sm[2] /\ m6[14] = sm[3]
  BY <1>13, <1>14, <1>15, <1>16, SMTT(40)
<1>22. m6[15] = sip[1] /\ m6[16] = sip[2]
  BY <1>14, <1>15, <1>16, SMTT(40)
<1>23. m6[17] = tm[1] /\ m6[18] = tm[2] /\ m6[19] = tm[3]
  BY <1>15, <1>16, SMTT(40)
<1>20. FrameOK([words |-> m6, len |-> 42])
  <2>1. m6 \in Seq(Word16) /\ 42 \in Nat /\ 42 = 2 * Len(m6)
    BY <1>16
  <2> QED
    BY <2>1, MakeFrame
<1>21. ArpWords([words |-> m6, len |-> 42], dm, sm, sip, oper, tm, tip)
  <2> DEFINE g == [words |-> m6, len |-> 42]
  <2>1. g.words = m6 /\ g.len = 42 /\ FrameOK(g)
    BY <1>20
  <2> HIDE DEF g
  <2>2. ArpWords(g, dm, sm, sip, oper, tm, tip)
    BY <1>16, <1>17, <1>18, <1>19, <1>22, <1>23, <2>1 DEF ArpWords
  <2> QED
    BY <2>2 DEF g
<1> QED
  BY <1>1, <1>21

(* rewsr_arp_parse reads the addresses that were written.                   *)
LEMMA ArpRead ==
    ASSUME NEW g, NEW dm, Words(dm, 3), NEW sm, Words(sm, 3), NEW sip, Words(sip, 2),
           NEW oper \in Word16, NEW tm, Words(tm, 3), NEW tip, Words(tip, 2),
           ArpWords(g, dm, sm, sip, oper, tm, tip)
    PROVE  /\ arp_parse(g) = [rc |-> "OK", oper |-> oper, sender_mac |-> sm, sender_ip |-> sip,
                              target_mac |-> tm, target_ip |-> tip]
           /\ SubSeq(g.words, 1, 3) = dm
<1> DEFINE w == g.words
<1>1. /\ FrameOK(g) /\ g.len = 42 /\ Len(w) = 21 /\ w \in Seq(Word16)
  BY DEF ArpWords, FrameOK
<1>2. /\ w[1] = dm[1] /\ w[2] = dm[2] /\ w[3] = dm[3]
      /\ w[7] = 2054 /\ w[8] = 1 /\ w[9] = 2048 /\ w[10] = 1540 /\ w[11] = oper
      /\ w[12] = sm[1] /\ w[13] = sm[2] /\ w[14] = sm[3] /\ w[15] = sip[1] /\ w[16] = sip[2]
      /\ w[17] = tm[1] /\ w[18] = tm[2] /\ w[19] = tm[3] /\ w[20] = tip[1] /\ w[21] = tip[2]
  BY DEF ArpWords
<1>3. Word(g, 12) = 2054 /\ Word(g, 20) = oper
  BY <1>1, <1>2 DEF Word
<1> DEFINE v == <<1, 2048, 1540>>
<1>4. v \in Seq(Word16) /\ Len(v) = 3 /\ v[1] = 1 /\ v[2] = 2048 /\ v[3] = 1540
  BY DEF Word16
<1>5. /\ dm \in Seq(Word16) /\ Len(dm) = 3 /\ sm \in Seq(Word16) /\ Len(sm) = 3
      /\ tm \in Seq(Word16) /\ Len(tm) = 3 /\ sip \in Seq(Word16) /\ Len(sip) = 2
      /\ tip \in Seq(Word16) /\ Len(tip) = 2
  BY DEF Words
<1> HIDE DEF w, v
<1>6. /\ Triple(w, 1, 2, 3, dm) /\ Triple(w, 12, 13, 14, sm) /\ Triple(w, 17, 18, 19, tm)
      /\ Triple(w, 8, 9, 10, v)
  BY <1>1, <1>2, <1>4, <1>5, SMT DEF Triple
<1>7. Pair(w, 15, 16, sip) /\ Pair(w, 20, 21, tip)
  BY <1>1, <1>2, <1>5, SMT DEF Pair
<1>8. /\ SubSeq(w, 1, 3) = dm /\ SubSeq(w, 8, 10) = v /\ SubSeq(w, 12, 14) = sm
      /\ SubSeq(w, 17, 19) = tm
  BY <1>6, ThreeWords, Zenon
<1>9. SubSeq(w, 15, 16) = sip /\ SubSeq(w, 20, 21) = tip
  BY <1>7, TwoWords, Zenon
<1> DEFINE a == SubSeq(w, 1, 3)
           b == SubSeq(w, 8, 10)
           d == SubSeq(w, 12, 14)
           e == SubSeq(w, 15, 16)
           f == SubSeq(w, 17, 19)
           h == SubSeq(w, 20, 21)
<1>11. a = dm /\ b = v /\ d = sm /\ e = sip /\ f = tm /\ h = tip
  BY <1>8, <1>9, Zenon
<1>12. arp_parse(g) = IF g.len < 42 THEN [rc |-> "SHORT"]
                      ELSE IF Word(g, 12) # 2054 THEN [rc |-> "NOT_IPV4"]
                      ELSE IF b # v THEN [rc |-> "BAD_IHL"]
                      ELSE [rc |-> "OK", oper |-> Word(g, 20), sender_mac |-> d, sender_ip |-> e,
                            target_mac |-> f, target_ip |-> h]
  BY DEF arp_parse, ARP_FRAME_LEN, v, w
<1> HIDE DEF a, b, d, e, f, h
<1>13. arp_parse(g) = [rc |-> "OK", oper |-> oper, sender_mac |-> sm, sender_ip |-> sip,
                       target_mac |-> tm, target_ip |-> tip]
  BY <1>1, <1>3, <1>11, <1>12
<1> QED
  BY <1>11, <1>13 DEF a, w

\* The IPv4 header with an option that WithOptions makes of f's
IpOptions(f, check) ==
    <<17920, Word(f, 16) + 4>> \o SubSeq(f.words, 10, 12) \o <<check>>
        \o SubSeq(f.words, 14, 17) \o <<257, 257>>

LEMMA IpOptionsAre ==
    ASSUME NEW f, FrameOK(f), Len(f.words) >= 21, Word(f, 16) + 4 \in Word16, NEW c \in Word16
    PROVE  Words(IpOptions(f, c), 12) /\ IpOptions(f, c)[1] = 17920
<1> DEFINE w == f.words
           tl == Word(f, 16) + 4
           a == <<17920, tl>>
           b == SubSeq(w, 10, 12)
           d == <<c>>
           e == SubSeq(w, 14, 17)
           k == <<257, 257>>
           m1 == a \o b
           m2 == m1 \o d
           m3 == m2 \o e
           m4 == m3 \o k
<1>1. IpOptions(f, c) = m4
  BY DEF IpOptions
<1>2. w \in Seq(Word16) /\ Len(w) \in Nat /\ Len(w) >= 21
  BY FrameParts
<1>3. PartOf(b, w, 10, 12) /\ PartOf(e, w, 14, 17)
  <2> HIDE DEF w
  <2>1. 10 \in Nat /\ 12 \in Nat /\ 10 >= 1 /\ 12 <= Len(w) /\ 10 <= 12 + 1
    BY <1>2
  <2>2. 14 \in Nat /\ 17 \in Nat /\ 14 >= 1 /\ 17 <= Len(w) /\ 14 <= 17 + 1
    BY <1>2
  <2>3. w \in Seq(Word16)
    BY <1>2
  <2>4. PartOf(b, w, 10, 12)
    BY <2>1, <2>3, Part, Zenon
  <2>5. PartOf(e, w, 14, 17)
    BY <2>2, <2>3, Part, Zenon
  <2> QED
    BY <2>4, <2>5
<1> HIDE DEF w, b, e
<1>4. b \in Seq(Word16) /\ Len(b) = 3 /\ e \in Seq(Word16) /\ Len(e) = 4
  BY <1>3 DEF PartOf
<1>5. tl \in Word16
  OBVIOUS
<1> HIDE DEF tl
<1>6. a \in Seq(Word16) /\ Len(a) = 2 /\ a[1] = 17920
  BY <1>5 DEF Word16
<1>7. d \in Seq(Word16) /\ Len(d) = 1 /\ k \in Seq(Word16) /\ Len(k) = 2
  BY DEF Word16
<1>8. a \in Seq(Word16) /\ b \in Seq(Word16) /\ d \in Seq(Word16) /\ e \in Seq(Word16)
      /\ k \in Seq(Word16)
  BY <1>4, <1>6, <1>7
<1> HIDE DEF a, d, k
<1>9. Joins(m1, a, b)
  BY <1>8, Cat, Zenon
<1> HIDE DEF m1
<1>10. Joins(m2, m1, d)
  BY <1>8, <1>9, Chain, Zenon
<1> HIDE DEF m2
<1>11. Joins(m3, m2, e)
  BY <1>8, <1>10, Chain, Zenon
<1> HIDE DEF m3
<1>12. Joins(m4, m3, k)
  BY <1>8, <1>11, Chain, Zenon
<1> HIDE DEF m4
<1>13. Len(m1) = 5 /\ m1[1] = 17920
  BY <1>4, <1>6, <1>9 DEF Joins
<1>14. Len(m2) = 6 /\ m2[1] = 17920
  BY <1>7, <1>10, <1>13 DEF Joins
<1>15. Len(m3) = 10 /\ m3[1] = 17920
  BY <1>4, <1>11, <1>14 DEF Joins
<1>16. m4 \in Seq(Word16) /\ Len(m4) = 12 /\ m4[1] = 17920
  BY <1>7, <1>12, <1>15 DEF Joins
<1> QED
  BY <1>1, <1>16 DEF Words

\* g is f with an option word in its IPv4 header
Optioned(g, f) ==
    /\ FrameOK(g) /\ g.len = f.len + 4 /\ Len(g.words) = Len(f.words) + 2
    /\ g.words[7] = f.words[7] /\ g.words[8] = 17920
    /\ \A i \in 18 .. Len(f.words) : g.words[i + 2] = f.words[i]

LEMMA OptionsKeep ==
    ASSUME NEW f, FrameOK(f), Len(f.words) >= 21, Word(f, 16) + 4 \in Word16
    PROVE  Optioned(WithOptions(f), f)
<1> DEFINE w == f.words
           c == cksum(IpOptions(f, 0), 24)
           i == IpOptions(f, c)
           a == SubSeq(w, 1, 7)
           e == SubSeq(w, 18, Len(w))
           m == a \o i
           r == m \o e
<1>1. WithOptions(f) = [words |-> r, len |-> f.len + 4]
  <2>1. From(f, 34) = e
    <3> DEFINE k == 34 \div 2 + 1
    <3>1. k = 18
      OBVIOUS
    <3>2. From(f, 34) = SubSeq(w, k, Len(w))
      BY Zenon DEF From
    <3> HIDE DEF k
    <3> QED
      BY <3>1, <3>2, Zenon
  <2>2. WithOptions(f) = [words |-> (a \o i) \o From(f, 34), len |-> f.len + 4]
    BY DEF WithOptions, IpOptions
  <2> HIDE DEF a, i, e
  <2> QED
    BY <2>1, <2>2, Zenon
<1>2. c \in Word16
  <2> DEFINE z == IpOptions(f, 0)
             s == cksum_partial(z, 24, 0)
  <2>1. 0 \in Word16
    BY DEF Word16
  <2>2. z \in Seq(Word16) /\ Len(z) = 12
    BY <2>1, IpOptionsAre DEF Words
  <2> HIDE DEF z
  <2>3. \A j \in 1 .. 12 : z[j] \in Word16
    BY <2>2, ElementOfSeq
  <2>4. \A j \in 1 .. (24 + 1) \div 2 : z[j] \in Word16
    BY <2>3
  <2>5. s \in Nat
    BY <2>4, PartialTyped
  <2> HIDE DEF s
  <2>6. Not16(cksum_fold[s]) \in Word16
    BY <2>5, FoldCancels DEF Cancels
  <2> QED
    BY <2>6, Zenon DEF cksum, s, z
<1> HIDE DEF c
<1>3. i \in Seq(Word16) /\ Len(i) = 12 /\ i[1] = 17920
  BY <1>2, IpOptionsAre DEF Words
<1> HIDE DEF i
<1>4. /\ w \in Seq(Word16) /\ Len(w) \in Nat /\ Len(w) >= 21 /\ f.len \in Nat
      /\ (f.len = 2 * Len(w) \/ (f.len = 2 * Len(w) - 1 /\ w[Len(w)] % 256 = 0))
  BY FrameParts DEF FrameOK
<1> DEFINE n == Len(w)
           l == f.len
<1> HIDE DEF w
<1>5. PartOf(a, w, 1, 7)
  <2>1. w \in Seq(Word16) /\ 1 \in Nat /\ 7 \in Nat /\ 1 >= 1 /\ 7 <= Len(w) /\ 1 <= 7 + 1
    BY <1>4
  <2> QED
    BY <2>1, Part, Zenon
<1>6. PartOf(e, w, 18, n)
  <2>1. w \in Seq(Word16) /\ 18 \in Nat /\ n \in Nat /\ 18 >= 1 /\ n <= Len(w) /\ 18 <= n + 1
    BY <1>4
  <2> HIDE DEF n
  <2>2. PartOf(SubSeq(w, 18, n), w, 18, n)
    BY <2>1, Part, Zenon
  <2> QED
    BY <2>2 DEF n
<1> HIDE DEF a, e
<1>7. a \in Seq(Word16) /\ Len(a) = 7 /\ a[7] = w[7]
  BY <1>5 DEF PartOf
<1>8. n \in Nat /\ n >= 21 /\ n = Len(w)
  BY <1>4
<1>9. e \in Seq(Word16) /\ Len(e) = n - 17 /\ \A j \in 1 .. n - 17 : e[j] = w[17 + j]
  <2> HIDE DEF n
  <2>1. (n + 1) - 18 = n - 17
    BY <1>8
  <2>2. ASSUME NEW j \in 1 .. n - 17 PROVE e[j] = w[17 + j]
    <3>1. j \in 1 .. (n + 1) - 18 /\ (18 + j) - 1 = 17 + j
      BY <1>8
    <3> QED
      BY <1>6, <3>1 DEF PartOf
  <2> QED
    BY <1>6, <2>1, <2>2 DEF PartOf
<1> HIDE DEF n
<1>10. Joins(m, a, i)
  BY <1>3, <1>7, Cat
<1> HIDE DEF m
<1>11. Joins(r, m, e)
  <2>1. e \in Seq(Word16)
    BY <1>9
  <2> QED
    BY <1>10, <2>1, Chain, Zenon
<1> HIDE DEF r
<1>12. Len(m) = 19 /\ m[7] = w[7] /\ m[8] = 17920
  BY <1>3, <1>7, <1>10, SMTT(40) DEF Joins
<1>13. r \in Seq(Word16) /\ Len(r) = n + 2 /\ r[7] = w[7] /\ r[8] = 17920
  <2>1. r \in Seq(Word16) /\ Len(r) = n + 2
    BY <1>8, <1>9, <1>11, <1>12 DEF Joins
  <2>2. 7 \in 1 .. Len(m) + Len(e) /\ 8 \in 1 .. Len(m) + Len(e)
    BY <1>8, <1>9, <1>12
  <2>3. r[7] = m[7] /\ r[8] = m[8]
    BY <1>11, <1>12, <2>2 DEF Joins
  <2> QED
    BY <1>12, <2>1, <2>3
<1>14. ASSUME NEW j \in 18 .. n PROVE r[j + 2] = w[j]
  <2>1. j + 2 \in 1 .. Len(m) + Len(e) /\ ~(j + 2 <= Len(m)) /\ (j + 2) - Len(m) = j - 17
    BY <1>8, <1>9, <1>12
  <2>2. r[j + 2] = e[j - 17]
    BY <1>11, <2>1 DEF Joins
  <2>3. j - 17 \in 1 .. n - 17 /\ 17 + (j - 17) = j
    BY <1>8
  <2> QED
    BY <1>9, <2>2, <2>3
<1>15. l + 4 \in Nat /\ (l + 4 = 2 * Len(r) \/ (l + 4 = 2 * Len(r) - 1 /\ r[Len(r)] % 256 = 0))
  <2>1. l \in Nat /\ (l = 2 * n \/ (l = 2 * n - 1 /\ w[n] % 256 = 0))
    BY <1>4 DEF n
  <2> HIDE DEF l
  <2>2. r[n + 2] = w[n]
    <3>1. n \in 18 .. n
      BY <1>8
    <3> QED
      BY <1>14, <3>1
  <2>3. Len(r) = n + 2
    BY <1>13
  <2>4. l = 2 * n => l + 4 = 2 * (n + 2)
    BY <1>8, <2>1
  <2>5. l = 2 * n - 1 => l + 4 = 2 * (n + 2) - 1
    BY <1>8, <2>1
  <2>6. l + 4 \in Nat
    BY <2>1
  <2> QED
    BY <2>1, <2>2, <2>3, <2>4, <2>5, <2>6
<1> HIDE DEF l
<1>16. FrameOK([words |-> r, len |-> l + 4])
  <2> DEFINE k == l + 4
  <2>1. r \in Seq(Word16) /\ k \in Nat /\ (k = 2 * Len(r) \/ (k = 2 * Len(r) - 1 /\ r[Len(r)] % 256 = 0))
    BY <1>13, <1>15
  <2> HIDE DEF k
  <2>2. FrameOK([words |-> r, len |-> k])
    BY <2>1, MakeFrame
  <2> QED
    BY <2>2 DEF k
<1>17. Optioned([words |-> r, len |-> l + 4], f)
  <2> DEFINE g == [words |-> r, len |-> l + 4]
  <2>1. g.words = r /\ g.len = l + 4 /\ FrameOK(g)
    BY <1>16
  <2> HIDE DEF g
  <2>2. Len(g.words) = Len(w) + 2 /\ g.words[7] = w[7] /\ g.words[8] = 17920
    BY <1>8, <1>13, <2>1
  <2>3. \A j \in 18 .. Len(w) : g.words[j + 2] = w[j]
    BY <1>8, <1>14, <2>1
  <2>4. Optioned(g, f)
    BY <2>1, <2>2, <2>3 DEF Optioned, w, l
  <2> QED
    BY <2>4 DEF g
<1> QED
  BY <1>1, <1>17 DEF l

-----------------------------------------------------------------------------
(* What the senders put on the wire looks neither tagged nor tunnelled.     *)

Plain(f) == FrameOK(f) /\ ~vlan_readable(f) /\ vxlan_decap(f).rc # "OK"

LEMMA ArpPlain ==
    ASSUME NEW f, FrameOK(f), Word(f, 12) = 2054
    PROVE  Plain(f)
<1>1. vxlan_decap(f).rc # "OK"
  BY DecapKeeps
<1>2. ~vlan_readable(f)
  BY DEF vlan_readable, vlan_is_tagged
<1> QED
  BY <1>1, <1>2 DEF Plain

LEMMA ArpWordAt ==
    ASSUME NEW f, NEW dm, NEW sm, NEW sip, NEW oper, NEW tm, NEW tip,
           ArpWords(f, dm, sm, sip, oper, tm, tip)
    PROVE  FrameOK(f) /\ Word(f, 12) = 2054 /\ f.len = 42
<1>1. FrameOK(f) /\ f.len = 42 /\ Len(f.words) = 21 /\ f.words[7] = 2054
  BY DEF ArpWords
<1> QED
  BY <1>1 DEF Word

LEMMA TemplateFrame ==
    ASSUME NEW p \in Word16, NEW len, PayloadLen(len)
    PROVE  LET t == Template(p, len)
           IN  /\ FrameOK(t) /\ Len(t.words) \in Nat /\ Len(t.words) >= 25 /\ t.len = 42 + len
               /\ t.len >= 42 /\ Word(t, 16) + 4 \in Word16 /\ t.words[7] = 2048 /\ t.words[22] = 0
<1> DEFINE t == Template(p, len)
           y == Pattern(len)
<1>1. /\ Built(t, p, 4096, y, len) /\ Bytes(y, len) /\ Len(y) >= 4 /\ \A i \in 1 .. 4 : y[i] = 0
  BY TemplateIs
<1> HIDE DEF t, y
<1>2. FrameOK(t) /\ Header(t.words, p, 4096, 8 + len) /\ t.len = 42 + len /\ t.len \in Nat
      /\ Carries(t, p, 4096, 8 + len)
  BY <1>1, BuiltParts
<1>3. Len(t.words) = 21 + Len(y) /\ Len(y) \in Nat
  BY <1>1, BytesParts DEF Built
<1>4. t.words[22] = 0
  <2>1. \A i \in 1 .. Len(y) : t.words[21 + i] = y[i]
    BY <1>1 DEF Built
  <2>2. 1 \in 1 .. Len(y) /\ 21 + 1 = 22 /\ 1 \in 1 .. 4
    BY <1>1, <1>3
  <2>3. t.words[21 + 1] = y[1]
    BY <2>1, <2>2
  <2> QED
    BY <1>1, <2>2, <2>3
<1>5. Word(t, 16) = 20 + (8 + len)
  BY <1>2, CarriesWords
<1>6. Word(t, 16) + 4 \in Word16 /\ t.len >= 42
  <2>1. len \in Nat /\ len <= 2048
    BY SMT DEF PayloadLen
  <2> QED
    BY <1>2, <1>5, <2>1, SMT DEF Word16
<1>7. t.words[7] = 2048
  BY <1>2 DEF Header
<1> DEFINE n == Len(y)
<1>8. 21 + n \in Nat /\ 21 + n >= 25
  <2>1. n \in Nat /\ n >= 4
    BY <1>1, <1>3
  <2> HIDE DEF n
  <2> QED
    BY <2>1
<1> QED
  BY <1>2, <1>3, <1>4, <1>6, <1>7, <1>8 DEF t

(* A payload whose first word has no VXLAN flag is not a tunnel.            *)
LEMMA UdpPlain ==
    ASSUME NEW f, FrameOK(f), Word(f, 12) = 2048,
           (Word(f, 14 + ip_hlen(f) + 8) \div 2048) % 2 = 0
    PROVE  Plain(f)
<1>1. vxlan_decap(f).rc # "OK"
  <2>1. SUFFICES ASSUME vxlan_decap(f).rc = "OK" PROVE FALSE
    OBVIOUS
  <2>2. /\ parse_udp_ipv4(f).rc = "OK"
        /\ (Word(f, parse_udp_ipv4(f).payload) \div 2048) % 2 # 0
    BY <2>1, DecapKeeps
  <2>3. parse_udp_ipv4(f).payload = 14 + ip_hlen(f) + 8
    BY <2>2, ParseFacts
  <2> QED
    BY <2>2, <2>3
<1>2. ~vlan_readable(f)
  BY DEF vlan_readable, vlan_is_tagged
<1> QED
  BY <1>1, <1>2 DEF Plain

LEMMA PeerPlain ==
    ASSUME NEW p \in Word16, NEW len, PayloadLen(len)
    PROVE  Plain(WithOptions(Template(p, len))) /\ Word(WithOptions(Template(p, len)), 12) = 2048
<1> DEFINE t == Template(p, len)
           g == WithOptions(t)
<1>1. /\ FrameOK(t) /\ Len(t.words) \in Nat /\ Len(t.words) >= 25 /\ t.words[7] = 2048
      /\ Word(t, 16) + 4 \in Word16 /\ t.words[22] = 0
  BY TemplateFrame
<1> HIDE DEF t
<1>2. Optioned(g, t)
  BY <1>1, OptionsKeep
<1> HIDE DEF g
<1>3. FrameOK(g) /\ Len(g.words) = Len(t.words) + 2 /\ g.words[7] = 2048 /\ g.words[8] = 17920
  BY <1>1, <1>2 DEF Optioned
<1>4. g.words[24] = 0
  <2>1. 22 \in 18 .. Len(t.words) /\ 22 + 2 = 24
    BY <1>1
  <2>2. g.words[22 + 2] = t.words[22]
    BY <1>2, <2>1 DEF Optioned
  <2> QED
    BY <1>1, <2>1, <2>2
<1>5. Word(g, 12) = 2048 /\ Word(g, 14) = 17920 /\ Word(g, 46) = 0
  BY <1>1, <1>3, <1>4 DEF Word
<1>6. ip_hlen(g) = 24
  BY <1>5 DEF ip_hlen
<1>7. Word(g, 14 + ip_hlen(g) + 8) = 0
  BY <1>5, <1>6
<1>8. Plain(g)
  BY <1>3, <1>5, <1>7, UdpPlain
<1> QED
  BY <1>5, <1>8 DEF g, t

LEMMA GeneratedPlain ==
    ASSUME NEW f, NEW p, NEW len, NEW id, NEW seq, Generated(f, p, len, id, seq),
           seq[1] \in Nat, seq[1] < 2048
    PROVE  Plain(f)
<1>1. Carries(f, p, id, 8 + len) /\ Len(f.words) >= 25 /\ f.words[21 + 1] = seq[1]
  BY DEF Generated
<1>2. Word(f, 12) = 2048 /\ ip_hlen(f) = 20 /\ Len(f.words) \in Nat
  BY <1>1, CarriesWords
<1>3. FrameOK(f)
  BY <1>1 DEF Carries, Sized
<1>4. Word(f, 42) = seq[1]
  BY <1>1, <1>2 DEF Word
<1>5. Word(f, 14 + ip_hlen(f) + 8) = seq[1]
  BY <1>2, <1>4
<1>6. (seq[1] \div 2048) % 2 = 0
  <2> DEFINE x == seq[1]
  <2>1. x \in Nat /\ x < 2048
    OBVIOUS
  <2> HIDE DEF x
  <2>2. (x \div 2048) % 2 = 0
    BY <2>1
  <2> QED
    BY <2>2 DEF x
<1> QED
  BY <1>2, <1>3, <1>5, <1>6, UdpPlain

-----------------------------------------------------------------------------
(* The path.  Kept is what every action keeps, whatever the constants: the  *)
(* buffer holds a frame, the generator is one that rewsr_pktgen_init made   *)
(* and rewsr_pktgen_next advanced, what was sent is what its sender builds, *)
(* and what arrived went where the XDP program sends it.                    *)

\* Fewer frames than n have been generated since the last carry into the first word
Fresh(seq, n) == SeqValue(seq) < 65536 * 65536 * 65536 + n

GenIs(g, p, n, len, id, seq) ==
    /\ p \in Word16 /\ PayloadLen(len) /\ id \in Word16 /\ FourWords(seq) /\ Fresh(seq, n)
    /\ g = GenOf(p, len, id, seq)

GenOK(g, p, n) ==
    g = [tmpl |-> None] \/ \E len, id, seq : GenIs(g, p, n, len, id, seq)

IsGenerated(s, p) ==
    /\ s.kind = "generated" /\ p \in Word16
    /\ \E len, id, seq : /\ PayloadLen(len) /\ id \in Word16 /\ FourWords(seq) /\ Fresh(seq, s.n)
                         /\ s.what = [id |-> id, seq |-> seq]
                         /\ Generated(s.frame, p, len, id, seq)

IsPeers(s) == s.kind = "peer" /\ Plain(s.frame) /\ Word(s.frame, 12) = 2048

IsRequest(s) ==
    /\ s.kind = "request" /\ Words(s.what, 2)
    /\ ArpWords(s.frame, <<65535, 65535, 65535>>, Peer.mac, Peer.ip, 1, <<0, 0, 0>>, s.what)

ReplyTo(s, tm, tip) ==
    Words(tm, 3) /\ Words(tip, 2) /\ ArpWords(s.frame, tm, Host.mac, Host.ip, 2, tm, tip)

IsReply(s) == s.kind = "reply" /\ \E tm, tip : ReplyTo(s, tm, tip)

SentOK(s, p) ==
    \/ s.kind = "nothing"
    \/ IsGenerated(s, p) \/ IsPeers(s) \/ IsRequest(s) \/ IsReply(s)

ArrivedOK(a) ==
    \/ a.to = "nowhere"
    \/ a.to = "worker" /\ FrameOK(a.frame) /\ xdp_redirect(a.frame)
    \/ /\ a.to = "stack" /\ FrameOK(a.frame) /\ a.bound \in BOOLEAN
       /\ a.bound => ~xdp_redirect(a.frame)

Counted(n) == n \in Nat /\ n <= MaxFrames

Kept ==
    /\ cap \in Word16 /\ FrameOK(frame) /\ GenOK(gen, port, sent.n) /\ Counted(sent.n)
    /\ SentOK(sent, port) /\ ArrivedOK(arrived)
    /\ sent.kind = "generated" => gen.tmpl # None
    /\ sent.kind = "nothing" => frame = None

LEMMA NoFrame == FrameOK(None) /\ None.len = 0
<1>1. None \in [words : Seq(Word16), len : Nat] /\ None.len = 0 /\ None.words = <<>>
  BY DEF None
<1>2. Len(None.words) = 0
  BY <1>1
<1> QED
  BY <1>1, <1>2 DEF FrameOK

(* What was sent depends on the generator's port only if it was generated.  *)
LEMMA OtherPort ==
    ASSUME NEW s, NEW p, NEW q, SentOK(s, p), s.kind # "generated"
    PROVE  SentOK(s, q)
  BY DEF SentOK, IsGenerated

LEMMA GeneratorStarted ==
    ASSUME NEW g, NEW p, NEW n, NEW len, NEW id, NEW seq, GenIs(g, p, n, len, id, seq)
    PROVE  g.tmpl # None /\ g.tmpl = Template(p, len) /\ g.seq = seq /\ g.ip_id = id
           /\ g.udp_check_base \in Word16
<1>1. p \in Word16 /\ PayloadLen(len) /\ g = GenOf(p, len, id, seq)
  BY DEF GenIs
<1>2. /\ g.tmpl = Template(p, len) /\ g.seq = seq /\ g.ip_id = id
      /\ g.udp_check_base = Template(p, len).words[21]
  BY <1>1, GenFields
<1>3. Template(p, len).len >= 42
  BY <1>1, TemplateFrame
<1>4. Template(p, len).words[21] \in Word16
  <2>1. Template(p, len).words[21] = UdpCheck(p, len, Pattern(len)) /\ Bytes(Pattern(len), len)
    BY <1>1, TemplateIs DEF Built
  <2> QED
    BY <1>1, <2>1, UdpCheckIs
<1> QED
  BY <1>2, <1>3, <1>4, NoFrame

LEMMA KeptInit == Init => Kept
<1> SUFFICES ASSUME Init PROVE Kept
  OBVIOUS
<1>1. cap \in Word16
  <2>1. cap \in BufferSizes
    BY DEF Init
  <2>2. cap \in Nat /\ cap < 65536
    BY <2>1, PathAssumption
  <2> QED
    BY <2>2, SMT DEF Word16
<1>2. FrameOK(frame) /\ frame = None
  BY NoFrame DEF Init
<1>3. GenOK(gen, port, sent.n)
  BY DEF Init, GenOK
<1>4. Counted(sent.n) /\ sent.kind = "nothing"
  BY PathAssumption DEF Init, Counted
<1>5. ArrivedOK(arrived)
  BY DEF Init, ArrivedOK
<1> QED
  BY <1>1, <1>2, <1>3, <1>4, <1>5 DEF Kept, SentOK

LEMMA KeptPktgenInit ==
    ASSUME NEW dst_port \in DstPorts, NEW payload_len \in Payloads, Kept,
           PktgenInit(dst_port, payload_len)
    PROVE  Kept'
<1> DEFINE z == <<0, 0, 0, 0>>
<1>1. dst_port \in Word16
  <2>1. dst_port \in Nat /\ dst_port < 65536
    BY PathAssumption
  <2> QED
    BY <2>1, SMT DEF Word16
<1>2. PayloadLen(payload_len)
  BY SMT DEF PktgenInit, PayloadLen
<1>3. gen' = GenOf(dst_port, payload_len, 4096, z) /\ port' = dst_port
  BY <1>1, <1>2, GenInit DEF PktgenInit
<1>4. 4096 \in Word16 /\ FourWords(z) /\ z[1] = 0 /\ z[2] = 0 /\ z[3] = 0 /\ z[4] = 0
  BY DEF Word16, FourWords
<1> HIDE DEF z
<1>5. Counted(sent.n)
  BY DEF Kept
<1>6. Fresh(z, sent.n)
  BY <1>4, <1>5 DEF Fresh, SeqValue, Counted
<1>7. GenIs(gen', port', sent.n, payload_len, 4096, z)
  BY <1>1, <1>2, <1>3, <1>4, <1>6 DEF GenIs
<1>8. GenOK(gen', port', sent.n) /\ gen'.tmpl # None
  BY <1>7, GeneratorStarted DEF GenOK
<1>9. UNCHANGED <<cap, sent, frame, arrived>> /\ gen.tmpl = None
  BY DEF PktgenInit, wireVars
<1>10. sent.kind # "generated" /\ SentOK(sent, port)
  BY <1>9 DEF Kept
<1>11. SentOK(sent, port')
  BY <1>10, OtherPort
<1> QED
  BY <1>8, <1>9, <1>10, <1>11 DEF Kept

LEMMA KeptPktgenSkip ==
    ASSUME Kept, PktgenSkip
    PROVE  Kept'
<1>1. gen.tmpl # None /\ GenOK(gen, port, sent.n) /\ Counted(sent.n)
  BY DEF PktgenSkip, Kept
<1>2. PICK len, id, seq : GenIs(gen, port, sent.n, len, id, seq)
  BY <1>1 DEF GenOK
<1>3. gen.seq = seq /\ gen.udp_check_base \in Word16
  BY <1>2, GeneratorStarted
<1>4. seq = <<0, 0, 0, 0>>
  BY <1>3 DEF PktgenSkip
<1>5. PICK n \in {<<0, 65535, 65535, 65535>>, <<0, 0, 0, 61439>>,
                  <<0, 0, 0, gen.udp_check_base>>, <<0, 4789, 24, 27759>>} :
           gen' = pktgen_advance(gen, n)
  BY DEF PktgenSkip
<1>6. n[1] = 0 /\ n[2] \in Word16 /\ n[3] \in Word16 /\ n[4] \in Word16
  BY <1>3, <1>5, SMT DEF Word16
<1>7. \A i \in 1 .. 4 : n[i] \in Word16
  <2>1. n[1] \in Word16
    BY <1>6 DEF Word16
  <2> QED
    BY <1>6, <2>1
<1> DEFINE s == Plus(seq, n)
           j == (id + n[4]) % 65536
<1>8. FourWords(s) /\ \A i \in 1 .. 4 : s[i] = n[i]
  BY <1>4, <1>7, PlusZero
<1>9. port \in Word16 /\ PayloadLen(len) /\ id \in Word16 /\ gen = GenOf(port, len, id, seq)
  BY <1>2 DEF GenIs
<1>10. gen' = GenOf(port, len, j, s)
  BY <1>5, <1>9, GenStep
<1>11. j \in Word16
  BY <1>6, <1>9, SMT DEF Word16
<1> HIDE DEF s, j
<1>12. Fresh(s, sent.n)
  <2> DEFINE a == n[2]
             b == n[3]
             c == n[4]
  <2>1. s[1] = 0 /\ s[2] = a /\ s[3] = b /\ s[4] = c
    BY <1>6, <1>8
  <2>2. a \in Nat /\ a <= 65535 /\ b \in Nat /\ b <= 65535 /\ c \in Nat /\ c <= 65535
    BY <1>6 DEF Word16
  <2>3. sent.n \in Nat
    BY <1>1 DEF Counted
  <2> HIDE DEF a, b, c
  <2>4. 65536 * (65536 * (65536 * 0 + a) + b) + c < 65536 * 65536 * 65536 + sent.n
    BY <2>2, <2>3
  <2> QED
    BY <2>1, <2>4 DEF Fresh, SeqValue
<1>13. UNCHANGED <<port, cap, sent, frame, arrived>>
  BY DEF PktgenSkip, wireVars
<1>14. GenIs(gen', port', sent.n, len, j, s)
  BY <1>8, <1>9, <1>10, <1>11, <1>12, <1>13 DEF GenIs
<1>15. GenOK(gen', port', sent.n) /\ gen'.tmpl # None
  BY <1>14, GeneratorStarted DEF GenOK
<1> QED
  BY <1>13, <1>15 DEF Kept

LEMMA KeptPktgenNext ==
    ASSUME Kept, PktgenNext
    PROVE  Kept'
<1> DEFINE f == pktgen_frame(gen)
           m == sent.n + 1
<1>1. gen.tmpl # None /\ GenOK(gen, port, sent.n) /\ Counted(sent.n)
  BY DEF PktgenNext, Kept
<1>2. PICK len, id, seq : GenIs(gen, port, sent.n, len, id, seq)
  BY <1>1 DEF GenOK
<1>3. /\ port \in Word16 /\ PayloadLen(len) /\ id \in Word16 /\ FourWords(seq)
      /\ gen = GenOf(port, len, id, seq) /\ Fresh(seq, sent.n)
  BY <1>2 DEF GenIs
<1>4. gen.seq = seq /\ gen.ip_id = id
  BY <1>2, GeneratorStarted
<1>5. Generated(f, port, len, id, seq)
  BY <1>3, GenFrameIs
<1>6. FrameOK(f)
  BY <1>5 DEF Generated, Carries, Sized
<1> HIDE DEF f
<1>7. /\ sent' = [n |-> m, kind |-> "generated", frame |-> f, what |-> [id |-> gen.ip_id, seq |-> gen.seq]]
      /\ frame' = f /\ arrived' = [to |-> "nowhere"] /\ UNCHANGED <<cap, port>>
      /\ gen' = pktgen_advance(gen, <<0, 0, 0, 1>>) /\ sent.n < MaxFrames
  BY DEF PktgenNext, Put, MaySend, f
<1>8. m \in Nat /\ m <= MaxFrames /\ m = sent.n + 1
  BY <1>1, <1>7, PathAssumption DEF Counted
<1> HIDE DEF m
<1>9. /\ sent'.n = m /\ sent'.kind = "generated" /\ sent'.frame = f
      /\ sent'.what = [id |-> id, seq |-> seq]
  BY <1>4, <1>7
<1> DEFINE s == Plus(seq, <<0, 0, 0, 1>>)
           j == (id + 1) % 65536
<1>10. FourWords(s) /\ SeqValue(s) <= SeqValue(seq) + 1
  BY <1>3, PlusOne
<1>11. gen' = GenOf(port, len, j, s)
  <2> DEFINE n == <<0, 0, 0, 1>>
  <2>1. n[4] = 1
    OBVIOUS
  <2> HIDE DEF n
  <2>2. gen' = GenOf(port, len, (id + n[4]) % 65536, Plus(seq, n))
    BY <1>3, <1>7, GenStep DEF n
  <2> QED
    BY <2>1, <2>2 DEF n
<1>12. j \in Word16
  BY <1>3, SMT DEF Word16
<1>13. SeqValue(seq) \in Int /\ SeqValue(s) \in Int
  <2>1. /\ seq[1] \in Nat /\ seq[2] \in Nat /\ seq[3] \in Nat /\ seq[4] \in Nat
    BY <1>3, FourParts DEF Word16
  <2> HIDE DEF s
  <2>2. /\ s[1] \in Nat /\ s[2] \in Nat /\ s[3] \in Nat /\ s[4] \in Nat
    BY <1>10, FourParts DEF Word16
  <2> QED
    BY <2>1, <2>2 DEF SeqValue
<1> HIDE DEF s, j
<1>14. Fresh(s, m) /\ Fresh(seq, m)
  <2> DEFINE u == SeqValue(seq)
             v == SeqValue(s)
             l == sent.n
  <2>1. u \in Int /\ v \in Int /\ v <= u + 1 /\ l \in Nat /\ m = l + 1
    BY <1>1, <1>8, <1>10, <1>13 DEF Counted
  <2>2. u < 65536 * 65536 * 65536 + l
    BY <1>3 DEF Fresh
  <2> HIDE DEF u, v, l
  <2>3. v < 65536 * 65536 * 65536 + m /\ u < 65536 * 65536 * 65536 + m
    BY <2>1, <2>2
  <2> QED
    BY <2>3 DEF Fresh, u, v
<1>15. GenIs(gen', port', sent'.n, len, j, s)
  BY <1>3, <1>7, <1>9, <1>10, <1>11, <1>12, <1>14 DEF GenIs
<1>16. GenOK(gen', port', sent'.n) /\ gen'.tmpl # None
  BY <1>15, GeneratorStarted DEF GenOK
<1>17. IsGenerated(sent', port')
  BY <1>3, <1>5, <1>7, <1>9, <1>14 DEF IsGenerated
<1>18. cap' \in Word16 /\ FrameOK(frame') /\ ArrivedOK(arrived') /\ Counted(sent'.n)
  BY <1>6, <1>7, <1>8, <1>9 DEF Kept, ArrivedOK, Counted
<1> QED
  BY <1>9, <1>16, <1>17, <1>18 DEF Kept, SentOK

(* More frames do not make the generator's number too large.                *)
LEMMA GenLater ==
    ASSUME NEW g, NEW p, NEW n \in Nat, GenOK(g, p, n)
    PROVE  GenOK(g, p, n + 1)
<1>1. CASE g = [tmpl |-> None]
  BY <1>1 DEF GenOK
<1>2. CASE g # [tmpl |-> None]
  <2>1. PICK len, id, seq : GenIs(g, p, n, len, id, seq)
    BY <1>2 DEF GenOK
  <2>2. Fresh(seq, n) /\ FourWords(seq)
    BY <2>1 DEF GenIs
  <2>3. SeqValue(seq) \in Int
    <3>1. /\ seq[1] \in Nat /\ seq[2] \in Nat /\ seq[3] \in Nat /\ seq[4] \in Nat
      BY <2>2, FourParts DEF Word16
    <3> QED
      BY <3>1 DEF SeqValue
  <2>4. Fresh(seq, n + 1)
    BY <2>2, <2>3 DEF Fresh
  <2>5. GenIs(g, p, n + 1, len, id, seq)
    BY <2>1, <2>4 DEF GenIs
  <2> QED
    BY <2>5 DEF GenOK
<1> QED
  BY <1>1, <1>2

(* Another sender's frame in the buffer.                                    *)
LEMMA KeptPut ==
    ASSUME NEW f, NEW kind, NEW what, Kept, Put(f, kind, what), UNCHANGED genVars,
           sent.n < MaxFrames, FrameOK(f), kind # "generated", kind # "nothing",
           SentOK([n |-> sent.n + 1, kind |-> kind, frame |-> f, what |-> what], port)
    PROVE  Kept'
<1> DEFINE m == sent.n + 1
<1>1. /\ sent' = [n |-> m, kind |-> kind, frame |-> f, what |-> what]
      /\ frame' = f /\ arrived' = [to |-> "nowhere"] /\ UNCHANGED <<cap, gen, port>>
  BY DEF Put, genVars
<1>2. sent.n \in Nat /\ GenOK(gen, port, sent.n) /\ cap \in Word16
  BY DEF Kept, Counted
<1>3. GenOK(gen, port, m)
  BY <1>2, GenLater
<1>4. Counted(m)
  BY <1>2, PathAssumption DEF Counted
<1>5. SentOK(sent', port)
  BY <1>1
<1> HIDE DEF m
<1>6. sent'.n = m /\ sent'.kind = kind
  BY <1>1
<1>7. ArrivedOK(arrived')
  BY <1>1 DEF ArrivedOK
<1> QED
  BY <1>1, <1>2, <1>3, <1>4, <1>5, <1>6, <1>7 DEF Kept

LEMMA KeptPeerSends ==
    ASSUME Kept, PeerSends
    PROVE  Kept'
<1> DEFINE f == WithOptions(gen.tmpl)
           s == [n |-> sent.n + 1, kind |-> "peer", frame |-> f, what |-> <<>>]
<1>1. gen.tmpl # None /\ GenOK(gen, port, sent.n)
  BY DEF PeerSends, Kept
<1>2. PICK len, id, seq : GenIs(gen, port, sent.n, len, id, seq)
  BY <1>1 DEF GenOK
<1>3. port \in Word16 /\ PayloadLen(len) /\ gen.tmpl = Template(port, len)
  BY <1>2, GeneratorStarted DEF GenIs
<1>4. Plain(f) /\ Word(f, 12) = 2048
  BY <1>3, PeerPlain
<1>5. FrameOK(f)
  BY <1>4 DEF Plain
<1>6. Put(f, "peer", <<>>) /\ UNCHANGED genVars /\ sent.n < MaxFrames
  BY DEF PeerSends, MaySend
<1> HIDE DEF f
<1>7. SentOK(s, port)
  <2>1. s.kind = "peer" /\ s.frame = f
    OBVIOUS
  <2> HIDE DEF s
  <2> QED
    BY <1>4, <2>1 DEF SentOK, IsPeers
<1> QED
  BY <1>5, <1>6, <1>7, KeptPut

LEMMA Hosts ==
    /\ Words(Peer.mac, 3) /\ Words(Peer.ip, 2) /\ Words(Host.mac, 3) /\ Words(Host.ip, 2)
    /\ Words(<<65535, 65535, 65535>>, 3) /\ Words(<<0, 0, 0>>, 3)
    /\ 1 \in Word16 /\ 2 \in Word16
  BY SMT DEF Peer, Host, Words, Word16

LEMMA KeptArpRequest ==
    ASSUME NEW ip \in {Host.ip, Peer.ip}, Kept, ArpRequest(ip)
    PROVE  Kept'
<1> DEFINE f == arp_build_request(cap, Peer.mac, Peer.ip, ip)
           s == [n |-> sent.n + 1, kind |-> "request", frame |-> f, what |-> ip]
           bc == <<65535, 65535, 65535>>
           no == <<0, 0, 0>>
<1>1. Put(f, "request", ip) /\ UNCHANGED genVars /\ sent.n < MaxFrames
  BY DEF ArpRequest, MaySend
<1>2. f.len >= 0
  BY <1>1 DEF Put
<1>3. cap \in Nat /\ Words(ip, 2)
  BY Hosts DEF Kept, Word16
<1>4. f = arp_build(cap, bc, Peer.mac, Peer.ip, 1, no, ip)
  BY DEF arp_build_request
<1>5. Words(Peer.mac, 3) /\ Words(Peer.ip, 2) /\ Words(bc, 3) /\ Words(no, 3) /\ 1 \in Word16
  BY Hosts
<1> HIDE DEF f, bc, no
<1>6. ArpWords(f, bc, Peer.mac, Peer.ip, 1, no, ip)
  BY <1>2, <1>3, <1>4, <1>5, ArpBuilt
<1>7. FrameOK(f)
  BY <1>6, ArpWordAt
<1>8. SentOK(s, port)
  <2>1. s.kind = "request" /\ s.frame = f /\ s.what = ip
    OBVIOUS
  <2> HIDE DEF s
  <2> QED
    BY <1>3, <1>6, <2>1 DEF SentOK, IsRequest, bc, no
<1> QED
  BY <1>1, <1>7, <1>8, KeptPut

(* What rewsr_arp_is_request_for has found when it is true.                 *)
LEMMA Asked ==
    ASSUME NEW f, FrameOK(f), NEW ip, arp_is_request_for(f, ip)
    PROVE  /\ Word(f, 12) = 2054 /\ arp_parse(f).rc = "OK" /\ arp_parse(f).oper = 1
           /\ arp_parse(f).target_ip = ip
           /\ Words(arp_parse(f).sender_mac, 3) /\ Words(arp_parse(f).sender_ip, 2)
<1> DEFINE w == f.words
           d == SubSeq(w, 12, 14)
           e == SubSeq(w, 15, 16)
           b == SubSeq(w, 8, 10) # <<1, 2048, 1540>>
           o == [rc |-> "OK", oper |-> Word(f, 20), sender_mac |-> d, sender_ip |-> e,
                 target_mac |-> SubSeq(w, 17, 19), target_ip |-> SubSeq(w, 20, 21)]
<1>1. arp_parse(f).rc = "OK" /\ arp_parse(f).oper = 1 /\ arp_parse(f).target_ip = ip
  BY DEF arp_is_request_for
<1>2. arp_parse(f) = IF f.len < 42 THEN [rc |-> "SHORT"]
                     ELSE IF Word(f, 12) # 2054 THEN [rc |-> "NOT_IPV4"]
                     ELSE IF b THEN [rc |-> "BAD_IHL"] ELSE o
  BY DEF arp_parse, ARP_FRAME_LEN
<1>3. w \in Seq(Word16) /\ Len(w) \in Nat /\ f.len \in Nat
      /\ (f.len = 2 * Len(w) \/ f.len = 2 * Len(w) - 1)
  BY FrameParts
<1>4. o.sender_mac = d /\ o.sender_ip = e
  OBVIOUS
<1> HIDE DEF o, b
<1>5. ~(f.len < 42) /\ Word(f, 12) = 2054 /\ arp_parse(f) = o
  BY <1>1, <1>2
<1>6. Len(w) >= 21
  BY <1>3, <1>5
<1> HIDE DEF w
<1>7. PartOf(d, w, 12, 14)
  <2>1. w \in Seq(Word16) /\ 12 \in Nat /\ 14 \in Nat /\ 12 >= 1 /\ 14 <= Len(w) /\ 12 <= 14 + 1
    BY <1>3, <1>6
  <2> QED
    BY <2>1, Part, Zenon
<1>8. PartOf(e, w, 15, 16)
  <2>1. w \in Seq(Word16) /\ 15 \in Nat /\ 16 \in Nat /\ 15 >= 1 /\ 16 <= Len(w) /\ 15 <= 16 + 1
    BY <1>3, <1>6
  <2> QED
    BY <2>1, Part, Zenon
<1> HIDE DEF d, e
<1>9. Words(d, 3) /\ Words(e, 2)
  BY <1>7, <1>8 DEF PartOf, Words
<1> QED
  BY <1>1, <1>4, <1>5, <1>9

(* The host's answer.                                                       *)
LEMMA Replied ==
    ASSUME NEW f, FrameOK(f), NEW c \in Word16, arp_is_request_for(f, Host.ip),
           arp_build_reply(c, Host.mac, Host.ip, arp_parse(f).sender_mac, arp_parse(f).sender_ip).len
             >= 0
    PROVE  LET tm  == arp_parse(f).sender_mac
               tip == arp_parse(f).sender_ip
           IN  /\ Words(tm, 3) /\ Words(tip, 2)
               /\ ArpWords(arp_build_reply(c, Host.mac, Host.ip, tm, tip),
                           tm, Host.mac, Host.ip, 2, tm, tip)
<1> DEFINE tm == arp_parse(f).sender_mac
           tip == arp_parse(f).sender_ip
           g == arp_build_reply(c, Host.mac, Host.ip, tm, tip)
<1>1. Words(tm, 3) /\ Words(tip, 2)
  BY Asked
<1>2. g = arp_build(c, tm, Host.mac, Host.ip, 2, tm, tip) /\ g.len >= 0
  BY DEF arp_build_reply
<1> HIDE DEF tm, tip, g
<1>3. Words(Host.mac, 3) /\ Words(Host.ip, 2) /\ 2 \in Word16 /\ c \in Nat
  BY Hosts DEF Word16
<1>4. ArpWords(g, tm, Host.mac, Host.ip, 2, tm, tip)
  BY <1>1, <1>2, <1>3, ArpBuilt
<1> QED
  BY <1>1, <1>4 DEF tm, tip, g

LEMMA KeptArpReply ==
    ASSUME Kept, ArpReply
    PROVE  Kept'
<1> DEFINE tm == arp_parse(frame).sender_mac
           tip == arp_parse(frame).sender_ip
           f == arp_build_reply(cap, Host.mac, Host.ip, tm, tip)
           what == [asked |-> sent.what, intact |-> ~flipped]
           s == [n |-> sent.n + 1, kind |-> "reply", frame |-> f, what |-> what]
<1>1. /\ Put(f, "reply", what) /\ UNCHANGED genVars /\ sent.n < MaxFrames
      /\ arp_is_request_for(frame, Host.ip)
  BY DEF ArpReply
<1>2. f.len >= 0
  BY <1>1 DEF Put
<1>3. FrameOK(frame) /\ cap \in Word16
  BY DEF Kept
<1>4. Words(tm, 3) /\ Words(tip, 2) /\ ArpWords(f, tm, Host.mac, Host.ip, 2, tm, tip)
  BY <1>1, <1>2, <1>3, Replied
<1>5. FrameOK(f)
  BY <1>4, ArpWordAt
<1> HIDE DEF tm, tip, f, what
<1>6. SentOK(s, port)
  <2>1. s.kind = "reply" /\ s.frame = f
    OBVIOUS
  <2> HIDE DEF s
  <2>2. ReplyTo(s, tm, tip)
    BY <1>4, <2>1 DEF ReplyTo
  <2> QED
    BY <2>1, <2>2 DEF SentOK, IsReply
<1> QED
  BY <1>1, <1>5, <1>6, KeptPut

(* Nothing but the frame changes, and a frame it stays.                     *)
LEMMA KeptFrame ==
    ASSUME Kept, FrameOK(frame'), frame # None, UNCHANGED <<genVars, cap, sent, arrived>>
    PROVE  Kept'
<1>1. UNCHANGED <<gen, port, cap, sent, arrived>>
  BY DEF genVars
<1>2. sent.kind # "nothing"
  BY DEF Kept
<1> QED
  BY <1>1, <1>2 DEF Kept

LEMMA KeptVlanInsert ==
    ASSUME NEW pcp \in Pcps, NEW dei \in BOOLEAN, NEW vid \in Vids, Kept, VlanInsert(pcp, dei, vid)
    PROVE  Kept'
<1> DEFINE tci == vlan_tci(pcp, dei, vid)
           f == vlan_insert(frame, cap, tci)
<1>1. pcp \in Nat /\ vid \in Nat
  BY PathAssumption
<1>2. tci \in Word16
  BY <1>1, VlanFields
<1> HIDE DEF tci
<1>3. FrameOK(frame) /\ cap \in Nat
  BY DEF Kept, Word16
<1>4. /\ f.len >= 0 /\ frame' = f /\ frame # None /\ UNCHANGED <<genVars, cap, sent, arrived>>
  BY DEF VlanInsert, Wrap, tci
<1>5. FrameOK(f)
  <2>1. Tagged(f, frame, tci)
    BY <1>2, <1>3, <1>4, VlanInserted
  <2> HIDE DEF f
  <2> QED
    BY <2>1 DEF Tagged
<1> QED
  BY <1>4, <1>5, KeptFrame

LEMMA KeptVxlanEncap ==
    ASSUME NEW vni \in Vnis, Kept, VxlanEncap(vni)
    PROVE  Kept'
<1> DEFINE f == vxlan_encap(cap, Flow(0), vni, frame, 7)
<1>1. vni \in Nat
  BY PathAssumption
<1>2. FrameOK(frame) /\ cap \in Word16
  BY DEF Kept
<1>3. f.len >= 0 /\ frame' = f /\ frame # None /\ UNCHANGED <<genVars, cap, sent, arrived>>
  BY DEF VxlanEncap, Wrap
<1>4. FrameOK(f)
  BY <1>1, <1>2, <1>3, Encapsulated DEF Tunnels, Carries, Sized
<1> QED
  BY <1>3, <1>4, KeptFrame

LEMMA KeptVlanStrip ==
    ASSUME Kept, VlanStrip
    PROVE  Kept'
<1>1. FrameOK(frame)
  BY DEF Kept
<1>2. /\ vlan_readable(frame) /\ frame' = vlan_strip(frame)
      /\ UNCHANGED <<genVars, cap, sent, arrived>>
  BY DEF VlanStrip, Unwrap
<1>3. FrameOK(frame') /\ frame.len >= 18
  BY <1>1, <1>2, VlanStripped DEF Stripped
<1>4. frame # None
  BY <1>3, NoFrame
<1> QED
  BY <1>2, <1>3, <1>4, KeptFrame

LEMMA KeptVxlanDecap ==
    ASSUME Kept, VxlanDecap
    PROVE  Kept'
<1>1. FrameOK(frame)
  BY DEF Kept
<1>2. /\ vxlan_decap(frame).rc = "OK" /\ frame' = vxlan_decap(frame).inner
      /\ UNCHANGED <<genVars, cap, sent, arrived>>
  BY DEF VxlanDecap, Unwrap
<1>3. FrameOK(frame') /\ parse_udp_ipv4(frame).rc = "OK"
  BY <1>1, <1>2, DecapKeeps
<1>4. frame.len >= 42
  BY <1>1, <1>3, ParseFacts
<1>5. frame # None
  BY <1>4, NoFrame
<1> QED
  BY <1>2, <1>3, <1>5, KeptFrame

LEMMA KeptFlipBit ==
    ASSUME NEW i \in 7 .. Len(frame.words), NEW b \in FlippedBits, Kept, FlipBit(i, b)
    PROVE  Kept'
<1>1. FrameOK(frame) /\ Len(frame.words) \in Nat
  BY FrameParts DEF Kept
<1>2. b \in 0 .. 15 /\ i \in 1 .. Len(frame.words)
  BY <1>1, PathAssumption
<1>3. /\ frame' = [frame EXCEPT !.words[i] = Flip(@, b)] /\ frame # None
      /\ (i = Len(frame.words) /\ frame.len % 2 = 1) => b >= 8
      /\ UNCHANGED <<genVars, cap, sent, arrived>>
  BY DEF FlipBit
<1>4. FrameOK(frame')
  BY <1>1, <1>2, <1>3, FlipKeeps
<1> QED
  BY <1>3, <1>4, KeptFrame

LEMMA KeptDeliver ==
    ASSUME NEW bound \in BOOLEAN, Kept, Deliver(bound)
    PROVE  Kept'
<1>1. /\ frame' = None /\ UNCHANGED <<gen, port, cap, sent>>
      /\ arrived' = IF xdp_redirect(frame) /\ bound
                    THEN [to |-> "worker", frame |-> frame, data |-> dp_classify(frame)]
                    ELSE [to |-> "stack", frame |-> frame, bound |-> bound]
  BY DEF Deliver, genVars
<1>2. FrameOK(frame)
  BY DEF Kept
<1>3. ArrivedOK(arrived')
  <2>1. CASE xdp_redirect(frame) /\ bound
    <3>1. arrived' = [to |-> "worker", frame |-> frame, data |-> dp_classify(frame)]
      BY <1>1, <2>1
    <3>2. arrived'.to = "worker" /\ arrived'.frame = frame
      BY <3>1
    <3> QED
      BY <1>2, <2>1, <3>2 DEF ArrivedOK
  <2>2. CASE ~(xdp_redirect(frame) /\ bound)
    <3>1. arrived' = [to |-> "stack", frame |-> frame, bound |-> bound]
      BY <1>1, <2>2
    <3>2. arrived'.to = "stack" /\ arrived'.frame = frame /\ arrived'.bound = bound
      BY <3>1
    <3>3. bound => ~xdp_redirect(frame)
      BY <2>2
    <3> QED
      BY <1>2, <3>2, <3>3 DEF ArrivedOK
  <2> QED
    BY <2>1, <2>2
<1>4. FrameOK(frame')
  BY <1>1, NoFrame
<1> QED
  BY <1>1, <1>3, <1>4 DEF Kept

LEMMA KeptStutter ==
    ASSUME Kept, UNCHANGED vars
    PROVE  Kept'
  BY DEF Kept, vars, genVars, wireVars

LEMMA KeptNext == Kept /\ [Next]_vars => Kept'
<1> SUFFICES ASSUME Kept, [Next]_vars PROVE Kept'
  OBVIOUS
<1>1. ASSUME NEW dst_port \in DstPorts, NEW n \in Payloads, PktgenInit(dst_port, n) PROVE Kept'
  BY <1>1, KeptPktgenInit
<1>2. CASE PktgenSkip
  BY <1>2, KeptPktgenSkip
<1>3. CASE PktgenNext
  BY <1>3, KeptPktgenNext
<1>4. CASE PeerSends
  BY <1>4, KeptPeerSends
<1>5. ASSUME NEW ip \in {Host.ip, Peer.ip}, ArpRequest(ip) PROVE Kept'
  BY <1>5, KeptArpRequest
<1>6. CASE ArpReply
  BY <1>6, KeptArpReply
<1>7. ASSUME NEW pcp \in Pcps, NEW dei \in BOOLEAN, NEW vid \in Vids, VlanInsert(pcp, dei, vid)
      PROVE  Kept'
  BY <1>7, KeptVlanInsert
<1>8. ASSUME NEW vni \in Vnis, VxlanEncap(vni) PROVE Kept'
  BY <1>8, KeptVxlanEncap
<1>9. CASE VlanStrip
  BY <1>9, KeptVlanStrip
<1>10. CASE VxlanDecap
  BY <1>10, KeptVxlanDecap
<1>11. ASSUME NEW i \in 7 .. Len(frame.words), NEW b \in FlippedBits, FlipBit(i, b) PROVE Kept'
  BY <1>11, KeptFlipBit
<1>12. ASSUME NEW bound \in BOOLEAN, Deliver(bound) PROVE Kept'
  BY <1>12, KeptDeliver
<1>13. CASE UNCHANGED vars
  BY <1>13, KeptStutter
<1> QED
  BY <1>1, <1>2, <1>3, <1>4, <1>5, <1>6, <1>7, <1>8, <1>9, <1>10, <1>11, <1>12, <1>13 DEF Next

(* The buffer always holds a frame, whatever its length says is there, and  *)
(* the generator is always in a state that rewsr_pktgen_init and            *)
(* rewsr_pktgen_next lead to, for every port, payload and buffer, whatever  *)
(* bit is flipped and however often a frame is wrapped and opened.          *)
THEOREM FramesKept == Spec => []Kept
<1>1. Init => Kept
  BY KeptInit
<1>2. Kept /\ [Next]_vars => Kept'
  BY KeptNext
<1> QED
  BY <1>1, <1>2, PTL DEF Spec

(* On a bound queue the XDP program and rewsr_parse_udp_ipv4 agree about    *)
(* every frame that can arrive, however it was wrapped, opened or damaged:  *)
(* FilterAgreesWithParser for all ports, payloads, buffers, tags and bits,  *)
(* on little-endian hosts.  On others the program's constants are swapped   *)
(* where the fields are not, and it does not hold.                          *)
THEOREM FilterAgrees ==
    ASSUME LittleEndian
    PROVE  Spec => []FilterAgreesWithParser
<1>1. Kept => FilterAgreesWithParser
  <2> SUFFICES ASSUME Kept, arrived.to # "nowhere" PROVE FilterAgreesWithParser
    BY DEF FilterAgreesWithParser
  <2> DEFINE f == arrived.frame
             dg == parse_udp_ipv4(f)
  <2>1. /\ FrameOK(f)
        /\ \/ arrived.to = "worker" /\ xdp_redirect(f)
           \/ arrived.to = "stack" /\ (arrived.bound => ~xdp_redirect(f))
    BY DEF Kept, ArrivedOK
  <2>2. /\ dg.rc = "OK" => (xdp_redirect(f) <=> dg.dst_port = 4789)
        /\ dg.rc \in {"NOT_IPV4", "NOT_UDP"} => ~xdp_redirect(f)
    BY <2>1, ReceiversAgree
  <2> HIDE DEF dg, f
  <2>3. (dg.rc = "OK" /\ dg.dst_port = 4789) => (arrived.to = "worker" \/ ~arrived.bound)
    BY <2>1, <2>2
  <2>4. (dg.rc = "OK" /\ dg.dst_port # 4789) => arrived.to = "stack"
    BY <2>1, <2>2
  <2>5. dg.rc \in {"NOT_IPV4", "NOT_UDP"} => arrived.to = "stack"
    BY <2>1, <2>2
  <2> QED
    BY <2>3, <2>4, <2>5 DEF FilterAgreesWithParser, dg, f
<1> QED
  BY <1>1, FramesKept, PTL

-----------------------------------------------------------------------------
(* Tags and tunnels.  Between the frame that was sent and the one in the    *)
(* buffer there is a frame for every layer, each made of the one inside it. *)

\* A generated datagram to port 4789 whose number has reached 2^59 would pass for a tunnel.
FewFrames == MaxFrames <= 2047 * 65536 * 65536 * 65536

LayerSet == (Nat \X BOOLEAN \X Nat) \cup {<<n>> : n \in Nat}

\* g is f in a tag or in a tunnel that was made from what
Layer(f, g, what) ==
    \/ \E tci \in Word16 : Tagged(g, f, tci) /\ f.len >= 14 /\ what = vlan_fields(tci)
    \/ \E vni : VniOK(vni) /\ Tunnels(g, f, vni) /\ what = <<vni>>

Stack(h, f, g, ls) ==
    /\ h[0] = f /\ h[Len(ls)] = g
    /\ \A i \in 0 .. Len(ls) : FrameOK(h[i])
    /\ \A i \in 1 .. Len(ls) : Layer(h[i - 1], h[i], ls[i])

LayersAre(f, g, ls) == \E h : Stack(h, f, g, ls)

LEMMA NoLayers ==
    ASSUME NEW f
    PROVE  /\ FrameOK(f) => LayersAre(f, f, <<>>)
           /\ \A g : LayersAre(f, g, <<>>) => g = f
<1> DEFINE ls == <<>>
<1>1. Len(ls) = 0
  OBVIOUS
<1> HIDE DEF ls
<1>2. ASSUME FrameOK(f) PROVE LayersAre(f, f, ls)
  <2> DEFINE h == [i \in {0} |-> f]
  <2>1. h[0] = f
    OBVIOUS
  <2> HIDE DEF h
  <2>2. Stack(h, f, f, ls)
    BY <1>1, <1>2, <2>1 DEF Stack
  <2> QED
    BY <2>2 DEF LayersAre
<1>3. ASSUME NEW g, LayersAre(f, g, ls) PROVE g = f
  BY <1>1, <1>3 DEF LayersAre, Stack
<1> QED
  BY <1>2, <1>3 DEF ls

LEMMA LayersPush ==
    ASSUME NEW e, NEW f, NEW g, NEW ls \in Seq(LayerSet), NEW what \in LayerSet,
           LayersAre(e, f, ls), FrameOK(g), Layer(f, g, what)
    PROVE  LayersAre(e, g, Append(ls, what)) /\ Append(ls, what) \in Seq(LayerSet)
<1> DEFINE n == Len(ls)
           r == Append(ls, what)
<1>1. /\ r \in Seq(LayerSet) /\ Len(r) = n + 1 /\ (\A i \in 1 .. n : r[i] = ls[i])
      /\ r[n + 1] = what /\ n \in Nat
  BY AppendProperties, LenProperties
<1>2. PICK h : Stack(h, e, f, ls)
  BY DEF LayersAre
<1>3. /\ h[0] = e /\ h[n] = f /\ (\A i \in 0 .. n : FrameOK(h[i]))
      /\ \A i \in 1 .. n : Layer(h[i - 1], h[i], ls[i])
  BY <1>2 DEF Stack
<1> HIDE DEF n, r
<1> DEFINE k == [i \in 0 .. n + 1 |-> IF i = n + 1 THEN g ELSE h[i]]
<1>4. /\ k[n + 1] = g /\ \A i \in 0 .. n : k[i] = h[i]
  BY <1>1
<1> HIDE DEF k
<1>5. k[0] = e
  BY <1>1, <1>3, <1>4
<1>6. ASSUME NEW i \in 0 .. n + 1 PROVE FrameOK(k[i])
  <2>1. i = n + 1 \/ i \in 0 .. n
    BY <1>1
  <2> QED
    BY <1>3, <1>4, <2>1
<1>7. ASSUME NEW i \in 1 .. n + 1 PROVE Layer(k[i - 1], k[i], r[i])
  <2>1. CASE i = n + 1
    <3>1. i - 1 = n /\ n \in 0 .. n
      BY <1>1, <2>1
    <3>2. k[i - 1] = f /\ k[i] = g /\ r[i] = what
      BY <1>1, <1>3, <1>4, <2>1, <3>1
    <3> QED
      BY <3>2
  <2>2. CASE i # n + 1
    <3>1. i \in 1 .. n /\ i \in 0 .. n /\ i - 1 \in 0 .. n
      BY <1>1, <2>2
    <3>2. k[i - 1] = h[i - 1] /\ k[i] = h[i] /\ r[i] = ls[i]
      BY <1>1, <1>4, <3>1
    <3>3. Layer(h[i - 1], h[i], ls[i])
      BY <1>3, <3>1
    <3> QED
      BY <3>2, <3>3
  <2> QED
    BY <2>1, <2>2
<1>8. Stack(k, e, g, r)
  BY <1>1, <1>4, <1>5, <1>6, <1>7 DEF Stack
<1>9. LayersAre(e, g, r)
  BY <1>8 DEF LayersAre
<1> QED
  BY <1>1, <1>9 DEF r

LEMMA LayersPop ==
    ASSUME NEW e, NEW g, NEW ls \in Seq(LayerSet), LayersAre(e, g, ls), ls # <<>>
    PROVE  /\ SubSeq(ls, 1, Len(ls) - 1) \in Seq(LayerSet)
           /\ \E f : /\ FrameOK(f) /\ Layer(f, g, ls[Len(ls)])
                     /\ LayersAre(e, f, SubSeq(ls, 1, Len(ls) - 1))
<1> DEFINE n == Len(ls)
           m == n - 1
           r == SubSeq(ls, 1, m)
<1>1. n \in Nat /\ n >= 1 /\ \A i \in 1 .. n : ls[i] \in LayerSet
  <2>1. n \in Nat \ {0}
    BY EmptySeq
  <2>2. n \in Nat /\ n >= 1
    BY <2>1
  <2> QED
    BY <2>2, ElementOfSeq
<1>2. m \in Nat /\ m = n - 1 /\ 1 \in Int /\ m \in Int
  BY <1>1
<1> HIDE DEF n, m
<1>3. \A i \in 1 .. m : ls[i] \in LayerSet
  BY <1>1, <1>2
<1>4. /\ r \in Seq(LayerSet) /\ Len(r) = IF 1 <= m THEN m - 1 + 1 ELSE 0
      /\ \A i \in 1 .. m - 1 + 1 : r[i] = ls[1 + i - 1]
  BY <1>2, <1>3, SubSeqProperties
<1> HIDE DEF r
<1>5. Len(r) = m /\ \A i \in 1 .. m : r[i] = ls[i]
  <2>1. Len(r) = m
    BY <1>2, <1>4
  <2>2. ASSUME NEW i \in 1 .. m PROVE r[i] = ls[i]
    <3>1. i \in 1 .. m - 1 + 1 /\ 1 + i - 1 = i
      BY <1>2
    <3>2. r[i] = ls[1 + i - 1]
      BY <1>4, <3>1
    <3> QED
      BY <3>1, <3>2
  <2> QED
    BY <2>1, <2>2
<1>6. PICK h : Stack(h, e, g, ls)
  BY DEF LayersAre
<1>7. /\ h[0] = e /\ h[n] = g /\ (\A i \in 0 .. n : FrameOK(h[i]))
      /\ \A i \in 1 .. n : Layer(h[i - 1], h[i], ls[i])
  BY <1>6 DEF Stack, n
<1> DEFINE f == h[m]
<1>8. FrameOK(f)
  BY <1>1, <1>2, <1>7
<1>9. Layer(f, g, ls[n])
  <2>1. n \in 1 .. n /\ n - 1 = m
    BY <1>1, <1>2
  <2>2. Layer(h[n - 1], h[n], ls[n])
    BY <1>7, <2>1
  <2> QED
    BY <1>7, <2>1, <2>2
<1>10. Stack(h, e, f, r)
  <2>1. \A i \in 0 .. m : FrameOK(h[i])
    BY <1>1, <1>2, <1>7
  <2>2. ASSUME NEW i \in 1 .. m PROVE Layer(h[i - 1], h[i], r[i])
    <3>1. i \in 1 .. n
      BY <1>1, <1>2
    <3> QED
      BY <1>5, <1>7, <3>1
  <2> QED
    BY <1>5, <1>7, <2>1, <2>2 DEF Stack
<1>11. LayersAre(e, f, r)
  BY <1>10 DEF LayersAre
<1> QED
  BY <1>4, <1>8, <1>9, <1>11 DEF n, m, r

(* A tag and a tunnel show in the type of the frame.                        *)
LEMMA LayerType ==
    ASSUME NEW f, NEW g, NEW what, FrameOK(f), Layer(f, g, what)
    PROVE  Word(g, 12) = 33024 \/ Word(g, 12) = 2048
<1>1. ASSUME NEW tci \in Word16, Tagged(g, f, tci), f.len >= 14 PROVE Word(g, 12) = 33024
  <2>1. g.words[7] = 33024 /\ Len(g.words) = Len(f.words) + 2
    BY <1>1 DEF Tagged
  <2>2. Len(f.words) \in Nat /\ f.len \in Nat /\ (f.len = 2 * Len(f.words) \/ f.len = 2 * Len(f.words) - 1)
    BY FrameParts
  <2>3. Len(g.words) \in Nat /\ Len(g.words) >= 7
    BY <1>1, <2>1, <2>2
  <2> QED
    BY <2>1, <2>3 DEF Word
<1>2. ASSUME NEW vni, Tunnels(g, f, vni) PROVE Word(g, 12) = 2048
  BY <1>2, CarriesWords DEF Tunnels
<1> QED
  BY <1>1, <1>2 DEF Layer

(* Opening a layer gives back what is inside and what it was made from.     *)
LEMMA LayerOpened ==
    ASSUME NEW f, NEW g, NEW what, FrameOK(f), Layer(f, g, what)
    PROVE  /\ vlan_readable(g) => vlan_strip(g) = f /\ what = vlan_fields(Word(g, 14))
           /\ vxlan_decap(g).rc = "OK" =>
                 vxlan_decap(g).inner = f /\ what = <<vxlan_decap(g).vni>>
<1>1. ASSUME NEW tci \in Word16, Tagged(g, f, tci), f.len >= 14, what = vlan_fields(tci)
      PROVE  /\ vlan_strip(g) = f /\ what = vlan_fields(Word(g, 14))
             /\ vxlan_decap(g).rc # "OK"
  <2>1. vlan_readable(g) /\ vlan_strip(g) = f /\ Word(g, 14) = tci
    BY <1>1, VlanInverse
  <2>2. Word(g, 12) = 33024
    BY <2>1 DEF vlan_readable, vlan_is_tagged
  <2>3. FrameOK(g)
    BY <1>1 DEF Tagged
  <2>4. vxlan_decap(g).rc # "OK"
    BY <2>2, <2>3, DecapKeeps
  <2> QED
    BY <1>1, <2>1, <2>4
<1>2. ASSUME NEW vni, VniOK(vni), Tunnels(g, f, vni), what = <<vni>>
      PROVE  /\ ~vlan_readable(g)
             /\ vxlan_decap(g).inner = f /\ what = <<vxlan_decap(g).vni>>
  <2>1. vxlan_decap(g) = [rc |-> "OK", vni |-> vni, inner |-> f]
    BY <1>2, VxlanInverse
  <2>2. vxlan_decap(g).inner = f /\ vxlan_decap(g).vni = vni
    BY <2>1
  <2>3. Word(g, 12) = 2048
    BY <1>2, CarriesWords DEF Tunnels
  <2>4. ~vlan_readable(g)
    BY <2>3 DEF vlan_readable, vlan_is_tagged
  <2> QED
    BY <1>2, <2>2, <2>4
<1> QED
  BY <1>1, <1>2 DEF Layer

\* A reply to a request that came through undamaged is one to the peer
PeerAnswered(s) == s.what.asked = Host.ip /\ ReplyTo(s, Peer.mac, Peer.ip)

Layered ==
    /\ layers \in Seq(LayerSet) /\ flipped \in BOOLEAN
    /\ opened.got = opened.put
    /\ (frame # None /\ ~flipped) => LayersAre(sent.frame, frame, layers)
    /\ (sent.kind = "reply" /\ sent.what.intact) => PeerAnswered(sent)

(* Few frames have small numbers.                                           *)
LEMMA SmallNumber ==
    ASSUME FewFrames, NEW seq, FourWords(seq), NEW n, Counted(n), Fresh(seq, n)
    PROVE  seq[1] \in Nat /\ seq[1] < 2048
<1>1. seq[1] \in Nat /\ seq[2] \in Nat /\ seq[3] \in Nat /\ seq[4] \in Nat
  BY FourParts DEF Word16
<1>2. n \in Nat /\ n <= MaxFrames /\ MaxFrames \in Nat /\ MaxFrames <= 2047 * 65536 * 65536 * 65536
  BY PathAssumption DEF Counted, FewFrames
<1> DEFINE a == seq[1]
           b == seq[2]
           c == seq[3]
           d == seq[4]
<1>3. 65536 * (65536 * (65536 * a + b) + c) + d < 65536 * 65536 * 65536 + n
  BY DEF Fresh, SeqValue
<1>4. a \in Nat /\ b \in Nat /\ c \in Nat /\ d \in Nat
  BY <1>1
<1> HIDE DEF a, b, c, d
<1>5. n <= 2047 * 65536 * 65536 * 65536
  BY <1>2
<1>6. a < 2048
  BY <1>2, <1>3, <1>4, <1>5
<1> QED
  BY <1>4, <1>6 DEF a

LEMMA SentPlain ==
    ASSUME FewFrames, Kept, frame # None
    PROVE  Plain(sent.frame)
<1>1. SentOK(sent, port) /\ sent.kind # "nothing" /\ Counted(sent.n)
  BY DEF Kept
<1>2. CASE IsGenerated(sent, port)
  <2>1. PICK len, id, seq : /\ FourWords(seq) /\ Fresh(seq, sent.n)
                            /\ Generated(sent.frame, port, len, id, seq)
    BY <1>2 DEF IsGenerated
  <2>2. seq[1] \in Nat /\ seq[1] < 2048
    BY <1>1, <2>1, SmallNumber
  <2> QED
    BY <2>1, <2>2, GeneratedPlain
<1>3. CASE IsPeers(sent)
  BY <1>3 DEF IsPeers
<1>4. CASE IsRequest(sent)
  <2>1. FrameOK(sent.frame) /\ Word(sent.frame, 12) = 2054
    BY <1>4, ArpWordAt DEF IsRequest
  <2> QED
    BY <2>1, ArpPlain
<1>5. CASE IsReply(sent)
  <2>1. FrameOK(sent.frame) /\ Word(sent.frame, 12) = 2054
    BY <1>5, ArpWordAt DEF IsReply, ReplyTo
  <2> QED
    BY <2>1, ArpPlain
<1> QED
  BY <1>1, <1>2, <1>3, <1>4, <1>5 DEF SentOK

LEMMA LayeredInit == Init => Layered
<1> SUFFICES ASSUME Init PROVE Layered
  OBVIOUS
<1>1. layers \in Seq(LayerSet)
  BY EmptySeq DEF Init
<1>2. flipped \in BOOLEAN /\ opened.got = opened.put /\ frame = None /\ sent.kind = "nothing"
  BY DEF Init
<1> QED
  BY <1>1, <1>2 DEF Layered

(* A frame that has just been put into the buffer has no layers.            *)
LEMMA LayeredPut ==
    ASSUME NEW f, NEW kind, NEW what, Kept, Put(f, kind, what), FrameOK(f),
           (kind = "reply" /\ what.intact) =>
              PeerAnswered([n |-> sent.n + 1, kind |-> kind, frame |-> f, what |-> what])
    PROVE  Layered'
<1> DEFINE s == [n |-> sent.n + 1, kind |-> kind, frame |-> f, what |-> what]
           p == [put |-> <<>>, got |-> <<>>]
<1>1. sent' = s /\ frame' = f /\ layers' = <<>> /\ flipped' = FALSE /\ opened' = p
  BY DEF Put
<1>2. s.kind = kind /\ s.frame = f /\ s.what = what /\ p.got = p.put
  OBVIOUS
<1>3. (kind = "reply" /\ what.intact) => PeerAnswered(s)
  OBVIOUS
<1> HIDE DEF s, p
<1>4. LayersAre(f, f, <<>>)
  BY NoLayers
<1>5. layers' \in Seq(LayerSet) /\ flipped' \in BOOLEAN /\ opened'.got = opened'.put
  BY <1>1, <1>2, EmptySeq
<1>6. LayersAre(sent'.frame, frame', layers')
  BY <1>1, <1>2, <1>4, Zenon
<1>7. (sent'.kind = "reply" /\ sent'.what.intact) => PeerAnswered(sent')
  BY <1>1, <1>2, <1>3
<1> QED
  BY <1>5, <1>6, <1>7 DEF Layered

(* An undamaged request is the peer's, as it was sent.                      *)
LEMMA RequestIsPeers ==
    ASSUME FewFrames, Kept, Layered, frame # None, ~flipped, arp_is_request_for(frame, Host.ip)
    PROVE  /\ arp_parse(frame).sender_mac = Peer.mac /\ arp_parse(frame).sender_ip = Peer.ip
           /\ sent.what = Host.ip
<1>1. FrameOK(frame) /\ layers \in Seq(LayerSet) /\ LayersAre(sent.frame, frame, layers)
  BY DEF Kept, Layered
<1>2. Word(frame, 12) = 2054 /\ arp_parse(frame).oper = 1 /\ arp_parse(frame).target_ip = Host.ip
  BY <1>1, Asked
<1>3. layers = <<>>
  <2>1. SUFFICES ASSUME layers # <<>> PROVE FALSE
    OBVIOUS
  <2>2. PICK f : FrameOK(f) /\ Layer(f, frame, layers[Len(layers)])
    BY <1>1, <2>1, LayersPop
  <2>3. Word(frame, 12) = 33024 \/ Word(frame, 12) = 2048
    BY <2>2, LayerType
  <2> QED
    BY <1>2, <2>3
<1>4. frame = sent.frame
  BY <1>1, <1>3, NoLayers
<1>5. SentOK(sent, port) /\ sent.kind # "nothing"
  BY DEF Kept
<1>6. ~IsGenerated(sent, port)
  <2>1. SUFFICES ASSUME IsGenerated(sent, port) PROVE FALSE
    OBVIOUS
  <2>2. PICK len, id, seq : Generated(sent.frame, port, len, id, seq)
    BY <2>1 DEF IsGenerated
  <2>3. Word(sent.frame, 12) = 2048
    BY <2>2, CarriesWords DEF Generated
  <2> QED
    BY <1>2, <1>4, <2>3
<1>7. ~IsPeers(sent)
  BY <1>2, <1>4 DEF IsPeers
<1>8. ~IsReply(sent)
  <2>1. SUFFICES ASSUME IsReply(sent) PROVE FALSE
    OBVIOUS
  <2>2. PICK tm, tip : ReplyTo(sent, tm, tip)
    BY <2>1 DEF IsReply
  <2>3. Words(tm, 3) /\ Words(tip, 2) /\ ArpWords(sent.frame, tm, Host.mac, Host.ip, 2, tm, tip)
    BY <2>2 DEF ReplyTo
  <2>4. arp_parse(sent.frame) =
           [rc |-> "OK", oper |-> 2, sender_mac |-> Host.mac, sender_ip |-> Host.ip,
            target_mac |-> tm, target_ip |-> tip]
    <3>1. Words(Host.mac, 3) /\ Words(Host.ip, 2) /\ 2 \in Word16
      BY Hosts
    <3> QED
      BY <2>3, <3>1, ArpRead
  <2>5. arp_parse(sent.frame).oper = 2
    BY <2>4
  <2> QED
    BY <1>2, <1>4, <2>5
<1>9. IsRequest(sent)
  BY <1>5, <1>6, <1>7, <1>8 DEF SentOK
<1> DEFINE bc == <<65535, 65535, 65535>>
           no == <<0, 0, 0>>
<1>10. Words(sent.what, 2) /\ ArpWords(sent.frame, bc, Peer.mac, Peer.ip, 1, no, sent.what)
  BY <1>9 DEF IsRequest
<1>11. Words(bc, 3) /\ Words(no, 3) /\ Words(Peer.mac, 3) /\ Words(Peer.ip, 2) /\ 1 \in Word16
  BY Hosts
<1> HIDE DEF bc, no
<1>12. arp_parse(sent.frame) =
         [rc |-> "OK", oper |-> 1, sender_mac |-> Peer.mac, sender_ip |-> Peer.ip,
          target_mac |-> no, target_ip |-> sent.what]
  BY <1>10, <1>11, ArpRead
<1>13. arp_parse(sent.frame).sender_mac = Peer.mac /\ arp_parse(sent.frame).sender_ip = Peer.ip
       /\ arp_parse(sent.frame).target_ip = sent.what
  BY <1>12
<1> QED
  BY <1>2, <1>4, <1>13

LEMMA LayeredArpReply ==
    ASSUME FewFrames, Kept, Layered, ArpReply
    PROVE  Layered'
<1> DEFINE tm == arp_parse(frame).sender_mac
           tip == arp_parse(frame).sender_ip
           f == arp_build_reply(cap, Host.mac, Host.ip, tm, tip)
           what == [asked |-> sent.what, intact |-> ~flipped]
           s == [n |-> sent.n + 1, kind |-> "reply", frame |-> f, what |-> what]
<1>1. /\ Put(f, "reply", what) /\ arp_is_request_for(frame, Host.ip) /\ frame # None
  BY DEF ArpReply
<1>2. f.len >= 0
  BY <1>1 DEF Put
<1>3. FrameOK(frame) /\ cap \in Word16
  BY DEF Kept
<1>4. Words(tm, 3) /\ Words(tip, 2) /\ ArpWords(f, tm, Host.mac, Host.ip, 2, tm, tip)
  BY <1>1, <1>2, <1>3, Replied
<1>5. FrameOK(f)
  BY <1>4, ArpWordAt
<1>6. ~flipped => tm = Peer.mac /\ tip = Peer.ip /\ sent.what = Host.ip
  BY <1>1, RequestIsPeers
<1> HIDE DEF tm, tip, f
<1>7. what.intact => PeerAnswered(s)
  <2>1. s.frame = f /\ s.what = what /\ what.asked = sent.what /\ what.intact = ~flipped
    OBVIOUS
  <2> HIDE DEF s, what
  <2>2. SUFFICES ASSUME ~flipped PROVE PeerAnswered(s)
    BY <2>1
  <2>3. ReplyTo(s, Peer.mac, Peer.ip)
    BY <1>4, <1>6, <2>1, <2>2 DEF ReplyTo
  <2> QED
    BY <1>6, <2>1, <2>2, <2>3 DEF PeerAnswered
<1> HIDE DEF what
<1> QED
  BY <1>1, <1>5, <1>7, LayeredPut

LEMMA LayeredVlanInsert ==
    ASSUME NEW pcp \in Pcps, NEW dei \in BOOLEAN, NEW vid \in Vids, Kept, Layered,
           VlanInsert(pcp, dei, vid)
    PROVE  Layered'
<1> DEFINE tci == vlan_tci(pcp, dei, vid)
           f == vlan_insert(frame, cap, tci)
           what == <<pcp % 8, dei, vid % 4096>>
           p == [put |-> <<>>, got |-> <<>>]
<1>1. pcp \in Nat /\ vid \in Nat
  BY PathAssumption
<1>2. tci \in Word16 /\ what = vlan_fields(tci)
  BY <1>1, VlanFields
<1>3. what \in LayerSet
  <2>1. pcp % 8 \in Nat /\ vid % 4096 \in Nat
    BY <1>1
  <2> QED
    BY <2>1 DEF LayerSet
<1>4. /\ f.len >= 0 /\ frame' = f /\ frame # None /\ UNCHANGED <<sent, flipped>>
      /\ layers' = Append(layers, what) /\ opened' = p
  BY DEF VlanInsert, Wrap
<1>5. p.got = p.put
  OBVIOUS
<1> HIDE DEF tci, what, p
<1>6. FrameOK(frame) /\ cap \in Nat /\ layers \in Seq(LayerSet) /\ flipped \in BOOLEAN
  BY DEF Kept, Word16, Layered
<1>7. Tagged(f, frame, tci) /\ frame.len >= 14
  BY <1>2, <1>4, <1>6, VlanInserted
<1> HIDE DEF f
<1>8. FrameOK(f) /\ Layer(frame, f, what)
  BY <1>2, <1>7 DEF Layer, Tagged
<1>9. ~flipped => LayersAre(sent.frame, f, Append(layers, what))
  <2>1. ASSUME ~flipped PROVE LayersAre(sent.frame, frame, layers)
    BY <1>4, <2>1 DEF Layered
  <2> QED
    BY <1>3, <1>6, <1>8, <2>1, LayersPush
<1>10. Append(layers, what) \in Seq(LayerSet)
  BY <1>3, <1>6, AppendProperties
<1> DEFINE ap == Append(layers, what)
<1> HIDE DEF ap
<1>11. layers' = ap /\ ap \in Seq(LayerSet) /\ (~flipped => LayersAre(sent.frame, f, ap))
  BY <1>4, <1>9, <1>10 DEF ap
<1> QED
  BY <1>4, <1>5, <1>6, <1>11 DEF Layered

LEMMA LayeredVxlanEncap ==
    ASSUME NEW vni \in Vnis, Kept, Layered, VxlanEncap(vni)
    PROVE  Layered'
<1> DEFINE f == vxlan_encap(cap, Flow(0), vni, frame, 7)
           what == <<vni>>
           p == [put |-> <<>>, got |-> <<>>]
<1>1. vni \in Nat
  BY PathAssumption
<1>2. what \in LayerSet
  BY <1>1 DEF LayerSet
<1>3. /\ f.len >= 0 /\ frame' = f /\ frame # None /\ UNCHANGED <<sent, flipped>>
      /\ layers' = Append(layers, what) /\ opened' = p
  BY DEF VxlanEncap, Wrap
<1>4. p.got = p.put
  OBVIOUS
<1> HIDE DEF p
<1>5. FrameOK(frame) /\ cap \in Word16 /\ layers \in Seq(LayerSet) /\ flipped \in BOOLEAN
  BY DEF Kept, Layered
<1>6. Tunnels(f, frame, vni) /\ VniOK(vni)
  BY <1>1, <1>3, <1>5, Encapsulated
<1> HIDE DEF f
<1>7. FrameOK(f)
  BY <1>6 DEF Tunnels, Carries, Sized
<1>8. Layer(frame, f, what)
  BY <1>6 DEF Layer
<1> HIDE DEF what
<1>9. ~flipped => LayersAre(sent.frame, f, Append(layers, what))
  <2>1. ASSUME ~flipped PROVE LayersAre(sent.frame, frame, layers)
    BY <1>3, <2>1 DEF Layered
  <2> QED
    BY <1>2, <1>5, <1>7, <1>8, <2>1, LayersPush
<1>10. Append(layers, what) \in Seq(LayerSet)
  BY <1>2, <1>5, AppendProperties
<1> DEFINE ap == Append(layers, what)
<1> HIDE DEF ap
<1>11. layers' = ap /\ ap \in Seq(LayerSet) /\ (~flipped => LayersAre(sent.frame, f, ap))
  BY <1>3, <1>9, <1>10 DEF ap
<1> QED
  BY <1>3, <1>4, <1>5, <1>11 DEF Layered

(* A layer is taken off: the one that was put on last, as it was put on.    *)
LEMMA LayeredUnwrap ==
    ASSUME NEW f, NEW what, FewFrames, Kept, Layered, frame # None, Unwrap(f, what),
           ~Plain(frame),
           \A g, l : (FrameOK(g) /\ Layer(g, frame, l)) => (f = g /\ what = l)
    PROVE  Layered'
<1> DEFINE r == SubSeq(layers, 1, Len(layers) - 1)
           top == layers[Len(layers)]
<1>1. /\ frame' = f /\ layers' = (IF layers = <<>> THEN <<>> ELSE r)
      /\ opened' = IF layers = <<>> \/ flipped THEN opened ELSE [put |-> top, got |-> what]
      /\ UNCHANGED <<sent, flipped>>
  BY DEF Unwrap
<1>2. /\ layers \in Seq(LayerSet) /\ flipped \in BOOLEAN /\ opened.got = opened.put
      /\ (~flipped => LayersAre(sent.frame, frame, layers))
  BY DEF Layered
<1>3. layers # <<>> => r \in Seq(LayerSet)
  <2>1. ASSUME layers # <<>> PROVE r \in Seq(LayerSet)
    <3> DEFINE n == Len(layers)
               m == n - 1
    <3>1. n \in Nat \ {0} /\ \A i \in 1 .. n : layers[i] \in LayerSet
      BY <1>2, <2>1, EmptySeq, ElementOfSeq
    <3>2. m \in Int /\ 1 \in Int /\ \A i \in 1 .. m : layers[i] \in LayerSet
      BY <3>1
    <3> HIDE DEF m
    <3>3. SubSeq(layers, 1, m) \in Seq(LayerSet)
      BY <3>2, SubSeqProperties
    <3> QED
      BY <3>3 DEF m
  <2> QED
    BY <2>1
<1>4. <<>> \in Seq(LayerSet)
  BY EmptySeq
<1> HIDE DEF r
<1>5. layers' \in Seq(LayerSet)
  BY <1>1, <1>3, <1>4
<1>6. CASE flipped
  BY <1>1, <1>2, <1>5, <1>6 DEF Layered
<1>7. CASE ~flipped
  <2>1. layers # <<>>
    <3>1. SUFFICES ASSUME layers = <<>> PROVE FALSE
      OBVIOUS
    <3>2. frame = sent.frame
      BY <1>2, <1>7, <3>1, NoLayers
    <3> QED
      BY <3>2, SentPlain
  <2>2. PICK g : FrameOK(g) /\ Layer(g, frame, top) /\ LayersAre(sent.frame, g, r)
    BY <1>2, <1>7, <2>1, LayersPop DEF r
  <2> HIDE DEF top
  <2>3. f = g /\ what = top
    BY <2>2
  <2>4. frame' = g /\ layers' = r /\ opened' = [put |-> top, got |-> what]
    BY <1>1, <1>7, <2>1, <2>3
  <2>5. opened'.got = opened'.put
    BY <2>3, <2>4
  <2> QED
    BY <1>1, <1>2, <1>5, <2>2, <2>4, <2>5 DEF Layered
<1> QED
  BY <1>6, <1>7

LEMMA LayeredVlanStrip ==
    ASSUME FewFrames, Kept, Layered, VlanStrip
    PROVE  Layered'
<1> DEFINE f == vlan_strip(frame)
           what == vlan_fields(Word(frame, 14))
<1>1. vlan_readable(frame) /\ Unwrap(f, what) /\ FrameOK(frame)
  BY DEF VlanStrip, Kept
<1>2. \A g, l : (FrameOK(g) /\ Layer(g, frame, l)) => (f = g /\ what = l)
  BY <1>1, LayerOpened
<1>3. frame.len >= 18
  BY <1>1, VlanStripped
<1>4. frame # None
  BY <1>3, NoFrame
<1>5. ~Plain(frame)
  BY <1>1 DEF Plain
<1> HIDE DEF f, what
<1> QED
  BY <1>1, <1>2, <1>4, <1>5, LayeredUnwrap

LEMMA LayeredVxlanDecap ==
    ASSUME FewFrames, Kept, Layered, VxlanDecap
    PROVE  Layered'
<1> DEFINE f == vxlan_decap(frame).inner
           what == <<vxlan_decap(frame).vni>>
<1>1. vxlan_decap(frame).rc = "OK" /\ Unwrap(f, what) /\ FrameOK(frame)
  BY DEF VxlanDecap, Kept
<1>2. \A g, l : (FrameOK(g) /\ Layer(g, frame, l)) => (f = g /\ what = l)
  BY <1>1, LayerOpened
<1>3. parse_udp_ipv4(frame).rc = "OK"
  BY <1>1, DecapKeeps
<1>4. frame.len >= 42
  BY <1>1, <1>3, ParseFacts
<1>5. frame # None
  BY <1>4, NoFrame
<1>6. ~Plain(frame)
  BY <1>1 DEF Plain
<1> HIDE DEF f, what
<1> QED
  BY <1>1, <1>2, <1>5, <1>6, LayeredUnwrap

LEMMA LayeredSends ==
    ASSUME Kept, Kept', Layered,
           PktgenNext \/ PeerSends \/ \E ip \in {Host.ip, Peer.ip} : ArpRequest(ip)
    PROVE  Layered'
<1>1. PICK f, kind, what : Put(f, kind, what) /\ kind # "reply"
  <2>1. ASSUME NEW f, NEW kind, NEW what, Put(f, kind, what), kind # "reply"
        PROVE  \E g, k, w : Put(g, k, w) /\ k # "reply"
    BY <2>1
  <2>2. CASE PktgenNext
    <3> DEFINE f == pktgen_frame(gen)
               what == [id |-> gen.ip_id, seq |-> gen.seq]
    <3>1. Put(f, "generated", what)
      BY <2>2 DEF PktgenNext
    <3> HIDE DEF f, what
    <3> QED
      BY <2>1, <3>1
  <2>3. CASE PeerSends
    <3> DEFINE f == WithOptions(gen.tmpl)
               what == <<>>
    <3>1. Put(f, "peer", what)
      BY <2>3 DEF PeerSends
    <3> HIDE DEF f, what
    <3> QED
      BY <2>1, <3>1
  <2>4. ASSUME NEW ip \in {Host.ip, Peer.ip}, ArpRequest(ip)
        PROVE  \E g, k, w : Put(g, k, w) /\ k # "reply"
    <3> DEFINE f == arp_build_request(cap, Peer.mac, Peer.ip, ip)
    <3>1. Put(f, "request", ip)
      BY <2>4 DEF ArpRequest
    <3> HIDE DEF f
    <3> QED
      BY <2>1, <3>1
  <2> QED
    BY <2>2, <2>3, <2>4
<1>2. frame' = f
  BY <1>1 DEF Put
<1>3. FrameOK(f)
  BY <1>2 DEF Kept
<1> QED
  BY <1>1, <1>3, LayeredPut

LEMMA LayeredRest ==
    ASSUME Kept, Layered,
           \/ \E dst_port \in DstPorts, n \in Payloads : PktgenInit(dst_port, n)
           \/ PktgenSkip
           \/ \E i \in 7 .. Len(frame.words), b \in FlippedBits : FlipBit(i, b)
           \/ \E bound \in BOOLEAN : Deliver(bound)
           \/ UNCHANGED vars
    PROVE  Layered'
<1>1. ASSUME UNCHANGED <<layers, flipped, opened, frame, sent>> PROVE Layered'
  BY <1>1 DEF Layered
<1>2. ASSUME NEW dst_port \in DstPorts, NEW n \in Payloads, PktgenInit(dst_port, n) PROVE Layered'
  BY <1>1, <1>2 DEF PktgenInit, wireVars
<1>3. CASE PktgenSkip
  BY <1>1, <1>3 DEF PktgenSkip, wireVars
<1>4. ASSUME NEW i \in 7 .. Len(frame.words), NEW b \in FlippedBits, FlipBit(i, b) PROVE Layered'
  <2>1. flipped' = TRUE /\ opened' = [put |-> <<>>, got |-> <<>>] /\ UNCHANGED <<layers, sent>>
    BY <1>4 DEF FlipBit
  <2>2. opened'.got = opened'.put
    BY <2>1
  <2> QED
    BY <2>1, <2>2 DEF Layered
<1>5. ASSUME NEW bound \in BOOLEAN, Deliver(bound) PROVE Layered'
  <2>1. layers' = <<>> /\ flipped' = FALSE /\ frame' = None /\ UNCHANGED <<sent, opened>>
    BY <1>5 DEF Deliver
  <2>2. layers' \in Seq(LayerSet)
    BY <2>1, EmptySeq
  <2> QED
    BY <2>1, <2>2 DEF Layered
<1>6. CASE UNCHANGED vars
  BY <1>1, <1>6 DEF vars, wireVars
<1> QED
  BY <1>2, <1>3, <1>4, <1>5, <1>6

LEMMA LayeredNext ==
    ASSUME FewFrames, Kept, Kept', Layered, [Next]_vars
    PROVE  Layered'
<1>1. ASSUME NEW dst_port \in DstPorts, NEW n \in Payloads, PktgenInit(dst_port, n) PROVE Layered'
  BY <1>1, LayeredRest
<1>2. CASE PktgenSkip
  BY <1>2, LayeredRest
<1>3. CASE PktgenNext
  BY <1>3, LayeredSends
<1>4. CASE PeerSends
  BY <1>4, LayeredSends
<1>5. ASSUME NEW ip \in {Host.ip, Peer.ip}, ArpRequest(ip) PROVE Layered'
  BY <1>5, LayeredSends
<1>6. CASE ArpReply
  BY <1>6, LayeredArpReply
<1>7. ASSUME NEW pcp \in Pcps, NEW dei \in BOOLEAN, NEW vid \in Vids, VlanInsert(pcp, dei, vid)
      PROVE  Layered'
  BY <1>7, LayeredVlanInsert
<1>8. ASSUME NEW vni \in Vnis, VxlanEncap(vni) PROVE Layered'
  BY <1>8, LayeredVxlanEncap
<1>9. CASE VlanStrip
  BY <1>9, LayeredVlanStrip
<1>10. CASE VxlanDecap
  BY <1>10, LayeredVxlanDecap
<1>11. ASSUME NEW i \in 7 .. Len(frame.words), NEW b \in FlippedBits, FlipBit(i, b) PROVE Layered'
  BY <1>11, LayeredRest
<1>12. ASSUME NEW bound \in BOOLEAN, Deliver(bound) PROVE Layered'
  BY <1>12, LayeredRest
<1>13. CASE UNCHANGED vars
  BY <1>13, LayeredRest
<1> QED
  BY <1>1, <1>2, <1>3, <1>4, <1>5, <1>6, <1>7, <1>8, <1>9, <1>10, <1>11, <1>12, <1>13 DEF Next

LEMMA LayersKept ==
    ASSUME FewFrames
    PROVE  Spec => [](Kept /\ Layered)
<1>1. Init => Kept /\ Layered
  BY KeptInit, LayeredInit
<1>2. Kept /\ Layered /\ [Next]_vars => (Kept /\ Layered)'
  BY KeptNext, LayeredNext
<1> QED
  BY <1>1, <1>2, PTL DEF Spec

(* Whatever tags and tunnels of rewsr_vlan_insert and rewsr_vxlan_encap are *)
(* put around a frame, in any order and to any depth, rewsr_vlan_strip and  *)
(* rewsr_vxlan_decap give back the frame byte for byte and what each layer  *)
(* was made from: LayersTransparent for all constants, for fewer than 2^59  *)
(* generated frames.                                                        *)
THEOREM TagsAndTunnelsTransparent ==
    ASSUME FewFrames
    PROVE  Spec => []LayersTransparent
<1>1. Kept /\ Layered => LayersTransparent
  <2> SUFFICES ASSUME Kept, Layered PROVE LayersTransparent
    OBVIOUS
  <2>1. opened.got = opened.put
    BY DEF Layered
  <2>2. ASSUME frame # None, layers = <<>>, ~flipped PROVE frame = sent.frame
    <3>1. LayersAre(sent.frame, frame, <<>>)
      BY <2>2 DEF Layered
    <3> QED
      BY <3>1, NoLayers
  <2> QED
    BY <2>1, <2>2 DEF LayersTransparent
<1> QED
  BY <1>1, LayersKept, PTL

-----------------------------------------------------------------------------
(* Generated frames.                                                        *)

\* What rewsr_build_udp_ipv4 would have been given for the frame f of number seq
Payload(f, seq) == seq \o From(f, 50)

HasPayload(f, len, y, seq) ==
    /\ Bytes(y, len) /\ Len(f.words) = 21 + Len(y)
    /\ \A i \in 1 .. Len(y) : f.words[21 + i] = y[i]
    /\ \A i \in 1 .. 4 : y[i] = seq[i]

LEMMA GenPayload ==
    ASSUME NEW f, NEW p \in Word16, NEW len, PayloadLen(len), NEW id, NEW seq, FourWords(seq),
           Generated(f, p, len, id, seq)
    PROVE  HasPayload(f, len, Payload(f, seq), seq)
<1> DEFINE w == f.words
           n == Len(w)
           e == SubSeq(w, 26, n)
           y == seq \o e
<1>1. Payload(f, seq) = y
  <2> DEFINE k == 50 \div 2 + 1
  <2>1. k = 26
    OBVIOUS
  <2>2. Payload(f, seq) = seq \o SubSeq(w, k, n)
    BY Zenon DEF Payload, From
  <2> HIDE DEF k
  <2> QED
    BY <2>1, <2>2, Zenon
<1>2. /\ Carries(f, p, id, 8 + len) /\ f.len = 42 + len /\ n >= 25
      /\ \A i \in 1 .. 4 : w[21 + i] = seq[i]
  BY DEF Generated
<1>3. FrameOK(f)
  BY <1>2 DEF Carries, Sized
<1>4. /\ w \in Seq(Word16) /\ n \in Nat
      /\ (f.len = 2 * n \/ (f.len = 2 * n - 1 /\ w[n] % 256 = 0))
  BY <1>3, FrameParts DEF FrameOK
<1>5. len \in Nat /\ len >= 8
  BY SMT DEF PayloadLen
<1> HIDE DEF w
<1>6. n = Len(w)
  OBVIOUS
<1> HIDE DEF n
<1>7. PartOf(e, w, 26, n)
  <2>1. w \in Seq(Word16) /\ 26 \in Nat /\ n \in Nat /\ 26 >= 1 /\ n <= Len(w) /\ 26 <= n + 1
    BY <1>2, <1>4, <1>6
  <2> QED
    BY <2>1, Part, Zenon
<1> HIDE DEF e
<1>8. e \in Seq(Word16) /\ Len(e) = n - 25
  BY <1>2, <1>4, <1>7 DEF PartOf
<1>9. ASSUME NEW i \in 1 .. n - 25 PROVE e[i] = w[25 + i]
  <2>1. i \in 1 .. (n + 1) - 26 /\ (26 + i) - 1 = 25 + i
    BY <1>4
  <2> QED
    BY <1>7, <2>1 DEF PartOf
<1>10. seq \in Seq(Word16) /\ Len(seq) = 4
  BY DEF FourWords
<1>11. Joins(y, seq, e)
  BY <1>8, <1>10, Cat
<1> HIDE DEF y
<1>12. y \in Seq(Word16) /\ Len(y) = n - 21
  BY <1>2, <1>4, <1>8, <1>10, <1>11 DEF Joins
<1>13. \A i \in 1 .. 4 : y[i] = seq[i]
  <2>1. ASSUME NEW i \in 1 .. 4 PROVE y[i] = seq[i]
    <3>1. i \in 1 .. Len(seq) + Len(e) /\ i <= Len(seq)
      BY <1>2, <1>4, <1>8, <1>10
    <3> QED
      BY <1>11, <3>1 DEF Joins
  <2> QED
    BY <2>1
<1>14. ASSUME NEW i \in 1 .. n - 21 PROVE w[21 + i] = y[i]
  <2>1. CASE i <= 4
    <3>1. i \in 1 .. 4
      BY <1>4, <2>1
    <3> QED
      BY <1>2, <1>13, <3>1
  <2>2. CASE i > 4
    <3>1. /\ i \in 1 .. Len(seq) + Len(e) /\ ~(i <= Len(seq)) /\ i - Len(seq) = i - 4
          /\ i - 4 \in 1 .. n - 25 /\ 25 + (i - 4) = 21 + i
      BY <1>4, <1>8, <1>10, <2>2
    <3>2. y[i] = e[i - 4]
      BY <1>11, <3>1 DEF Joins
    <3> QED
      BY <1>9, <3>1, <3>2
  <2> QED
    BY <1>4, <2>1, <2>2
<1>15. Bytes(y, len)
  <2>1. Len(y) = n - 21 /\ y \in Seq(Word16)
    BY <1>12
  <2>2. 42 + len = 2 * n \/ (42 + len = 2 * n - 1 /\ w[n] % 256 = 0)
    BY <1>2, <1>4
  <2>3. y[n - 21] = w[n]
    <3>1. n - 21 \in 1 .. n - 21 /\ 21 + (n - 21) = n
      BY <1>2, <1>4
    <3> QED
      BY <1>14, <3>1
  <2>4. 42 + len = 2 * n => len = 2 * (n - 21)
    BY <1>4, <1>5
  <2>5. 42 + len = 2 * n - 1 => len = 2 * (n - 21) - 1
    BY <1>4, <1>5
  <2> QED
    BY <1>5, <2>1, <2>2, <2>3, <2>4, <2>5 DEF Bytes
<1>16. Len(w) = 21 + Len(y)
  BY <1>4, <1>6, <1>12
<1>17. \A i \in 1 .. Len(y) : w[21 + i] = y[i]
  BY <1>12, <1>14
<1>18. HasPayload(f, len, y, seq)
  BY <1>13, <1>15, <1>16, <1>17 DEF w, HasPayload
<1> QED
  BY <1>1, <1>18

(* The number is added to what the template sums to.                        *)
LEMMA GenSum ==
    ASSUME NEW f, NEW p \in Word16, NEW len, PayloadLen(len), NEW id, NEW seq, FourWords(seq),
           Generated(f, p, len, id, seq)
    PROVE  UdpSum(p, len, Payload(f, seq)) =
             UdpSum(p, len, Pattern(len)) + seq[1] + seq[2] + seq[3] + seq[4]
<1> DEFINE y == Payload(f, seq)
           t == Pattern(len)
           m == len - 8
           e == [i \in 1 .. (m + 1) \div 2 |-> t[4 + i]]
<1>1. len \in Nat /\ len >= 8
  BY SMT DEF PayloadLen
<1>2. m \in Nat /\ len = 8 + m /\ (len + 1) \div 2 = 4 + (m + 1) \div 2 /\ (m + 1) \div 2 \in Nat
  BY <1>1
<1>3. /\ Bytes(y, len) /\ Len(f.words) = 21 + Len(y)
      /\ (\A i \in 1 .. Len(y) : f.words[21 + i] = y[i]) /\ (\A i \in 1 .. 4 : y[i] = seq[i])
  <2>1. HasPayload(f, len, y, seq)
    BY GenPayload
  <2> HIDE DEF y
  <2> QED
    BY <2>1 DEF HasPayload
<1>4. /\ Built(Template(p, len), p, 4096, t, len) /\ Bytes(t, len)
      /\ \A i \in 1 .. 4 : t[i] = 0
  BY TemplateIs
<1> HIDE DEF y, t
<1>5. Len(y) = (len + 1) \div 2 /\ Len(t) = (len + 1) \div 2
      /\ \A i \in 1 .. Len(t) : t[i] \in Word16
  BY <1>3, <1>4, BytesParts
<1> DEFINE k == (m + 1) \div 2
<1>6. k \in Nat /\ Len(y) = 4 + k /\ Len(t) = 4 + k
  BY <1>2, <1>5
<1> HIDE DEF m
<1>7. e = [i \in 1 .. k |-> t[4 + i]]
  OBVIOUS
<1> HIDE DEF k, e
<1>8. ASSUME NEW i \in 1 .. k PROVE e[i] \in Word16 /\ t[4 + i] = e[i] /\ y[4 + i] = e[i]
  <2>1. e[i] = t[4 + i]
    BY <1>7
  <2>2. 4 + i \in 1 .. Len(t) /\ 4 + i \in 1 .. Len(y)
    BY <1>6
  <2>3. t[4 + i] \in Word16
    BY <1>5, <2>2
  <2>4. f.words[21 + (4 + i)] = y[4 + i]
    BY <1>3, <2>2
  <2>5. Template(p, len).words[21 + (4 + i)] = t[4 + i]
    BY <1>4, <2>2 DEF Built
  <2>6. f.words[21 + (4 + i)] = Template(p, len).words[21 + (4 + i)]
    <3>1. 21 + (4 + i) \in 26 .. Len(f.words)
      BY <1>3, <1>6
    <3> QED
      BY <3>1 DEF Generated
  <2> QED
    BY <2>1, <2>3, <2>4, <2>5, <2>6
<1>9. \A i \in 1 .. 4 : seq[i] \in Nat
  BY FourParts DEF Word16
<1> DEFINE q == cksum_partial(e, m, 0)
<1>10. cksum_partial(y, 8 + m, 0) = 0 + y[1] + y[2] + y[3] + y[4] + q
  <2>1. \A i \in 1 .. 4 : y[i] \in Nat
    BY <1>3, <1>9
  <2>2. \A i \in 1 .. (m + 1) \div 2 : e[i] \in Word16 /\ y[4 + i] = e[i]
    BY <1>8 DEF k
  <2> QED
    BY <1>2, <2>1, <2>2, PartialSplit
<1>11. cksum_partial(t, 8 + m, 0) = 0 + t[1] + t[2] + t[3] + t[4] + q
  <2>1. \A i \in 1 .. 4 : t[i] \in Nat
    BY <1>4
  <2>2. \A i \in 1 .. (m + 1) \div 2 : e[i] \in Word16 /\ t[4 + i] = e[i]
    BY <1>8 DEF k
  <2> QED
    BY <1>2, <2>1, <2>2, PartialSplit
<1>12. q \in Nat
  <2>1. \A i \in 1 .. (m + 1) \div 2 : e[i] \in Word16
    BY <1>8 DEF k
  <2> QED
    BY <1>2, <2>1, PartialTyped
<1> HIDE DEF q
<1> DEFINE s1 == seq[1]
           s2 == seq[2]
           s3 == seq[3]
           s4 == seq[4]
           cy == cksum_partial(y, len, 0)
           ct == cksum_partial(t, len, 0)
           pre == Pseudo(8 + len)
<1>13. s1 \in Nat /\ s2 \in Nat /\ s3 \in Nat /\ s4 \in Nat
  BY <1>9
<1>14. cy = 0 + s1 + s2 + s3 + s4 + q
  <2>1. y[1] = s1 /\ y[2] = s2 /\ y[3] = s3 /\ y[4] = s4
    BY <1>3
  <2> QED
    BY <1>2, <1>10, <2>1
<1>15. ct = q
  <2>1. t[1] = 0 /\ t[2] = 0 /\ t[3] = 0 /\ t[4] = 0
    BY <1>4
  <2>2. ct = 0 + 0 + 0 + 0 + 0 + q
    BY <1>2, <1>11, <2>1
  <2> QED
    BY <1>12, <2>2
<1>16. pre \in Nat
  BY <1>1, PseudoIs
<1>17. p \in Nat
  BY DEF Word16
<1>18. UdpSum(p, len, y) = pre + 40000 + p + (8 + len) + cy
       /\ UdpSum(p, len, t) = pre + 40000 + p + (8 + len) + ct
  BY DEF UdpSum
<1> HIDE DEF s1, s2, s3, s4, cy, ct, pre
<1>19. UdpSum(p, len, y) = UdpSum(p, len, t) + s1 + s2 + s3 + s4
  BY <1>1, <1>12, <1>13, <1>14, <1>15, <1>16, <1>17, <1>18
<1> QED
  BY <1>19 DEF s1, s2, s3, s4, y, t

LEMMA GenChecked ==
    ASSUME NEW f, NEW p \in Word16, NEW len, PayloadLen(len), NEW id, NEW seq, FourWords(seq),
           Generated(f, p, len, id, seq)
    PROVE  /\ Cancels(f.words[21], UdpSum(p, len, Payload(f, seq)))
           /\ UdpSum(p, len, Payload(f, seq)) \in Nat /\ UdpSum(p, len, Payload(f, seq)) > 0
<1>1. Bytes(Payload(f, seq), len)
  <2>1. HasPayload(f, len, Payload(f, seq), seq)
    BY GenPayload
  <2> QED
    BY <2>1 DEF HasPayload
<1>2. UdpSum(p, len, Payload(f, seq)) \in Nat /\ UdpSum(p, len, Payload(f, seq)) > 0
  BY <1>1, UdpCheckIs
<1>3. f.words[21] = Patches(GenOf(p, len, id, seq))
  BY DEF Generated
<1>4. Cancels(Patches(GenOf(p, len, id, seq)),
              UdpSum(p, len, Pattern(len)) + seq[1] + seq[2] + seq[3] + seq[4])
  BY PatchesCancel
<1>5. UdpSum(p, len, Payload(f, seq)) =
        UdpSum(p, len, Pattern(len)) + seq[1] + seq[2] + seq[3] + seq[4]
  BY GenSum
<1> QED
  BY <1>2, <1>3, <1>4, <1>5

LEMMA Around ==
    ASSUME NEW k \in Nat, NEW i \in 1 .. 21 + k
    PROVE  i \in 1 .. 20 \/ i = 21 \/ i > 21
  OBVIOUS

(* A generated frame whose checksum is not zero is the one                  *)
(* rewsr_build_udp_ipv4 makes.                                              *)
LEMMA GenAsBuilt ==
    ASSUME NEW f, NEW p \in Word16, NEW len, PayloadLen(len), NEW id \in Word16, NEW seq,
           FourWords(seq), Generated(f, p, len, id, seq)
    PROVE  Word(f, 40) # 0 =>
             f = build_udp_ipv4(f.len, Flow(p), id, Payload(f, seq), f.len - 42)
<1> DEFINE y == Payload(f, seq)
           c == f.len
           g == build_udp_ipv4(c, Flow(p), id, y, len)
<1>1. /\ Bytes(y, len) /\ Len(f.words) = 21 + Len(y)
      /\ \A i \in 1 .. Len(y) : f.words[21 + i] = y[i]
  <2>1. HasPayload(f, len, y, seq)
    BY GenPayload
  <2> HIDE DEF y
  <2> QED
    BY <2>1 DEF HasPayload
<1>2. Cancels(f.words[21], UdpSum(p, len, y)) /\ UdpSum(p, len, y) \in Nat
  BY GenChecked
<1>3. c = 42 + len /\ Carries(f, p, id, 8 + len)
  BY DEF Generated
<1>4. len \in Nat /\ c \in Nat /\ Room(len, c) /\ c - 42 = len
  BY <1>3, SMT DEF PayloadLen, Room
<1> HIDE DEF y, c
<1>5. Built(g, p, id, y, len)
  BY <1>1, <1>4, BuildIs
<1> HIDE DEF g
<1>6. /\ g.len = 42 + len /\ Len(g.words) = 21 + Len(y) /\ g.words[21] = UdpCheck(p, len, y)
      /\ (\A i \in 1 .. Len(y) : g.words[21 + i] = y[i]) /\ Carries(g, p, id, 8 + len)
  BY <1>5 DEF Built
<1>7. Header(f.words, p, id, 8 + len) /\ Header(g.words, p, id, 8 + len)
  BY <1>3, <1>6 DEF Carries
<1>8. \A i \in 1 .. 20 : f.words[i] = g.words[i]
  <2> DEFINE u == f.words
             v == g.words
  <2> HIDE DEF u, v
  <2>1. /\ u[1] = v[1] /\ u[2] = v[2] /\ u[3] = v[3] /\ u[4] = v[4] /\ u[5] = v[5]
        /\ u[6] = v[6] /\ u[7] = v[7] /\ u[8] = v[8] /\ u[9] = v[9] /\ u[10] = v[10]
        /\ u[11] = v[11] /\ u[12] = v[12] /\ u[13] = v[13] /\ u[14] = v[14]
        /\ u[15] = v[15] /\ u[16] = v[16] /\ u[17] = v[17] /\ u[18] = v[18]
        /\ u[19] = v[19] /\ u[20] = v[20]
    <3>1. Header(u, p, id, 8 + len) /\ Header(v, p, id, 8 + len)
      BY <1>7 DEF u, v
    <3> QED
      BY <3>1 DEF Header
  <2>2. \A i \in 1 .. 20 : u[i] = v[i]
    BY <2>1
  <2> QED
    BY <2>2 DEF u, v
<1>9. Cancels(g.words[21], UdpSum(p, len, y))
  BY <1>1, <1>6, UdpCheckCancels
<1>10. Word(f, 40) # 0 => f.words[21] = g.words[21]
  <2> DEFINE a == f.words[21]
             b == g.words[21]
  <2>1. a = b \/ {a, b} = {0, 65535}
    BY <1>2, <1>9, CancelsSame
  <2>2. b # 0
    BY <1>6 DEF UdpCheck
  <2>3. Word(f, 40) = a
    <3> DEFINE n == 8 + len
    <3> HIDE DEF n
    <3>1. Carries(f, p, id, n)
      BY <1>3 DEF n
    <3> QED
      BY <3>1, CarriesWords
  <2> HIDE DEF a, b
  <2>4. a = b \/ a = 0
    BY <2>1, <2>2
  <2> QED
    BY <2>3, <2>4 DEF a, b
<1>11. Len(y) \in Nat
  BY <1>1, BytesParts
<1>12. ASSUME Word(f, 40) # 0, NEW i \in 1 .. Len(f.words)
       PROVE  f.words[i] = g.words[i]
  <2>1. i \in 1 .. 21 + Len(y)
    BY <1>1, <1>12
  <2>2. CASE i \in 1 .. 20
    BY <1>8, <2>2
  <2>3. CASE i = 21
    BY <1>10, <1>12, <2>3
  <2>4. CASE i > 21
    <3> DEFINE j == i - 21
    <3>1. j \in 1 .. Len(y) /\ i = 21 + j
      BY <1>11, <2>1, <2>4
    <3> HIDE DEF j
    <3>2. f.words[21 + j] = y[j] /\ g.words[21 + j] = y[j]
      BY <1>1, <1>6, <3>1
    <3> QED
      BY <3>1, <3>2
  <2>5. i \in 1 .. 20 \/ i = 21 \/ i > 21
    BY <1>11, <2>1, Around
  <2> QED
    BY <2>2, <2>3, <2>4, <2>5, SMT
<1>13. f.len = g.len /\ FrameOK(f) /\ FrameOK(g)
  BY <1>3, <1>6 DEF c, Carries, Sized
<1>14. Word(f, 40) # 0 => f = g
  BY <1>12, <1>13, SameFrame
<1> QED
  BY <1>4, <1>14 DEF g, c, y

(* A frame with the generator's headers passes rewsr_verify_ipv4_checksum.  *)
LEMMA CarriesIpCheck ==
    ASSUME NEW f, NEW p, NEW id, NEW n, Carries(f, p, id, n)
    PROVE  verify_ipv4_checksum(f)
<1> DEFINE w == f.words
           k == Len(w)
           u == SubSeq(w, 8, k)
           s == IpSum(20 + n, id)
           c == Not16(cksum_fold[s])
<1>1. ip_hlen(f) = 20 /\ k \in Nat /\ k >= 21 /\ f.len >= 42
  BY CarriesWords
<1>2. w \in Seq(Word16) /\ f.len \in Nat
  BY FrameParts DEF Carries, Sized
<1>3. Header(w, p, id, n) /\ id \in Nat /\ n \in Nat
  BY DEF Carries, Sized, Word16
<1>4. From(f, 14) = u
  <2> DEFINE j == 14 \div 2 + 1
  <2>1. j = 8
    OBVIOUS
  <2>2. From(f, 14) = SubSeq(w, j, k)
    BY Zenon DEF From
  <2> HIDE DEF j
  <2> QED
    BY <2>1, <2>2, Zenon
<1> HIDE DEF w
<1>5. k = Len(w)
  OBVIOUS
<1> HIDE DEF k
<1>6. PartOf(u, w, 8, k)
  <2>1. w \in Seq(Word16) /\ 8 \in Nat /\ k \in Nat /\ 8 >= 1 /\ k <= Len(w) /\ 8 <= k + 1
    BY <1>1, <1>2, <1>5
  <2> QED
    BY <2>1, Part, Zenon
<1> HIDE DEF u
<1>7. ASSUME NEW i \in 1 .. 10 PROVE u[i] = w[7 + i]
  <2>1. i \in 1 .. (k + 1) - 8 /\ (8 + i) - 1 = 7 + i
    BY <1>1
  <2> QED
    BY <1>6, <2>1 DEF PartOf
<1>8. s \in Nat /\ s > 0
  BY <1>3 DEF IpSum
<1>9. Cancels(c, s)
  <2> HIDE DEF s
  <2> QED
    BY <1>8, FoldCancels
<1>10. c \in Nat
  BY <1>9 DEF Cancels, Word16
<1>11. w[13] = c
  BY <1>3 DEF Header
<1> HIDE DEF c
<1>12. /\ u[1] = 17664 /\ u[2] = 20 + n /\ u[3] = id /\ u[4] = 16384 /\ u[5] = 16401 /\ u[6] = c
       /\ u[7] = 2560 /\ u[8] = 1 /\ u[9] = 2560 /\ u[10] = 258
  <2>1. /\ u[1] = w[8] /\ u[2] = w[9] /\ u[3] = w[10] /\ u[4] = w[11] /\ u[5] = w[12]
        /\ u[6] = w[13] /\ u[7] = w[14] /\ u[8] = w[15] /\ u[9] = w[16] /\ u[10] = w[17]
    <3>1. /\ 7 + 1 = 8 /\ 7 + 2 = 9 /\ 7 + 3 = 10 /\ 7 + 4 = 11 /\ 7 + 5 = 12 /\ 7 + 6 = 13
          /\ 7 + 7 = 14 /\ 7 + 8 = 15 /\ 7 + 9 = 16 /\ 7 + 10 = 17
      OBVIOUS
    <3> QED
      BY <1>7, <3>1
  <2> QED
    BY <1>3, <1>11, <2>1 DEF Header
<1>13. \A i \in 1 .. 10 : u[i] \in Nat
  BY <1>3, <1>10, <1>12
<1>14. Total(u, 10, 0) = 0 + u[1] + u[2] + u[3] + u[4] + u[5] + u[6] + u[7] + u[8] + u[9] + u[10]
  BY <1>13, TenWords
<1>15. Total(u, 10, 0) = s + c
  BY <1>3, <1>10, <1>12, <1>14 DEF IpSum
<1>16. cksum_partial(u, 20, 0) = s + c
  <2>1. cksum_partial(u, 20, 0) = Total(u, 20 \div 2, 0)
           + (IF 20 % 2 = 1 THEN 256 * (u[20 \div 2 + 1] \div 256) ELSE 0)
    BY PartialIs
  <2>2. 20 \div 2 = 10 /\ 20 % 2 = 0
    OBVIOUS
  <2>3. s + c \in Nat
    BY <1>8, <1>10
  <2> HIDE DEF s
  <2> QED
    BY <1>15, <2>1, <2>2, <2>3
<1> HIDE DEF s
<1>17. cksum_fold[s + c] = 65535
  BY <1>8, <1>9, CancelsVerify
<1>18. cksum(u, 20) = 0
  BY <1>16, <1>17 DEF cksum, Not16
<1> QED
  BY <1>1, <1>2, <1>4, <1>18 DEF verify_ipv4_checksum

(* The addresses that the parser finds.                                     *)
LEMMA CarriesParts ==
    ASSUME NEW f, NEW p, NEW id, NEW n, Carries(f, p, id, n)
    PROVE  /\ SubSeq(f.words, 1, 3) = <<512, 0, 2>> /\ SubSeq(f.words, 4, 6) = <<512, 0, 1>>
           /\ SubSeq(f.words, 14, 15) = <<2560, 1>> /\ SubSeq(f.words, 16, 17) = <<2560, 258>>
<1> DEFINE w == f.words
           a == <<512, 0, 2>>
           b == <<512, 0, 1>>
           c == <<2560, 1>>
           d == <<2560, 258>>
<1>1. Len(w) \in Nat /\ Len(w) >= 21
  BY CarriesWords
<1>2. w \in Seq(Word16)
  BY FrameParts DEF Carries, Sized
<1>3. Header(w, p, id, n)
  BY DEF Carries
<1>4. /\ w[1] = 512 /\ w[2] = 0 /\ w[3] = 2 /\ w[4] = 512 /\ w[5] = 0 /\ w[6] = 1
      /\ w[14] = 2560 /\ w[15] = 1 /\ w[16] = 2560 /\ w[17] = 258
  BY <1>3 DEF Header
<1>5. /\ a \in Seq(Word16) /\ Len(a) = 3 /\ a[1] = 512 /\ a[2] = 0 /\ a[3] = 2
      /\ b \in Seq(Word16) /\ Len(b) = 3 /\ b[1] = 512 /\ b[2] = 0 /\ b[3] = 1
  BY DEF Word16
<1>6. /\ c \in Seq(Word16) /\ Len(c) = 2 /\ c[1] = 2560 /\ c[2] = 1
      /\ d \in Seq(Word16) /\ Len(d) = 2 /\ d[1] = 2560 /\ d[2] = 258
  BY DEF Word16
<1> HIDE DEF w, a, b, c, d
<1>7. Triple(w, 1, 2, 3, a) /\ Triple(w, 4, 5, 6, b)
  BY <1>1, <1>2, <1>4, <1>5, SMT DEF Triple
<1>8. Pair(w, 14, 15, c) /\ Pair(w, 16, 17, d)
  BY <1>1, <1>2, <1>4, <1>6, SMT DEF Pair
<1>9. SubSeq(w, 1, 3) = a /\ SubSeq(w, 4, 6) = b
  BY <1>7, ThreeWords, Zenon
<1>10. SubSeq(w, 14, 15) = c /\ SubSeq(w, 16, 17) = d
  BY <1>8, TwoWords, Zenon
<1> QED
  BY <1>9, <1>10 DEF w, a, b, c, d

(* It passes rewsr_verify_udp_checksum.                                     *)
LEMMA GenVerifies ==
    ASSUME NEW f, NEW p \in Word16, NEW len, PayloadLen(len), NEW id, NEW seq, FourWords(seq),
           Generated(f, p, len, id, seq)
    PROVE  verify_udp_checksum(f)
<1> DEFINE w == f.words
           k == Len(w)
           n == 8 + len
           u == SubSeq(w, 18, k)
           y == Payload(f, seq)
           c == w[21]
           s == UdpSum(p, len, y)
           pre == Pseudo(n)
<1>1. Carries(f, p, id, n)
  BY DEF Generated
<1>2. /\ ip_hlen(f) = 20 /\ k \in Nat /\ k >= 21 /\ Word(f, 38) = n
      /\ w[18] = 40000 /\ w[19] = p /\ w[20] = n
  <2>1. ip_hlen(f) = 20 /\ k \in Nat /\ k >= 21 /\ Word(f, 38) = n
    BY <1>1, CarriesWords
  <2>2. Header(w, p, id, n)
    BY <1>1 DEF Carries
  <2>3. w[18] = 40000 /\ w[19] = p /\ w[20] = n
    <3> HIDE DEF w, n
    <3> QED
      BY <2>2 DEF Header
  <2> QED
    BY <2>1, <2>3
<1>3. w \in Seq(Word16)
  BY <1>1, FrameParts DEF Carries, Sized
<1>4. parse_udp_ipv4(f).rc = "OK"
  <2> HIDE DEF n
  <2> QED
    BY <1>1, CarriesParse
<1>5. len \in Nat /\ n \in Nat /\ p \in Nat
  BY DEF PayloadLen, Word16
<1>6. Cancels(c, s) /\ s \in Nat /\ s > 0
  BY GenChecked
<1>7. HasPayload(f, len, y, seq)
  BY GenPayload
<1>8. s = pre + 40000 + p + n + cksum_partial(y, len, 0)
  BY DEF UdpSum
<1>9. cksum_ipv4_pseudo(SubSeq(w, 14, 15), SubSeq(w, 16, 17), 17, n) = pre
  <2> DEFINE a == <<2560, 1>>
             b == <<2560, 258>>
  <2>1. SubSeq(w, 14, 15) = a /\ SubSeq(w, 16, 17) = b
    BY <1>1, CarriesParts
  <2>2. pre = cksum_ipv4_pseudo(a, b, 17, n)
    BY DEF Pseudo
  <2> HIDE DEF w, n, a, b, pre
  <2> QED
    BY <2>1, <2>2, Zenon
<1>10. From(f, 34) = u
  <2> DEFINE j == 34 \div 2 + 1
  <2>1. j = 18
    OBVIOUS
  <2>2. From(f, 34) = SubSeq(w, j, k)
    BY Zenon DEF From
  <2> HIDE DEF j
  <2> QED
    BY <2>1, <2>2, Zenon
<1>11. pre \in Nat
  BY <1>5, PseudoIs
<1> HIDE DEF y, s, pre
<1>12. Bytes(y, len) /\ k = 21 + Len(y) /\ \A i \in 1 .. Len(y) : w[21 + i] = y[i]
  BY <1>7 DEF HasPayload
<1> HIDE DEF w
<1>13. k = Len(w)
  OBVIOUS
<1> HIDE DEF k
<1>14. PartOf(u, w, 18, k)
  <2>1. w \in Seq(Word16) /\ 18 \in Nat /\ k \in Nat /\ 18 >= 1 /\ k <= Len(w) /\ 18 <= k + 1
    BY <1>2, <1>3, <1>13
  <2> QED
    BY <2>1, Part, Zenon
<1> HIDE DEF u
<1>15. ASSUME NEW i \in 1 .. (k + 1) - 18 PROVE u[i] = w[17 + i]
  <2>1. (18 + i) - 1 = 17 + i
    BY <1>2
  <2> QED
    BY <1>14, <2>1 DEF PartOf
<1>16. u[1] = 40000 /\ u[2] = p /\ u[3] = n /\ u[4] = c
  <2>1. u[1] = w[17 + 1] /\ u[2] = w[17 + 2] /\ u[3] = w[17 + 3] /\ u[4] = w[17 + 4]
    <3>1. \A i \in 1 .. 4 : i \in 1 .. (k + 1) - 18
      BY <1>2
    <3> QED
      BY <1>15, <3>1
  <2>2. 17 + 1 = 18 /\ 17 + 2 = 19 /\ 17 + 3 = 20 /\ 17 + 4 = 21
    OBVIOUS
  <2> QED
    BY <1>2, <2>1, <2>2
<1>17. c \in Nat
  BY <1>6 DEF Cancels, Word16
<1> HIDE DEF c, n
<1>18. \A i \in 1 .. 4 : u[i] \in Nat
  <2>1. u[1] \in Nat /\ u[2] \in Nat /\ u[3] \in Nat /\ u[4] \in Nat
    BY <1>5, <1>16, <1>17
  <2> QED
    BY <2>1
<1>19. Len(y) = (len + 1) \div 2 /\ Len(y) \in Nat /\ \A i \in 1 .. Len(y) : y[i] \in Word16
  BY <1>5, <1>12, BytesParts
<1>20. \A i \in 1 .. Len(y) : y[i] \in Word16 /\ u[4 + i] = y[i]
  <2> SUFFICES ASSUME NEW i \in 1 .. Len(y) PROVE y[i] \in Word16 /\ u[4 + i] = y[i]
    OBVIOUS
  <2>1. 4 + i \in 1 .. (k + 1) - 18 /\ 17 + (4 + i) = 21 + i
    BY <1>12, <1>19
  <2>2. u[4 + i] = w[21 + i]
    BY <1>15, <2>1
  <2> QED
    BY <1>12, <1>19, <2>2
<1> DEFINE t == cksum_partial(u, 8 + len, pre)
           q == cksum_partial(y, len, 0)
<1>21. t = pre + u[1] + u[2] + u[3] + u[4] + q
  <2>1. \A i \in 1 .. (len + 1) \div 2 : y[i] \in Word16 /\ u[4 + i] = y[i]
    BY <1>19, <1>20
  <2> QED
    BY <1>5, <1>11, <1>18, <2>1, PartialSplit
<1>22. q \in Nat
  <2>1. \A i \in 1 .. (len + 1) \div 2 : y[i] \in Word16
    BY <1>19
  <2> QED
    BY <1>5, <2>1, PartialTyped
<1>23. s = pre + 40000 + p + n + q
  BY <1>8
<1> HIDE DEF q
<1>24. t = cksum_partial(u, n, pre)
  BY DEF n
<1> HIDE DEF t
<1>25. t = s + c
  BY <1>5, <1>11, <1>16, <1>17, <1>21, <1>22, <1>23
<1>26. cksum_fold[s + c] = 65535
  BY <1>6, CancelsVerify
<1> QED
  <2> DEFINE udp == 14 + ip_hlen(f)
             a == udp + 4
             b == udp + 6
  <2>1. udp = 34 /\ a = 38
    BY <1>2
  <2> DEFINE ul == Word(f, a)
             ps == cksum_ipv4_pseudo(SubSeq(f.words, 14, 15), SubSeq(f.words, 16, 17), 17, ul)
             tt == cksum_partial(From(f, udp), ul, ps)
  <2>2. (parse_udp_ipv4(f).rc = "OK" /\ cksum_fold[tt] = 65535) => verify_udp_checksum(f)
    BY DEF verify_udp_checksum
  <2> HIDE DEF udp, a
  <2>3. ul = n
    BY <1>2, <2>1
  <2> HIDE DEF ul
  <2>4. ps = pre
    BY <1>9, <2>3, Zenon DEF w
  <2> HIDE DEF ps
  <2>5. tt = t
    BY <1>10, <1>24, <2>1, <2>3, <2>4, Zenon
  <2> HIDE DEF tt
  <2> QED
    BY <1>4, <1>25, <1>26, <2>2, <2>5

(* rewsr_dp_classify takes it for data, it parses to the generator's flow   *)
(* and rewsr_pktgen_read_seq finds its number.                              *)
Received(f, p, seq) ==
    /\ dp_classify(f)
    /\ \A field \in DOMAIN Flow(p) : parse_udp_ipv4(f)[field] = Flow(p)[field]
    /\ pktgen_read_seq(f) = [rc |-> "OK", seq |-> seq]

LEMMA GenReceived ==
    ASSUME NEW f, NEW p \in Word16, NEW len, PayloadLen(len), NEW id, NEW seq, FourWords(seq),
           Generated(f, p, len, id, seq)
    PROVE  Received(f, p, seq)
<1> DEFINE w == f.words
           dg == parse_udp_ipv4(f)
           n == 8 + len
           dm == SubSeq(w, 1, 3)
           sm == SubSeq(w, 4, 6)
           si == SubSeq(w, 14, 15)
           di == SubSeq(w, 16, 17)
           a == <<512, 0, 2>>
           b == <<512, 0, 1>>
           c == <<2560, 1>>
           d == <<2560, 258>>
<1>1. Carries(f, p, id, n)
  BY DEF Generated
<1>2. len \in Nat /\ len >= 8 /\ n - 8 = len /\ n \in Nat
  BY DEF PayloadLen
<1>3. dg = [rc |-> "OK", dst_mac |-> dm, src_mac |-> sm, src_ip |-> si, dst_ip |-> di,
            src_port |-> 40000, dst_port |-> p, payload |-> 42, payload_len |-> n - 8]
  <2> HIDE DEF n
  <2> QED
    BY <1>1, CarriesParse
<1>4. dm = a /\ sm = b /\ si = c /\ di = d
  <2> HIDE DEF n
  <2> QED
    BY <1>1, CarriesParts
<1> DEFINE s == SubSeq(w, 22, 25)
<1>5. s = seq
  <2>1. w \in Seq(Word16)
    <3> HIDE DEF n
    <3> QED
      BY <1>1, FrameParts DEF Carries, Sized
  <2>2. Len(w) \in Nat /\ Len(w) >= 25 /\ \A i \in 1 .. 4 : w[21 + i] = seq[i]
    <3>1. Len(w) >= 25 /\ \A i \in 1 .. 4 : w[21 + i] = seq[i]
      BY DEF Generated
    <3>2. Len(w) \in Nat
      BY <2>1, LenProperties
    <3> QED
      BY <3>1, <3>2
  <2> HIDE DEF w
  <2>3. /\ 22 \in Nat /\ 25 \in Nat /\ 22 >= 1 /\ 25 <= Len(w) /\ 22 <= 25 + 1
        /\ seq \in Seq(Word16) /\ Len(seq) = (25 + 1) - 22
    BY <2>2 DEF FourWords
  <2>4. \A i \in 1 .. (25 + 1) - 22 : w[(22 + i) - 1] = seq[i]
    <3> SUFFICES ASSUME NEW i \in 1 .. (25 + 1) - 22 PROVE w[(22 + i) - 1] = seq[i]
      OBVIOUS
    <3>1. i \in 1 .. 4 /\ (22 + i) - 1 = 21 + i
      OBVIOUS
    <3> QED
      BY <2>2, <3>1
  <2>5. SubSeq(w, 22, 25) = seq
    BY <2>1, <2>3, <2>4, PartEqual
  <2> QED
    BY <2>5
<1>6. verify_udp_checksum(f)
  BY GenVerifies
<1>7. DOMAIN Flow(p) = {"src_mac", "dst_mac", "src_ip", "dst_ip", "src_port", "dst_port"}
  BY DEF Flow
<1>8. /\ Flow(p).src_mac = b /\ Flow(p).dst_mac = a /\ Flow(p).src_ip = c /\ Flow(p).dst_ip = d
      /\ Flow(p).src_port = 40000 /\ Flow(p).dst_port = p
  BY DEF Flow
<1> HIDE DEF a, b, c, d, dm, sm, si, di
<1> DEFINE pl == n - 8
<1>9. pl >= 8
  BY <1>2
<1> HIDE DEF pl
<1>10. /\ dg.rc = "OK" /\ dg.dst_mac = dm /\ dg.src_mac = sm /\ dg.src_ip = si /\ dg.dst_ip = di
       /\ dg.src_port = 40000 /\ dg.dst_port = p /\ dg.payload = 42 /\ dg.payload_len = pl
  BY <1>3 DEF pl
<1> HIDE DEF dg
<1>11. dp_classify(f)
  BY <1>6, <1>9, <1>10 DEF dp_classify, dg
<1>12. ASSUME NEW field \in DOMAIN Flow(p) PROVE dg[field] = Flow(p)[field]
  BY <1>4, <1>7, <1>8, <1>10
<1>13. pktgen_read_seq(f) = [rc |-> "OK", seq |-> seq]
  <2> DEFINE x == dg.payload \div 2 + 1
             z == dg.payload \div 2 + 4
  <2>1. x = 22 /\ z = 25
    BY <1>10
  <2>2. /\ ~(dg.rc # "OK") /\ ~(dg.payload_len < 8)
    BY <1>2, <1>9, <1>10 DEF pl
  <2>3. pktgen_read_seq(f) = [rc |-> "OK", seq |-> SubSeq(w, x, z)]
    <3> HIDE DEF x, z
    <3> QED
      BY <2>2, Zenon DEF pktgen_read_seq, dg, x, z
  <2> HIDE DEF x, z
  <2>4. SubSeq(w, x, z) = seq
    BY <1>5, <2>1, Zenon
  <2> QED
    BY <2>3, <2>4, Zenon
<1> QED
  BY <1>11, <1>12, <1>13 DEF dg, Received

(* The reply to the peer's request names the host.                          *)
LEMMA AnswerSound ==
    ASSUME NEW s, PeerAnswered(s)
    PROVE  /\ s.what.asked = Host.ip
           /\ SubSeq(s.frame.words, 1, 3) = Peer.mac
           /\ arp_parse(s.frame) =
                [rc |-> "OK", oper |-> 2, sender_mac |-> Host.mac, sender_ip |-> Host.ip,
                 target_mac |-> Peer.mac, target_ip |-> Peer.ip]
<1>1. s.what.asked = Host.ip /\ ReplyTo(s, Peer.mac, Peer.ip)
  BY DEF PeerAnswered
<1>2. ArpWords(s.frame, Peer.mac, Host.mac, Host.ip, 2, Peer.mac, Peer.ip)
  BY <1>1 DEF ReplyTo
<1>3. Words(Peer.mac, 3) /\ Words(Peer.ip, 2) /\ Words(Host.mac, 3) /\ Words(Host.ip, 2)
  BY Hosts
<1> DEFINE g == s.frame
           pm == Peer.mac
           pi == Peer.ip
           hm == Host.mac
           hi == Host.ip
           o == 2
<1>4. /\ Words(pm, 3) /\ Words(pi, 2) /\ Words(hm, 3) /\ Words(hi, 2) /\ o \in Word16
      /\ ArpWords(g, pm, hm, hi, o, pm, pi)
  BY <1>2, <1>3 DEF Word16
<1> HIDE DEF g, pm, pi, hm, hi, o
<1>5. /\ arp_parse(g) = [rc |-> "OK", oper |-> o, sender_mac |-> hm, sender_ip |-> hi,
                         target_mac |-> pm, target_ip |-> pi]
      /\ SubSeq(g.words, 1, 3) = pm
  BY <1>4, ArpRead, SMT
<1> QED
  BY <1>1, <1>5, Zenon DEF g, pm, pi, hm, hi, o

(* The frames of rewsr_pktgen_next are the ones rewsr_build_udp_ipv4 would  *)
(* build unless their UDP checksum is zero, and both their checksums        *)
(* verify, across every carry of the sequence number and the wrap of the    *)
(* id, and an ARP reply names the host to the asker: FramesSound for every  *)
(* port, payload length and buffer, for fewer than 2^59 generated frames.   *)
THEOREM GeneratedFramesSound ==
    ASSUME FewFrames
    PROVE  Spec => []FramesSound
<1>1. Kept /\ Layered => FramesSound
  <2> SUFFICES ASSUME Kept, Layered PROVE FramesSound
    OBVIOUS
  <2>1. ASSUME sent.kind = "generated"
        PROVE  LET f  == sent.frame
                   dg == parse_udp_ipv4(f)
               IN  /\ Word(f, 40) # 0 => f = FromScratch(f, port, sent.what)
                   /\ verify_ipv4_checksum(f) /\ verify_udp_checksum(f) /\ dp_classify(f)
                   /\ \A field \in DOMAIN Flow(port) : dg[field] = Flow(port)[field]
                   /\ pktgen_read_seq(f) = [rc |-> "OK", seq |-> sent.what.seq]
    <3> DEFINE f == sent.frame
    <3>1. IsGenerated(sent, port)
      BY <2>1 DEF Kept, SentOK, IsPeers, IsRequest, IsReply
    <3>2. port \in Word16
      BY <3>1 DEF IsGenerated
    <3>3. PICK len, id, seq : /\ PayloadLen(len) /\ id \in Word16 /\ FourWords(seq)
                              /\ sent.what = [id |-> id, seq |-> seq]
                              /\ Generated(f, port, len, id, seq)
      BY <3>1 DEF IsGenerated
    <3>4. sent.what.id = id /\ sent.what.seq = seq
      BY <3>3
    <3> HIDE DEF f
    <3>5. Word(f, 40) # 0 =>
            f = build_udp_ipv4(f.len, Flow(port), id, Payload(f, seq), f.len - 42)
      BY <3>2, <3>3, GenAsBuilt
    <3>6. Carries(f, port, id, 8 + len)
      BY <3>3 DEF Generated
    <3>7. verify_ipv4_checksum(f)
      <4> DEFINE n == 8 + len
      <4> HIDE DEF n
      <4>1. Carries(f, port, id, n)
        BY <3>6 DEF n
      <4> QED
        BY <4>1, CarriesIpCheck
    <3>8. verify_udp_checksum(f)
      BY <3>2, <3>3, GenVerifies
    <3>9. /\ dp_classify(f)
          /\ \A field \in DOMAIN Flow(port) : parse_udp_ipv4(f)[field] = Flow(port)[field]
          /\ pktgen_read_seq(f) = [rc |-> "OK", seq |-> seq]
      <4>1. Received(f, port, seq)
        BY <3>2, <3>3, GenReceived
      <4> QED
        BY <4>1 DEF Received
    <3>10. Payload(f, seq) = seq \o From(f, 50)
      BY Zenon DEF Payload
    <3>11. Word(f, 40) # 0 => f = FromScratch(f, port, sent.what)
      BY <3>4, <3>5, <3>10, Zenon DEF FromScratch
    <3> QED
      BY <3>4, <3>7, <3>8, <3>9, <3>11, Zenon DEF f
  <2>2. ASSUME sent.kind = "reply", sent.what.intact
        PROVE  /\ sent.what.asked = Host.ip
               /\ SubSeq(sent.frame.words, 1, 3) = Peer.mac
               /\ arp_parse(sent.frame) =
                    [rc |-> "OK", oper |-> 2, sender_mac |-> Host.mac, sender_ip |-> Host.ip,
                     target_mac |-> Peer.mac, target_ip |-> Peer.ip]
    <3>1. PeerAnswered(sent)
      BY <2>2 DEF Layered
    <3> QED
      BY <3>1, AnswerSound
  <2> QED
    BY <2>1, <2>2, Zenon DEF FramesSound
<1> QED
  BY <1>1, LayersKept, PTL

-----------------------------------------------------------------------------
(* A flipped bit.                                                           *)

\* What word k of n bytes gives to their sum: the last may be a byte only
Weight(u, n, k) == IF k <= n \div 2 THEN u[k] ELSE 256 * (u[k] \div 256)

(* Checksums of the same words are the same.                                *)
LEMMA PartialSame ==
    ASSUME NEW u, NEW v, NEW n \in Nat, NEW seed, \A j \in 1 .. (n + 1) \div 2 : u[j] = v[j]
    PROVE  cksum_partial(v, n, seed) = cksum_partial(u, n, seed)
<1> DEFINE m == n \div 2
           odd(x) == IF n % 2 = 1 THEN 256 * (x[m + 1] \div 256) ELSE 0
<1>1. m \in Nat /\ m <= (n + 1) \div 2 /\ (n % 2 = 1 => m + 1 \in 1 .. (n + 1) \div 2)
  OBVIOUS
<1>2. cksum_partial(u, n, seed) = Total(u, m, seed) + odd(u)
      /\ cksum_partial(v, n, seed) = Total(v, m, seed) + odd(v)
  BY PartialIs
<1>3. odd(u) = odd(v)
  BY <1>1
<1>4. \A j \in 1 .. m : u[j] = v[j]
  BY <1>1
<1> HIDE DEF m
<1>5. Total(u, m, seed) = Total(v, m, seed)
  BY <1>1, <1>4, SumSame
<1> QED
  BY <1>2, <1>3, <1>5

(* Checksums of n bytes that differ in word k differ by what it gives.      *)
LEMMA PartialChange ==
    ASSUME NEW u, NEW v, NEW n \in Nat, NEW seed \in Nat, NEW k \in 1 .. (n + 1) \div 2,
           \A j \in 1 .. (n + 1) \div 2 :
              u[j] \in Word16 /\ v[j] \in Word16 /\ (j # k => u[j] = v[j])
    PROVE  cksum_partial(u, n, seed) + Weight(v, n, k) = cksum_partial(v, n, seed) + Weight(u, n, k)
<1> DEFINE m == n \div 2
           odd(x) == IF n % 2 = 1 THEN 256 * (x[m + 1] \div 256) ELSE 0
           s == Total(u, m, seed)
           t == Total(v, m, seed)
<1>1. m \in Nat /\ m <= (n + 1) \div 2 /\ (n % 2 = 1 => m + 1 = (n + 1) \div 2)
      /\ (n % 2 # 1 => m = (n + 1) \div 2)
  OBVIOUS
<1>2. cksum_partial(u, n, seed) = s + odd(u) /\ cksum_partial(v, n, seed) = t + odd(v)
  BY PartialIs
<1>3. \A j \in 1 .. m : u[j] \in Nat /\ v[j] \in Nat /\ (j # k => u[j] = v[j])
  BY <1>1 DEF Word16
<1>4. u[k] \in Nat /\ v[k] \in Nat
  BY DEF Word16
<1>5. s \in Nat /\ t \in Nat
  BY <1>1, <1>3, SumSeed
<1>6. odd(u) \in Nat /\ odd(v) \in Nat
  <2>1. CASE n % 2 = 1
    <3>1. m + 1 \in 1 .. (n + 1) \div 2
      BY <1>1, <2>1
    <3>2. u[m + 1] \in Nat /\ v[m + 1] \in Nat
      BY <3>1 DEF Word16
    <3> QED
      BY <3>2
  <2>2. CASE n % 2 # 1
    BY <2>2
  <2> QED
    BY <2>1, <2>2
<1>7. CASE k <= m
  <2>1. k \in 1 .. m
    BY <1>1, <1>7
  <2>2. s + v[k] = t + u[k]
    <3> HIDE DEF m
    <3> QED
      <4>1. Variants(u, v, m, k)
        BY <1>3 DEF Variants
      <4> QED
        BY <1>1, <2>1, <4>1, SumChange
  <2>3. odd(u) = odd(v)
    <3>1. CASE n % 2 = 1
      <4>1. m + 1 \in 1 .. (n + 1) \div 2 /\ m + 1 # k
        BY <1>1, <2>1, <3>1
      <4>2. u[m + 1] = v[m + 1]
        BY <4>1
      <4> QED
        BY <4>2
    <3>2. CASE n % 2 # 1
      BY <3>2
    <3> QED
      BY <3>1, <3>2
  <2>4. Weight(u, n, k) = u[k] /\ Weight(v, n, k) = v[k]
    BY <1>7 DEF Weight
  <2> DEFINE a == odd(u)
             b == odd(v)
  <2> HIDE DEF s, t, a, b
  <2>5. a \in Nat /\ a = b /\ cksum_partial(u, n, seed) = s + a
        /\ cksum_partial(v, n, seed) = t + b
    BY <1>2, <1>6, <2>3 DEF a, b
  <2> QED
    BY <1>4, <1>5, <2>2, <2>4, <2>5
<1>8. CASE ~(k <= m)
  <2>1. n % 2 = 1 /\ k = m + 1
    BY <1>1, <1>8
  <2>2. s = t
    <3>1. \A j \in 1 .. m : u[j] = v[j]
      BY <1>1, <1>3, <2>1
    <3> HIDE DEF m
    <3> QED
      BY <1>1, <3>1, SumSame
  <2>3. Weight(u, n, k) = odd(u) /\ Weight(v, n, k) = odd(v)
    BY <1>8, <2>1 DEF Weight
  <2> DEFINE a == odd(u)
             b == odd(v)
  <2> HIDE DEF s, t, a, b
  <2>4. a \in Nat /\ b \in Nat /\ cksum_partial(u, n, seed) = s + a
        /\ cksum_partial(v, n, seed) = t + b /\ Weight(u, n, k) = a /\ Weight(v, n, k) = b
    BY <1>2, <1>6, <2>3 DEF a, b
  <2> QED
    BY <1>5, <2>2, <2>4
<1> QED
  BY <1>7, <1>8

LEMMA FoldsToAll ==
    ASSUME NEW s \in Nat
    PROVE  cksum_fold[s] = 65535 => \E j \in Nat : s = 65535 * j + 65535
<1> DEFINE d == cksum_fold[s]
<1>1. PICK j \in Nat : s = 65535 * j + d
  BY FoldIs
<1> HIDE DEF d
<1>2. d = 65535 => s = 65535 * j + 65535
  BY <1>1
<1> QED
  BY <1>2, SMT DEF d

Whole(s) == cksum_fold[s] = 65535

Apart(a, b) == a \in Nat /\ b \in Nat /\ a # b /\ a < b + 65535 /\ b < a + 65535

(* A sum that has moved by less than 0xffff no longer folds to 0xffff.      *)
LEMMA MovedSum ==
    ASSUME NEW s \in Nat, NEW t \in Nat, NEW a, NEW b, Apart(a, b), s + b = t + a, Whole(s)
    PROVE  ~Whole(t)
<1> USE DEF Apart, Whole
<1> SUFFICES ASSUME cksum_fold[t] = 65535 PROVE FALSE
  OBVIOUS
<1>1. PICK j \in Nat : s = 65535 * j + 65535
  BY FoldsToAll
<1>2. PICK k \in Nat : t = 65535 * k + 65535
  BY FoldsToAll
<1>3. 65535 * (j - k) = a - b
  BY <1>1, <1>2
<1>4. j - k = 0
  BY <1>3
<1> QED
  BY <1>3, <1>4

\* The addresses' share in the sum of a datagram of n bytes
AddressSum(f, n) ==
    AsLoaded(f.words[14]) + AsLoaded(f.words[15]) + AsLoaded(f.words[16]) + AsLoaded(f.words[17])
        + 17 + n

(* The pseudo-header's sum of a frame.                                      *)
LEMMA PseudoOf ==
    ASSUME NEW f, f.words \in Seq(Word16), Len(f.words) >= 17, NEW n
    PROVE  cksum_ipv4_pseudo(SubSeq(f.words, 14, 15), SubSeq(f.words, 16, 17), 17, n) =
             AddressSum(f, n)
<1> DEFINE w == f.words
           x == SubSeq(w, 14, 15)
           y == SubSeq(w, 16, 17)
<1>1. Len(w) \in Nat
  BY LenProperties
<1>2. PartOf(x, w, 14, 15) /\ PartOf(y, w, 16, 17)
  <2>1. 14 \in Nat /\ 15 \in Nat /\ 14 >= 1 /\ 15 <= Len(w) /\ 14 <= 15 + 1
    BY <1>1
  <2>2. 16 \in Nat /\ 17 \in Nat /\ 16 >= 1 /\ 17 <= Len(w) /\ 16 <= 17 + 1
    BY <1>1
  <2> QED
    BY <2>1, <2>2, Part, Zenon
<1> HIDE DEF x, y
<1>3. x[1] = w[14] /\ x[2] = w[15] /\ y[1] = w[16] /\ y[2] = w[17]
  BY <1>2 DEF PartOf
<1> QED
  BY <1>3, Zenon DEF cksum_ipv4_pseudo, AddressSum, x, y

Body(f, w) == SubSeq(f.words, w + 1, Len(f.words))

Sound(f, w, n) ==
    f.words[w + 4] = 0 \/ Whole(cksum_partial(Body(f, w), n, AddressSum(f, n)))

\* f holds a datagram of n bytes behind w words of headers, and its checksum is right
Passes(f, w, n) ==
    /\ w \in Nat /\ w >= 17 /\ n \in Nat /\ n >= 8 /\ w + ((n + 1) \div 2) <= Len(f.words)
    /\ ip_hlen(f) = 2 * w - 14 /\ f.words[w + 3] = n
    /\ Sound(f, w, n)

(* That is what rewsr_verify_udp_checksum finds.                            *)
LEMMA VerifyFinds ==
    ASSUME NEW f, FrameOK(f), verify_udp_checksum(f)
    PROVE  \E w, n : Passes(f, w, n)
<1> DEFINE h == ip_hlen(f)
           u == 14 + h
           L == Len(f.words)
           n == Word(f, 14 + h + 4)
<1>1. parse_udp_ipv4(f).rc = "OK"
  BY SMT DEF verify_udp_checksum
<1>2. /\ h \in Nat /\ n \in Nat /\ h >= 20 /\ n >= 8 /\ 14 + h + n <= f.len
      /\ \E k \in Nat : h = 4 * k
  BY <1>1, ParseFacts
<1>3. PICK k \in Nat : h = 4 * k
  BY <1>2
<1> DEFINE w == 7 + 2 * k
<1>4. /\ f.len \in Nat /\ L \in Nat /\ (f.len = 2 * L \/ f.len = 2 * L - 1)
      /\ f.words \in Seq(Word16)
  BY FrameParts
<1> DEFINE a == Word(f, u + 6)
           ps == cksum_ipv4_pseudo(SubSeq(f.words, 14, 15), SubSeq(f.words, 16, 17), 17, n)
           x == From(f, u)
<1>5. a = 0 \/ Whole(cksum_partial(x, n, ps))
  BY DEF verify_udp_checksum, Whole
<1> HIDE DEF h, n
<1>6. /\ w \in Nat /\ w >= 17 /\ w + ((n + 1) \div 2) <= L /\ w + 4 <= L /\ h = 2 * w - 14
      /\ u = 2 * w
  BY <1>2, <1>3, <1>4
<1> HIDE DEF w
<1>7. n = f.words[w + 3]
  <2> DEFINE j == w + 2
             o == 14 + h + 4
  <2>1. j \in Nat /\ j < L /\ o = 2 * j /\ j + 1 = w + 3
    BY <1>2, <1>4, <1>6
  <2>2. n = Word(f, o)
    BY DEF n
  <2> HIDE DEF j, o
  <2>3. Word(f, 2 * j) = f.words[j + 1]
    BY <2>1, WordAt
  <2> QED
    BY <2>1, <2>2, <2>3
<1>8. a = f.words[w + 4]
  <2> DEFINE j == w + 3
             o == u + 6
  <2>1. j \in Nat /\ j < L /\ o = 2 * j /\ j + 1 = w + 4
    BY <1>4, <1>6
  <2> HIDE DEF j, o
  <2>2. Word(f, 2 * j) = f.words[j + 1]
    BY <2>1, WordAt
  <2> QED
    BY <2>1, <2>2 DEF o
<1>9. ps = AddressSum(f, n)
  <2>1. L >= 17
    BY <1>4, <1>6
  <2> QED
    BY <1>4, <2>1, PseudoOf, Zenon
<1>10. x = Body(f, w)
  <2> DEFINE j == u \div 2 + 1
  <2>1. j = w + 1
    BY <1>6
  <2>2. x = SubSeq(f.words, j, L)
    BY Zenon DEF From
  <2> HIDE DEF j, x
  <2> QED
    BY <2>1, <2>2, Zenon DEF Body
<1> HIDE DEF a, ps, x
<1>11. Sound(f, w, n)
  BY <1>5, <1>8, <1>9, <1>10 DEF Sound
<1>12. ip_hlen(f) = 2 * w - 14
  BY <1>6 DEF h
<1>13. Passes(f, w, n)
  BY <1>2, <1>6, <1>7, <1>11, <1>12 DEF Passes
<1> QED
  BY <1>13

\* Word i of f is an address, a port or of the payload, and its bytes there are not y's
Reached(f, w, n, i, y) ==
    \/ i \in 14 .. 17 \/ i = w + 1 \/ i = w + 2 \/ i \in w + 5 .. w + (n \div 2)
    \/ n % 2 = 1 /\ i = w + (n \div 2) + 1 /\ f.words[i] \div 256 # y \div 256

LEMMA AlteredIs ==
    ASSUME NEW f, FrameOK(f), NEW g, NEW i \in 1 .. Len(f.words), NEW y,
           Patched(g.words, f.words, i, y), NEW w, NEW n, Passes(f, w, n), Altered(f, g)
    PROVE  Reached(f, w, n, i, y)
<1> DEFINE L == Len(f.words)
           u == 14 + ip_hlen(f)
           v == u \div 2
           m == Word(f, u + 4)
           e == w + (n \div 2)
           S == (14 .. 17) \cup {w + 1, w + 2} \cup (w + 5 .. e)
<1>1. /\ w \in Nat /\ w >= 17 /\ n \in Nat /\ n >= 8 /\ w + ((n + 1) \div 2) <= L
      /\ ip_hlen(f) = 2 * w - 14 /\ f.words[w + 3] = n
  BY DEF Passes
<1>2. L \in Nat
  BY FrameParts
<1>3. v = w
  BY <1>1
<1>4. m = n
  <2> DEFINE j == w + 2
             o == u + 4
  <2>0. (n + 1) \div 2 \in Nat /\ (n + 1) \div 2 >= 4
    BY <1>1
  <2>1. j \in Nat /\ j < L /\ o = 2 * j /\ j + 1 = w + 3
    BY <1>1, <1>2, <2>0
  <2> HIDE DEF j, o
  <2>2. Word(f, 2 * j) = f.words[j + 1]
    BY <2>1, WordAt
  <2> QED
    BY <1>1, <2>1, <2>2 DEF o
<1>5. \/ \E j \in S : f.words[j] # g.words[j]
      \/ n % 2 = 1 /\ f.words[e + 1] \div 256 # g.words[e + 1] \div 256
  <2> DEFINE T == (14 .. 17) \cup {v + 1, v + 2} \cup (v + 5 .. v + (m \div 2))
  <2>1. \/ \E j \in T : f.words[j] # g.words[j]
        \/ m % 2 = 1 /\ f.words[v + (m \div 2) + 1] \div 256 # g.words[v + (m \div 2) + 1] \div 256
    BY Zenon DEF Altered
  <2> HIDE DEF v, m
  <2> QED
    BY <1>3, <1>4, <2>1
<1>6. \A j \in 1 .. L : g.words[j] = IF j = i THEN y ELSE f.words[j]
  BY DEF Patched
<1>7. CASE \E j \in S : f.words[j] # g.words[j]
  <2>1. PICK j \in S : f.words[j] # g.words[j]
    BY <1>7
  <2>2. j \in 14 .. 17 \/ j = w + 1 \/ j = w + 2 \/ j \in w + 5 .. w + (n \div 2)
    BY <2>1
  <2>3. j \in 1 .. L
    BY <1>1, <1>2, <2>2
  <2>4. j = i
    BY <1>6, <2>1, <2>3
  <2> QED
    BY <2>2, <2>4 DEF Reached
<1>8. CASE n % 2 = 1 /\ f.words[e + 1] \div 256 # g.words[e + 1] \div 256
  <2> DEFINE j == e + 1
  <2>1. j \in 1 .. L
    BY <1>1, <1>2, <1>8
  <2>2. n % 2 = 1 /\ f.words[j] \div 256 # g.words[j] \div 256 /\ j = w + (n \div 2) + 1
    BY <1>8
  <2> HIDE DEF j
  <2>3. j = i /\ g.words[j] = y
    BY <1>6, <2>1, <2>2
  <2> QED
    BY <2>2, <2>3 DEF Reached
<1> QED
  BY <1>5, <1>7, <1>8

\* Words that differ in one bit are as near as this
Near(x, y) == x \in Word16 /\ y \in Word16 /\ x # y /\ x <= y + 32768 /\ y <= x + 32768

(* They are not 0 and 0xffff, in either order of their bytes.               *)
LEMMA LoadedApart ==
    ASSUME NEW x, NEW y, Near(x, y)
    PROVE  Apart(AsLoaded(x), AsLoaded(y))
<1>1. /\ x \in Nat /\ x <= 65535 /\ y \in Nat /\ y <= 65535
      /\ x # y /\ x <= y + 32768 /\ y <= x + 32768
  BY DEF Near, Word16
<1> DEFINE a == x \div 256
           b == x % 256
           c == y \div 256
           d == y % 256
           v == AsLoaded(x)
           w == AsLoaded(y)
<1>2. /\ a \in Nat /\ b \in Nat /\ c \in Nat /\ d \in Nat /\ a <= 255 /\ b <= 255 /\ c <= 255
      /\ d <= 255 /\ x = 256 * a + b /\ y = 256 * c + d
  BY <1>1
<1>3. v = (IF LittleEndian THEN 256 * b + a ELSE x) /\ w = (IF LittleEndian THEN 256 * d + c ELSE y)
  BY DEF AsLoaded, bswap16
<1> HIDE DEF a, b, c, d, v, w
<1>4. v \in Nat /\ w \in Nat /\ v # w /\ v < w + 65535 /\ w < v + 65535
  BY <1>1, <1>2, <1>3, SMT
<1> QED
  BY <1>4, SMT DEF Apart, v, w

(* So are the words themselves, and their high bytes if those differ.       *)
LEMMA WordsApart ==
    ASSUME NEW x, NEW y, Near(x, y)
    PROVE  /\ Apart(x, y)
           /\ x \div 256 # y \div 256 => Apart(256 * (x \div 256), 256 * (y \div 256))
<1>1. /\ x \in Nat /\ x <= 65535 /\ y \in Nat /\ y <= 65535
      /\ x # y /\ x <= y + 32768 /\ y <= x + 32768
  BY DEF Near, Word16
<1>2. Apart(x, y)
  BY <1>1, SMT DEF Apart
<1> DEFINE a == x \div 256
           c == y \div 256
<1>3. a \in Nat /\ c \in Nat /\ a <= 255 /\ c <= 255
  BY <1>1
<1> HIDE DEF a, c
<1>4. a # c => Apart(256 * a, 256 * c)
  BY <1>3, SMT DEF Apart
<1> QED
  BY <1>2, <1>4 DEF a, c

\* g is f but for word i, which is y there; f's datagram is n bytes behind w words
Twins(f, g, i, y, w, n) ==
    /\ f.words \in Seq(Word16) /\ g.words \in Seq(Word16) /\ i \in 1 .. Len(f.words)
    /\ Patched(g.words, f.words, i, y)
    /\ w \in Nat /\ w >= 17 /\ n \in Nat /\ n >= 8 /\ w + ((n + 1) \div 2) <= Len(f.words)

(* The words that the sums of both go over.                                 *)
LEMMA TwinWords ==
    ASSUME NEW f, NEW g, NEW i, NEW y, NEW w, NEW n, Twins(f, g, i, y, w, n)
    PROVE  /\ i \in Nat /\ w \in Nat /\ n \in Nat /\ w >= 17 /\ n >= 8
           /\ \A j \in 1 .. Len(f.words) :
                 /\ f.words[j] \in Word16 /\ g.words[j] \in Word16
                 /\ g.words[j] = IF j = i THEN y ELSE f.words[j]
           /\ \A j \in 1 .. (n + 1) \div 2 :
                 /\ w + j \in 1 .. Len(f.words)
                 /\ Body(f, w)[j] = f.words[w + j] /\ Body(g, w)[j] = g.words[w + j]
           /\ \A j \in 14 .. 17 : j \in 1 .. Len(f.words)
<1> DEFINE F == f.words
           G == g.words
           L == Len(F)
           p == Body(f, w)
           q == Body(g, w)
           k == w + 1
<1>1. /\ F \in Seq(Word16) /\ G \in Seq(Word16) /\ i \in 1 .. L /\ Patched(G, F, i, y)
      /\ w \in Nat /\ w >= 17 /\ n \in Nat /\ n >= 8 /\ w + ((n + 1) \div 2) <= L
  BY DEF Twins
<1>2. p = SubSeq(F, k, L) /\ q = SubSeq(G, k, Len(G))
  BY DEF Body
<1> HIDE DEF F, G, p, q
<1>3. Len(G) = L /\ L \in Nat /\ \A j \in 1 .. L : G[j] = IF j = i THEN y ELSE F[j]
  <2>1. Len(G) = Len(F) /\ \A j \in 1 .. Len(F) : G[j] = IF j = i THEN y ELSE F[j]
    BY <1>1 DEF Patched
  <2>2. L \in Nat
    BY <1>1, LenProperties
  <2> QED
    BY <2>1, <2>2
<1>4. \A j \in 1 .. L : F[j] \in Word16 /\ G[j] \in Word16
  BY <1>1, <1>3, ElementOfSeq
<1>5. L = Len(F)
  OBVIOUS
<1> HIDE DEF L
<1>6. k \in Nat /\ k >= 1 /\ L <= Len(F) /\ L <= Len(G) /\ k <= L + 1
  BY <1>1, <1>3, <1>5
<1> HIDE DEF k
<1>7. PartOf(p, F, k, L) /\ PartOf(q, G, k, L)
  <2>1. PartOf(SubSeq(F, k, L), F, k, L) /\ PartOf(SubSeq(G, k, L), G, k, L)
    BY <1>1, <1>3, <1>6, Part, Zenon
  <2> QED
    BY <1>2, <1>3, <2>1, Zenon
<1>8. ASSUME NEW j \in 1 .. (n + 1) \div 2
      PROVE  w + j \in 1 .. L /\ p[j] = F[w + j] /\ q[j] = G[w + j]
  <2>1. w + j \in 1 .. L /\ j \in 1 .. (L + 1) - k /\ (k + j) - 1 = w + j
    BY <1>1, <1>3 DEF k
  <2> QED
    BY <1>7, <2>1 DEF PartOf
<1>9. \A j \in 14 .. 17 : j \in 1 .. L
  BY <1>1, <1>3
<1>10. i \in Nat
  BY <1>1, <1>3
<1> QED
  BY <1>1, <1>3, <1>4, <1>8, <1>9, <1>10 DEF F, G, L, p, q

LEMMA LoadedNat ==
    ASSUME NEW v \in Word16
    PROVE  AsLoaded(v) \in Nat
  BY DEF AsLoaded, bswap16, Word16

(* The sums are numbers.                                                    *)
LEMMA TwinSums ==
    ASSUME NEW f, NEW g, NEW i, NEW y, NEW w, NEW n, Twins(f, g, i, y, w, n)
    PROVE  /\ AddressSum(f, n) \in Nat /\ AddressSum(g, n) \in Nat
           /\ cksum_partial(Body(f, w), n, AddressSum(f, n)) \in Nat
           /\ cksum_partial(Body(g, w), n, AddressSum(g, n)) \in Nat
<1> DEFINE F == f.words
           G == g.words
           p == Body(f, w)
           q == Body(g, w)
<1>1. /\ n \in Nat
      /\ \A j \in 1 .. Len(F) : F[j] \in Word16 /\ G[j] \in Word16
      /\ \A j \in 1 .. (n + 1) \div 2 : w + j \in 1 .. Len(F) /\ p[j] = F[w + j] /\ q[j] = G[w + j]
      /\ \A j \in 14 .. 17 : j \in 1 .. Len(F)
  BY TwinWords
<1>2. \A j \in 14 .. 17 : AsLoaded(F[j]) \in Nat /\ AsLoaded(G[j]) \in Nat
  BY <1>1, LoadedNat
<1> DEFINE a == AddressSum(f, n)
           b == AddressSum(g, n)
<1>3. a \in Nat /\ b \in Nat
  <2> DEFINE A(j) == AsLoaded(F[j])
             B(j) == AsLoaded(G[j])
  <2>1. a = A(14) + A(15) + A(16) + A(17) + 17 + n /\ b = B(14) + B(15) + B(16) + B(17) + 17 + n
    BY DEF AddressSum
  <2>2. /\ A(14) \in Nat /\ A(15) \in Nat /\ A(16) \in Nat /\ A(17) \in Nat
        /\ B(14) \in Nat /\ B(15) \in Nat /\ B(16) \in Nat /\ B(17) \in Nat
    BY <1>2
  <2>3. n \in Nat
    BY <1>1
  <2> HIDE DEF A, B, a, b
  <2> QED
    BY <2>1, <2>2, <2>3
<1> HIDE DEF a, b, p, q
<1>4. (\A j \in 1 .. (n + 1) \div 2 : p[j] \in Word16)
      /\ (\A j \in 1 .. (n + 1) \div 2 : q[j] \in Word16)
  BY <1>1
<1>5. cksum_partial(p, n, a) \in Nat
  BY <1>1, <1>3, <1>4, PartialTyped
<1>6. cksum_partial(q, n, b) \in Nat
  BY <1>1, <1>3, <1>4, PartialTyped
<1> QED
  BY <1>3, <1>5, <1>6 DEF a, b, p, q

(* A changed address moves the sum by as much as the pseudo-header's.       *)
LEMMA AddressMoves ==
    ASSUME NEW f, NEW g, NEW i \in 14 .. 17, NEW y, NEW w, NEW n, Twins(f, g, i, y, w, n)
    PROVE  cksum_partial(Body(f, w), n, AddressSum(f, n)) + AsLoaded(y) =
             cksum_partial(Body(g, w), n, AddressSum(g, n)) + AsLoaded(f.words[i])
<1> DEFINE F == f.words
           G == g.words
           L == Len(F)
           p == Body(f, w)
           q == Body(g, w)
           m == (n + 1) \div 2
           hf == AddressSum(f, n)
           hg == AddressSum(g, n)
           A(j) == AsLoaded(F[j])
           B(j) == AsLoaded(G[j])
           a == AsLoaded(F[i])
           b == AsLoaded(y)
<1>1. /\ w \in Nat /\ n \in Nat /\ w >= 17
      /\ \A j \in 1 .. L : /\ F[j] \in Word16 /\ G[j] \in Word16
                           /\ G[j] = IF j = i THEN y ELSE F[j]
      /\ \A j \in 1 .. m : w + j \in 1 .. L /\ p[j] = F[w + j] /\ q[j] = G[w + j]
      /\ \A j \in 14 .. 17 : j \in 1 .. L
  BY TwinWords
<1>2. hf \in Nat /\ hg \in Nat
  BY TwinSums
<1>3. hf + b = hg + a
  <2>1. \A j \in 14 .. 17 : A(j) \in Nat /\ B(j) \in Nat
    BY <1>1, LoadedNat
  <2>2. \A j \in 14 .. 17 : B(j) = IF j = i THEN b ELSE A(j)
    BY <1>1
  <2>3. A(i) = a
    OBVIOUS
  <2>4. hf = A(14) + A(15) + A(16) + A(17) + 17 + n /\ hg = B(14) + B(15) + B(16) + B(17) + 17 + n
    BY DEF AddressSum
  <2>5. n \in Nat
    BY <1>1
  <2> HIDE DEF A, B, a, b, hf, hg
  <2>6. b \in Nat
    BY <2>1, <2>2
  <2>7. i = 14 \/ i = 15 \/ i = 16 \/ i = 17
    OBVIOUS
  <2> QED
    BY <2>1, <2>2, <2>3, <2>4, <2>5, <2>6, <2>7
<1>4. a \in Nat /\ b \in Nat
  <2>1. i \in 1 .. L
    BY <1>1
  <2>2. F[i] \in Word16 /\ y \in Word16
    BY <1>1, <2>1
  <2> QED
    BY <2>2, LoadedNat
<1> HIDE DEF hf, hg, a, b, p, q
<1>5. \A j \in 1 .. m : p[j] \in Word16 /\ q[j] \in Word16 /\ p[j] = q[j]
  <2> SUFFICES ASSUME NEW j \in 1 .. m PROVE p[j] \in Word16 /\ q[j] \in Word16 /\ p[j] = q[j]
    OBVIOUS
  <2>1. w + j \in 1 .. L /\ p[j] = F[w + j] /\ q[j] = G[w + j]
    BY <1>1
  <2>2. w + j # i
    BY <1>1
  <2> QED
    BY <1>1, <2>1, <2>2
<1> DEFINE r == cksum_partial(p, n, 0)
           s == cksum_partial(p, n, hf)
           t == cksum_partial(q, n, hg)
           v == cksum_partial(p, n, hg)
<1>6. s = hf + r /\ v = hg + r /\ r \in Nat
  <2>1. \A j \in 1 .. (n + 1) \div 2 : p[j] \in Word16
    BY <1>5
  <2>2. n \in Nat /\ 0 \in Nat
    BY <1>1
  <2>3. s = hf + r
    BY <1>2, <2>1, <2>2, PartialTyped
  <2>4. v = hg + r
    BY <1>2, <2>1, <2>2, PartialTyped
  <2>5. r \in Nat
    BY <2>1, <2>2, PartialTyped
  <2> QED
    BY <2>3, <2>4, <2>5
<1>7. t = v
  <2>1. \A j \in 1 .. (n + 1) \div 2 : p[j] = q[j]
    BY <1>5
  <2>2. n \in Nat
    BY <1>1
  <2> QED
    BY <2>1, <2>2, PartialSame
<1> HIDE DEF r, s, t, v
<1>8. s + b = t + a
  BY <1>2, <1>3, <1>4, <1>6, <1>7
<1> QED
  BY <1>8 DEF s, t, p, q, hf, hg, a, b

(* A changed word of the datagram moves it by as much as it gives.          *)
LEMMA BodyMoves ==
    ASSUME NEW f, NEW g, NEW i, NEW y, NEW w, NEW n, Twins(f, g, i, y, w, n),
           i > w, i - w \in 1 .. (n + 1) \div 2
    PROVE  cksum_partial(Body(f, w), n, AddressSum(f, n)) + Weight(Body(g, w), n, i - w) =
             cksum_partial(Body(g, w), n, AddressSum(g, n)) + Weight(Body(f, w), n, i - w)
<1> DEFINE F == f.words
           G == g.words
           L == Len(F)
           p == Body(f, w)
           q == Body(g, w)
           hf == AddressSum(f, n)
           hg == AddressSum(g, n)
           k == i - w
<1>1. /\ i \in Nat /\ w \in Nat /\ n \in Nat /\ w >= 17
      /\ \A j \in 1 .. L : /\ F[j] \in Word16 /\ G[j] \in Word16
                           /\ G[j] = IF j = i THEN y ELSE F[j]
      /\ \A j \in 1 .. (n + 1) \div 2 : w + j \in 1 .. L /\ p[j] = F[w + j] /\ q[j] = G[w + j]
      /\ \A j \in 14 .. 17 : j \in 1 .. L
  BY TwinWords
<1>2. hf \in Nat
  BY TwinSums
<1>3. hf = hg
  <2>1. \A j \in 14 .. 17 : F[j] = G[j]
    BY <1>1
  <2> QED
    BY <2>1 DEF AddressSum
<1> HIDE DEF p, q, hf, hg
<1>4. \A j \in 1 .. (n + 1) \div 2 :
         p[j] \in Word16 /\ q[j] \in Word16 /\ (j # k => p[j] = q[j])
  <2> SUFFICES ASSUME NEW j \in 1 .. (n + 1) \div 2
               PROVE  p[j] \in Word16 /\ q[j] \in Word16 /\ (j # k => p[j] = q[j])
    OBVIOUS
  <2>1. w + j \in 1 .. L /\ p[j] = F[w + j] /\ q[j] = G[w + j]
    BY <1>1
  <2>2. j # k => w + j # i
    BY <1>1
  <2> QED
    BY <1>1, <2>1, <2>2
<1>5. k \in 1 .. (n + 1) \div 2 /\ n \in Nat
  BY <1>1
<1> HIDE DEF k
<1>6. cksum_partial(p, n, hf) + Weight(q, n, k) = cksum_partial(q, n, hf) + Weight(p, n, k)
  BY <1>2, <1>4, <1>5, PartialChange
<1> QED
  BY <1>3, <1>6 DEF p, q, hf, hg, k

(* One changed word of an address, a port or the payload and the checksum   *)
(* is no longer right.                                                      *)
LEMMA SumCaught ==
    ASSUME NEW f, NEW g, NEW i, NEW y, NEW w, NEW n, Twins(f, g, i, y, w, n),
           Near(f.words[i], y), Reached(f, w, n, i, y),
           Whole(cksum_partial(Body(f, w), n, AddressSum(f, n)))
    PROVE  ~Whole(cksum_partial(Body(g, w), n, AddressSum(g, n)))
<1> DEFINE x == f.words[i]
           p == Body(f, w)
           q == Body(g, w)
           s == cksum_partial(p, n, AddressSum(f, n))
           t == cksum_partial(q, n, AddressSum(g, n))
<1>1. s \in Nat /\ t \in Nat
  BY TwinSums
<1>2. i \in Nat /\ w \in Nat /\ n \in Nat /\ w >= 17 /\ n >= 8
  BY TwinWords
<1>3. CASE i \in 14 .. 17
  <2> DEFINE a == AsLoaded(x)
             b == AsLoaded(y)
  <2>1. s + b = t + a
    BY <1>3, AddressMoves
  <2>2. Apart(a, b)
    BY LoadedApart
  <2> HIDE DEF s, t, a, b
  <2>3. Whole(s)
    BY DEF s
  <2>4. ~Whole(t)
    BY <1>1, <2>1, <2>2, <2>3, MovedSum
  <2> QED
    BY <2>4 DEF t
<1>4. CASE i \notin 14 .. 17
  <2> DEFINE k == i - w
             a == Weight(p, n, k)
             b == Weight(q, n, k)
  <2>1. /\ i > w /\ k \in 1 .. (n + 1) \div 2 /\ w + k = i
        /\ ~(k <= n \div 2) => f.words[i] \div 256 # y \div 256
    BY <1>2, <1>4 DEF Reached
  <2>2. s + b = t + a
    BY <2>1, BodyMoves
  <2>3. p[k] = x /\ q[k] = y
    <3>1. /\ \A j \in 1 .. Len(f.words) : g.words[j] = IF j = i THEN y ELSE f.words[j]
          /\ \A j \in 1 .. (n + 1) \div 2 :
                w + j \in 1 .. Len(f.words) /\ p[j] = f.words[w + j] /\ q[j] = g.words[w + j]
      BY TwinWords
    <3>2. w + k \in 1 .. Len(f.words) /\ p[k] = f.words[w + k] /\ q[k] = g.words[w + k]
      BY <2>1, <3>1
    <3> QED
      BY <2>1, <3>1, <3>2
  <2>4. Apart(a, b)
    <3>1. Apart(x, y) /\ (x \div 256 # y \div 256 => Apart(256 * (x \div 256), 256 * (y \div 256)))
      BY WordsApart
    <3> HIDE DEF x, p, q, k
    <3>2. CASE k <= n \div 2
      <4>1. a = x /\ b = y
        BY <2>3, <3>2 DEF Weight
      <4> QED
        BY <3>1, <4>1
    <3>3. CASE ~(k <= n \div 2)
      <4>1. a = 256 * (x \div 256) /\ b = 256 * (y \div 256)
        BY <2>3, <3>3 DEF Weight
      <4>2. x \div 256 # y \div 256
        BY <2>1, <3>3 DEF x
      <4> QED
        BY <3>1, <4>1, <4>2
    <3> QED
      BY <3>2, <3>3
  <2> HIDE DEF s, t, a, b
  <2>5. Whole(s)
    BY DEF s
  <2>6. ~Whole(t)
    BY <1>1, <2>2, <2>4, <2>5, MovedSum
  <2> QED
    BY <2>6 DEF t
<1> QED
  BY <1>3, <1>4

(* So rewsr_verify_udp_checksum refuses the frame.                          *)
LEMMA ChangeCaught ==
    ASSUME NEW f, FrameOK(f), NEW g, FrameOK(g), NEW i \in 1 .. Len(f.words), NEW y,
           Patched(g.words, f.words, i, y), Near(f.words[i], y),
           NEW w, NEW n, Passes(f, w, n), f.words[w + 4] # 0, Reached(f, w, n, i, y)
    PROVE  ~verify_udp_checksum(g)
<1> DEFINE F == f.words
           G == g.words
           L == Len(F)
<1> SUFFICES ASSUME verify_udp_checksum(g) PROVE FALSE
  OBVIOUS
<1>1. /\ w \in Nat /\ w >= 17 /\ n \in Nat /\ n >= 8 /\ w + ((n + 1) \div 2) <= L
      /\ ip_hlen(f) = 2 * w - 14 /\ F[w + 3] = n
  BY DEF Passes
<1>2. Whole(cksum_partial(Body(f, w), n, AddressSum(f, n)))
  BY DEF Passes, Sound
<1>3. F \in Seq(Word16) /\ G \in Seq(Word16) /\ L \in Nat /\ Len(G) = L
  BY FrameParts DEF Patched
<1>4. \A j \in 1 .. L : G[j] = IF j = i THEN y ELSE F[j]
  BY DEF Patched
<1>5. Twins(f, g, i, y, w, n)
  BY <1>1, <1>3 DEF Twins
<1>6. i # 8 /\ i # w + 3 /\ i # w + 4
  BY <1>1, SMTT(40) DEF Reached
<1>7. PICK w2, n2 : Passes(g, w2, n2)
  BY VerifyFinds
<1>8. ip_hlen(g) = ip_hlen(f)
  <2>1. 7 \in Nat /\ 7 < Len(F) /\ 7 < Len(G) /\ 8 \in 1 .. L /\ 7 + 1 = 8 /\ 2 * 7 = 14
    BY <1>1, <1>3
  <2>2. Word(f, 2 * 7) = F[7 + 1] /\ Word(g, 2 * 7) = G[7 + 1]
    BY <2>1, WordAt
  <2>3. Word(f, 14) = Word(g, 14)
    BY <1>4, <1>6, <2>1, <2>2
  <2> QED
    BY <2>3 DEF ip_hlen
<1>9. w2 = w
  <2>1. w2 \in Nat /\ ip_hlen(g) = 2 * w2 - 14
    BY <1>7 DEF Passes
  <2> QED
    BY <1>1, <1>8, <2>1
<1>10. n2 = n /\ G[w + 4] = F[w + 4]
  <2>1. G[w2 + 3] = n2
    BY <1>7 DEF Passes
  <2> DEFINE m == (n + 1) \div 2
  <2>3. m \in Nat /\ m >= 4 /\ w + m <= L
    BY <1>1
  <2> HIDE DEF m, L
  <2>2. w + 3 \in 1 .. L /\ w + 4 \in 1 .. L
    BY <1>1, <1>3, <2>3
  <2> USE DEF L
  <2> QED
    BY <1>1, <1>4, <1>6, <1>9, <2>1, <2>2
<1>11. Whole(cksum_partial(Body(g, w), n, AddressSum(g, n)))
  BY <1>7, <1>9, <1>10 DEF Passes, Sound
<1> QED
  BY <1>2, <1>5, <1>11, SumCaught

(* What FlipBit does to a frame.                                            *)
LEMMA FlipPatches ==
    ASSUME NEW f, FrameOK(f), NEW i \in 1 .. Len(f.words), NEW b \in 0 .. 15
    PROVE  /\ Patched([f EXCEPT !.words[i] = Flip(@, b)].words, f.words, i, Flip(f.words[i], b))
           /\ Near(f.words[i], Flip(f.words[i], b))
<1> DEFINE w == f.words
           x == w[i]
           y == Flip(x, b)
<1>1. w \in Seq(Word16)
  BY FrameParts
<1>2. x \in Word16
  BY <1>1, ElementOfSeq
<1>3. Flipped(x, b, y)
  BY <1>2, FlipIs
<1>4. [f EXCEPT !.words[i] = Flip(@, b)].words = [w EXCEPT ![i] = y]
  <2>1. "words" \in DOMAIN f
    BY DEF FrameOK
  <2> DEFINE z == [f.words EXCEPT ![i] = Flip(f.words[i], b)]
  <2>2. [f EXCEPT !.words[i] = Flip(@, b)] = [f EXCEPT !.words = z]
    BY Zenon
  <2> HIDE DEF z
  <2>3. [f EXCEPT !.words = z].words = z
    BY <2>1
  <2> QED
    BY <2>2, <2>3 DEF z
<1> HIDE DEF y
<1>5. y \in Word16
  BY <1>3 DEF Flipped, Word16
<1>6. Near(x, y)
  BY <1>2, <1>3, <1>5 DEF Flipped, Near
<1>7. Patched([w EXCEPT ![i] = y], w, i, y)
  BY <1>1, <1>5, Patch
<1> QED
  BY <1>4, <1>6, <1>7 DEF y

(* Only FlipBit flips.                                                      *)
LEMMA FlippedBy ==
    ASSUME Next, ~flipped, flipped'
    PROVE  \E i \in 7 .. Len(frame.words), b \in FlippedBits : FlipBit(i, b)
<1>1. ASSUME NEW f, NEW kind, NEW what, Put(f, kind, what) PROVE FALSE
  BY <1>1 DEF Put
<1>2. ASSUME NEW f, NEW what, Wrap(f, what) PROVE FALSE
  BY <1>2 DEF Wrap
<1>3. ASSUME NEW f, NEW what, Unwrap(f, what) PROVE FALSE
  BY <1>3 DEF Unwrap
<1>4. ASSUME NEW dst_port, NEW n, PktgenInit(dst_port, n) PROVE FALSE
  <2>1. UNCHANGED wireVars
    BY <1>4, SMT DEF PktgenInit
  <2> QED
    BY <2>1 DEF wireVars
<1>5. ASSUME PktgenSkip PROVE FALSE
  <2>1. UNCHANGED wireVars
    BY <1>5 DEF PktgenSkip
  <2> QED
    BY <2>1 DEF wireVars
<1>6. ASSUME PktgenNext PROVE FALSE
  BY <1>1, <1>6, Zenon DEF PktgenNext
<1>7. ASSUME PeerSends PROVE FALSE
  BY <1>1, <1>7, Zenon DEF PeerSends
<1>8. ASSUME NEW ip, ArpRequest(ip) PROVE FALSE
  BY <1>1, <1>8, Zenon DEF ArpRequest
<1>9. ASSUME ArpReply PROVE FALSE
  BY <1>1, <1>9, Zenon DEF ArpReply
<1>10. ASSUME NEW pcp, NEW dei, NEW vid, VlanInsert(pcp, dei, vid) PROVE FALSE
  BY <1>2, <1>10, SMT DEF VlanInsert
<1>11. ASSUME NEW vni, VxlanEncap(vni) PROVE FALSE
  BY <1>2, <1>11, Zenon DEF VxlanEncap
<1>12. ASSUME VlanStrip PROVE FALSE
  BY <1>3, <1>12, Zenon DEF VlanStrip
<1>13. ASSUME VxlanDecap PROVE FALSE
  BY <1>3, <1>13, Zenon DEF VxlanDecap
<1>14. ASSUME NEW bound, Deliver(bound) PROVE FALSE
  BY <1>14 DEF Deliver
<1> QED
  BY <1>4, <1>5, <1>6, <1>7, <1>8, <1>9, <1>10, <1>11, <1>12, <1>13, <1>14, Zenon DEF Next

(* Every single flipped bit in the addresses, the ports or the payload of a *)
(* frame that rewsr_dp_classify takes for data, with a UDP checksum that is *)
(* not zero, is caught by rewsr_verify_udp_checksum: FlipCaught for all     *)
(* constants, whatever the payload, the number and the options of the IPv4  *)
(* header.                                                                  *)
THEOREM FlipsCaught == Spec => FlipCaught
<1> DEFINE A == (/\ ~flipped /\ flipped'
                 /\ dp_classify(frame) /\ Word(frame, 14 + ip_hlen(frame) + 6) # 0
                 /\ Altered(frame, frame')) => ~dp_classify(frame')
<1>1. Kept /\ [Next]_vars => [A]_vars
  <2> SUFFICES ASSUME Kept, Next, ~flipped, flipped', dp_classify(frame),
                      Word(frame, 14 + ip_hlen(frame) + 6) # 0, Altered(frame, frame')
               PROVE  ~dp_classify(frame')
    OBVIOUS
  <2>1. PICK i \in 7 .. Len(frame.words), b \in FlippedBits : FlipBit(i, b)
    BY FlippedBy
  <2> DEFINE f == frame
             g == frame'
             y == Flip(f.words[i], b)
  <2>2. FrameOK(f) /\ Len(f.words) \in Nat
    BY FrameParts DEF Kept
  <2>3. b \in 0 .. 15 /\ i \in 1 .. Len(f.words)
    BY <2>2, PathAssumption
  <2>4. /\ g = [f EXCEPT !.words[i] = Flip(@, b)]
        /\ (i = Len(f.words) /\ f.len % 2 = 1) => b >= 8
    BY <2>1 DEF FlipBit
  <2>5. FrameOK(g)
    BY <2>2, <2>3, <2>4, FlipKeeps
  <2>6. Patched(g.words, f.words, i, y) /\ Near(f.words[i], y)
    BY <2>2, <2>3, <2>4, FlipPatches
  <2>7. verify_udp_checksum(f)
    BY DEF dp_classify
  <2> HIDE DEF f, g, y
  <2>8. PICK w, n : Passes(f, w, n)
    BY <2>2, <2>7, VerifyFinds
  <2>9. f.words[w + 4] # 0
    <3>1. w \in Nat /\ n \in Nat /\ n >= 8 /\ w + ((n + 1) \div 2) <= Len(f.words)
          /\ ip_hlen(f) = 2 * w - 14
      BY <2>8 DEF Passes
    <3> DEFINE j == w + 3
               o == 14 + ip_hlen(f) + 6
    <3>2. j \in Nat /\ j < Len(f.words) /\ o = 2 * j /\ j + 1 = w + 4
      BY <2>2, <3>1
    <3>3. Word(f, o) # 0
      BY DEF f
    <3> HIDE DEF j, o
    <3>4. Word(f, 2 * j) = f.words[j + 1]
      BY <2>2, <3>2, WordAt
    <3> QED
      BY <3>2, <3>3, <3>4
  <2>10. Altered(f, g)
    BY DEF f, g
  <2>11. Reached(f, w, n, i, y)
    BY <2>2, <2>3, <2>6, <2>8, <2>10, AlteredIs
  <2>12. ~verify_udp_checksum(g)
    BY <2>2, <2>3, <2>5, <2>6, <2>8, <2>9, <2>11, ChangeCaught
  <2>13. ~dp_classify(g)
    BY <2>12 DEF dp_classify
  <2> QED
    BY <2>13 DEF g
<1> QED
  BY <1>1, FramesKept, PTL DEF Spec, FlipCaught
=============================================================================
