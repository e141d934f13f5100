---------------------------- MODULE WorkerProofs ----------------------------
(***************************************************************************)
(* Proofs about the socket of Xsk, for every number of frames and every     *)
(* size of the rings, and about the data-plane loop of Worker that uses it, *)
(* for every role, batch, limit and size.                                   *)
(*                                                                          *)
(* Three invariants of the socket are kept by every step, each resting on   *)
(* the ones before it.  SocketInv holds for all sizes: addresses are        *)
(* chunks, rings do not overflow, and the entries of all places together    *)
(* are as many as there are frames.  FillInv needs as many frames as the    *)
(* fill ring has entries: the pool then always has the frames that are owed *)
(* to that ring.  TxInv needs a frame for every entry of the fill, TX and   *)
(* completion rings: a TX burst then never reserves more than the pool can  *)
(* back.                                                                    *)
(*                                                                          *)
(* Every step of the loop and of the kernel beside it is a step of the      *)
(* socket, so these invariants hold of a running worker; the counters and   *)
(* the limit follow from what each burst moves.                             *)
(***************************************************************************)
EXTENDS Worker, RemainderLemmas, SequenceTheorems, TLAPS

(* Freeing one address after the other pushes their chunks in that order    *)
(* when they all lie in the UMEM and the pool has room for them.            *)
LEMMA PoolFreeAllAppends ==
    ASSUME NEW p \in Seq(Frames), NEW s \in Seq(Int),
           \A i \in 1 .. Len(s) : /\ ChunkBase(s[i]) \in Frames
                                  /\ ChunkBase(s[i]) < NumFrames * ChunkSize,
           Len(p) + Len(s) <= NumFrames
    PROVE  PoolFreeAll(p, s) = p \o [i \in 1 .. Len(s) |-> ChunkBase(s[i])]
<1> DEFINE n == Len(s)
           Rec(f) == [i \in 0 .. n |-> IF i = 0 THEN p ELSE PoolFree(f[i - 1], s[i])]
           bases == [i \in 1 .. n |-> ChunkBase(s[i])]
           g == [i \in 0 .. n |-> p \o SubSeq(bases, 1, i)]
           h == CHOOSE f : f = Rec(f)
<1>1. PoolFreeAll(p, s) = h[n]
  BY DEF PoolFreeAll
<1>2. n \in Nat /\ Len(p) \in Nat
  BY LenProperties
<1>3. bases \in Seq(Frames) /\ Len(bases) = n /\ \A i \in 1 .. n : bases[i] = ChunkBase(s[i])
  BY <1>2
<1>4. ASSUME NEW i \in 0 .. n
      PROVE  /\ SubSeq(bases, 1, i) \in Seq(Frames)
             /\ Len(SubSeq(bases, 1, i)) = i
             /\ \A j \in 1 .. i : SubSeq(bases, 1, i)[j] = bases[j]
             /\ p \o SubSeq(bases, 1, i) \in Seq(Frames)
             /\ Len(p \o SubSeq(bases, 1, i)) = Len(p) + i
  <2>1. \A j \in 1 .. i : bases[j] \in Frames
    BY <1>2, <1>3
  <2>2. /\ SubSeq(bases, 1, i) \in Seq(Frames)
        /\ Len(SubSeq(bases, 1, i)) = i
        /\ \A j \in 1 .. i : SubSeq(bases, 1, i)[j] = bases[j]
    <3> HIDE DEF bases
    <3> QED
      BY <1>2, <2>1, SubSeqProperties
  <2> QED
    BY <2>2, ConcatProperties
<1> HIDE DEF bases
<1>5. ASSUME NEW i \in 1 .. n
      PROVE  p \o SubSeq(bases, 1, i) = PoolFree(p \o SubSeq(bases, 1, i - 1), s[i])
  <2> DEFINE q == p \o SubSeq(bases, 1, i - 1)
  <2>1. i - 1 \in 0 .. n - 1 /\ i - 1 \in 0 .. n /\ i \in 0 .. n
    BY <1>2
  <2>2. q \in Seq(Frames) /\ Len(q) = Len(p) + (i - 1)
    BY <1>4, <2>1
  <2>3. PoolFree(q, s[i]) = Append(q, bases[i])
    <3>1. i \in 1 .. Len(s) /\ i \in 1 .. n
      BY <1>2
    <3>2. ChunkBase(s[i]) < NumFrames * ChunkSize
      BY <3>1
    <3>3. bases[i] = ChunkBase(s[i])
      BY <1>3, <3>1
    <3>4. Len(q) < NumFrames
      <4>1. Len(p) + n <= NumFrames /\ Len(q) = Len(p) + (i - 1) /\ i <= n /\ i \in Nat
        BY <1>2, <2>2
      <4> HIDE DEF q, n
      <4> QED
        BY <1>2, <4>1, NumFramesAssumption
    <3> HIDE DEF q
    <3> QED
      BY <3>2, <3>3, <3>4 DEF PoolFree, Accepts
  <2>4. SubSeq(bases, 1, i) = SubSeq(bases, 1, i - 1) \o <<bases[i]>>
    BY <1>2, <1>3, SubSeqRecursiveSecond
  <2>5. bases[i] \in Frames /\ <<bases[i]>> \in Seq(Frames)
    BY <1>2, <1>3
  <2>6. p \o (SubSeq(bases, 1, i - 1) \o <<bases[i]>>) = q \o <<bases[i]>>
    <3> DEFINE r == SubSeq(bases, 1, i - 1)
    <3>1. r \in Seq(Frames)
      BY <1>4, <2>1
    <3> HIDE DEF r
    <3>2. p \o (r \o <<bases[i]>>) = (p \o r) \o <<bases[i]>>
      BY <2>5, <3>1, ConcatAssociative
    <3> QED
      BY <3>2 DEF r
  <2>7. q \o <<bases[i]>> = Append(q, bases[i])
    BY <2>2, <2>5, AppendIsConcat
  <2> QED
    BY <2>3, <2>4, <2>6, <2>7
<1>6. g = Rec(g)
  <2>1. p \o SubSeq(bases, 1, 0) = p
    BY <1>3, SubSeqEmpty, ConcatEmptySeq
  <2>2. ASSUME NEW i \in 0 .. n
        PROVE  g[i] = IF i = 0 THEN p ELSE PoolFree(g[i - 1], s[i])
    <3>1. CASE i = 0
      BY <2>1, <3>1
    <3>2. CASE i # 0
      <4>1. i \in 1 .. n /\ i - 1 \in 0 .. n
        BY <1>2, <3>2
      <4> QED
        BY <1>5, <3>2, <4>1
    <3> QED
      BY <3>1, <3>2
  <2> QED
    BY <2>2
<1>7. h = Rec(h)
  BY <1>6
<1> HIDE DEF h
<1>8. \A i \in 0 .. n : h[i] = IF i = 0 THEN p ELSE PoolFree(h[i - 1], s[i])
  BY <1>7
<1>9. h[n] = g[n]
  <2> DEFINE S == {i \in 0 .. n : h[i] = g[i]}
  <2>1. 0 \in S
    BY <1>2, <1>6, <1>8
  <2>2. ASSUME NEW i \in 0 .. n - 1, i \in S PROVE i + 1 \in S
    <3>1. i + 1 \in 1 .. n /\ i + 1 \in 0 .. n /\ (i + 1) - 1 = i /\ i \in 0 .. n
      BY <1>2
    <3>2. h[i + 1] = PoolFree(h[i], s[i + 1]) /\ g[i + 1] = PoolFree(g[i], s[i + 1])
      BY <1>5, <1>8, <3>1
    <3> QED
      BY <2>2, <3>1, <3>2
  <2> HIDE DEF S
  <2>3. 0 .. n \subseteq S
    BY <1>2, <2>1, <2>2, UpTo
  <2>4. n \in S
    BY <1>2, <2>3
  <2> QED
    BY <2>4 DEF S
<1>10. g[n] = p \o SubSeq(bases, 1, n) /\ SubSeq(bases, 1, n) = bases
  BY <1>2, <1>3, SubSeqFull
<1> QED
  BY <1>1, <1>9, <1>10 DEF bases

-----------------------------------------------------------------------------
(* The counters of a produced ring                                          *)

(* Dividing a number below three times the divisor.                         *)
LEMMA ModIs ==
    ASSUME NEW S \in Nat \ {0}, NEW x \in Int, x >= -(2 * S), x < 3 * S
    PROVE  x % S = IF x < -S THEN x + 2 * S ELSE IF x < 0 THEN x + S
                   ELSE IF x < S THEN x ELSE IF x < 2 * S THEN x - S ELSE x - 2 * S
<1>1. CASE x < -S
  <2>1. ((-2) * S + (x + 2 * S)) % S = x + 2 * S
    BY <1>1, OffsetRemainder
  <2> QED
    BY <1>1, <2>1
<1>2. CASE x >= -S /\ x < 0
  <2>1. ((-1) * S + (x + S)) % S = x + S
    BY <1>2, OffsetRemainder
  <2> QED
    BY <1>2, <2>1
<1>3. CASE x >= 0 /\ x < S
  <2>1. (0 * S + x) % S = x
    BY <1>3, OffsetRemainder
  <2> QED
    BY <1>3, <2>1
<1>4. CASE x >= S /\ x < 2 * S
  <2>1. (1 * S + (x - S)) % S = x - S
    BY <1>4, OffsetRemainder
  <2> QED
    BY <1>4, <2>1
<1>5. CASE x >= 2 * S
  <2>1. (2 * S + (x - 2 * S)) % S = x - 2 * S
    BY <1>5, OffsetRemainder
  <2> QED
    BY <1>5, <2>1
<1> QED
  BY <1>1, <1>2, <1>3, <1>4, <1>5

\* The values of a ring's counters.
Counters(size) == 0 .. Wrap(size) - 1

(* Counters below twice the size: their sums and differences.               *)
LEMMA CounterIs ==
    ASSUME NEW size \in Nat \ {0}, NEW c \in Counters(size), NEW d \in Counters(size)
    PROVE  /\ Plus(size, c, d) = IF c + d < 2 * size THEN c + d ELSE c + d - 2 * size
           /\ Minus(size, c, d) = IF c >= d THEN c - d ELSE c - d + 2 * size
           /\ Plus(size, c, d) \in Counters(size)
           /\ Minus(size, c, d) \in Counters(size)
<1>1. c \in Nat /\ d \in Nat /\ c < 2 * size /\ d < 2 * size
  BY DEF Counters, Wrap
<1>2. ASSUME NEW W \in Nat \ {0}, c < W, d < W
      PROVE  /\ (c + d) % W = IF c + d < W THEN c + d ELSE c + d - W
             /\ (c - d + W) % W = IF c >= d THEN c - d ELSE c - d + W
  <2> DEFINE x == c + d
             y == c - d + W
  <2>1. /\ x \in Int /\ x >= 0 /\ x < 2 * W /\ x >= -(2 * W) /\ x < 3 * W
        /\ y \in Int /\ y > 0 /\ y < 2 * W /\ y >= -(2 * W) /\ y < 3 * W
    BY <1>1, <1>2
  <2> HIDE DEF x, y
  <2>2. x % W = IF x < -W THEN x + 2 * W ELSE IF x < 0 THEN x + W
                ELSE IF x < W THEN x ELSE IF x < 2 * W THEN x - W ELSE x - 2 * W
    BY <1>2, <2>1, ModIs, Zenon
  <2>3. y % W = IF y < -W THEN y + 2 * W ELSE IF y < 0 THEN y + W
                ELSE IF y < W THEN y ELSE IF y < 2 * W THEN y - W ELSE y - 2 * W
    BY <1>2, <2>1, ModIs, Zenon
  <2> DEFINE m == x % W
             k == y % W
  <2> HIDE DEF m, k
  <2>4. m = (IF x < W THEN x ELSE x - W) /\ k = (IF y < W THEN y ELSE y - W)
    BY <2>1, <2>2, <2>3 DEF m, k
  <2> QED
    BY <1>1, <2>4 DEF x, y, m, k
<1>3. 2 * size \in Nat \ {0}
  OBVIOUS
<1>4. /\ (c + d) % (2 * size) = IF c + d < 2 * size THEN c + d ELSE c + d - 2 * size
      /\ (c - d + 2 * size) % (2 * size) = IF c >= d THEN c - d ELSE c - d + 2 * size
  BY <1>1, <1>2, <1>3
<1> QED
  BY <1>1, <1>4 DEF Plus, Minus, Counters, Wrap

(* Advancing the left end of a distance lengthens it.                       *)
LEMMA AdvanceLeft ==
    ASSUME NEW size \in Nat \ {0}, NEW a \in Counters(size), NEW b \in Counters(size),
           NEW n \in Nat, Minus(size, a, b) + n <= size
    PROVE  /\ Plus(size, a, n) \in Counters(size)
           /\ Minus(size, Plus(size, a, n), b) = Minus(size, a, b) + n
           /\ Minus(size, Plus(size, a, n), a) = n
<1>1. Minus(size, a, b) \in Nat /\ n \in Counters(size)
  BY CounterIs DEF Counters, Wrap
<1> DEFINE e == Plus(size, a, n)
<1>2. e = (IF a + n < 2 * size THEN a + n ELSE a + n - 2 * size) /\ e \in Counters(size)
  BY <1>1, CounterIs
<1> HIDE DEF e
<1>3. /\ Minus(size, e, b) = IF e >= b THEN e - b ELSE e - b + 2 * size
      /\ Minus(size, e, a) = IF e >= a THEN e - a ELSE e - a + 2 * size
      /\ Minus(size, a, b) = IF a >= b THEN a - b ELSE a - b + 2 * size
  BY <1>2, CounterIs, ZenonT(40)
<1>4. Minus(size, e, b) = Minus(size, a, b) + n /\ Minus(size, e, a) = n
  BY <1>1, <1>2, <1>3 DEF Counters, Wrap
<1> QED
  BY <1>2, <1>4 DEF e

(* Advancing the right end of a distance shortens it.                       *)
LEMMA AdvanceRight ==
    ASSUME NEW size \in Nat \ {0}, NEW a \in Counters(size), NEW b \in Counters(size),
           NEW n \in Nat, n <= Minus(size, a, b)
    PROVE  /\ Plus(size, b, n) \in Counters(size)
           /\ Minus(size, a, Plus(size, b, n)) = Minus(size, a, b) - n
<1>1. Minus(size, a, b) \in Counters(size) /\ n \in Counters(size)
  BY CounterIs DEF Counters, Wrap
<1> DEFINE e == Plus(size, b, n)
<1>2. e = (IF b + n < 2 * size THEN b + n ELSE b + n - 2 * size) /\ e \in Counters(size)
  BY <1>1, CounterIs
<1> HIDE DEF e
<1>3. /\ Minus(size, a, e) = IF a >= e THEN a - e ELSE a - e + 2 * size
      /\ Minus(size, a, b) = IF a >= b THEN a - b ELSE a - b + 2 * size
  BY <1>2, CounterIs
<1>4. Minus(size, a, e) = Minus(size, a, b) - n
  BY <1>1, <1>2, <1>3 DEF Counters, Wrap
<1> QED
  BY <1>2, <1>4 DEF e

-----------------------------------------------------------------------------
(* Rings                                                                    *)

\* Descriptors that are chunks, counters in range, no more submitted than
\* reserved and no more reserved than there are descriptors.
IsRing(r, size) ==
    /\ r \in [desc : [0 .. size - 1 -> Frames], prod : Counters(size),
              cons : Counters(size), cached_prod : Counters(size)]
    /\ RingFilled(r, size) <= Minus(size, r.cached_prod, r.cons)
    /\ Minus(size, r.cached_prod, r.cons) <= size

(* Frame 0 is a frame: what an unwritten descriptor names.                  *)
LEMMA FrameZero == 0 \in Frames
<1>1. 0 \in 0 .. NumFrames - 1 /\ 0 = 0 * ChunkSize
  BY NumFramesAssumption, ChunkSizeAssumption
<1> QED
  BY <1>1 DEF Frames

LEMMA EmptyRingIs ==
    ASSUME NEW size \in Nat \ {0}
    PROVE  IsRing(EmptyRing(size), size) /\ RingFilled(EmptyRing(size), size) = 0
<1>1. 0 \in Counters(size)
  BY DEF Counters, Wrap
<1>2. Minus(size, 0, 0) = 0
  BY <1>1, CounterIs
<1> QED
  BY <1>1, <1>2, FrameZero DEF IsRing, EmptyRing, RingFilled

(* How many are submitted, and how many free.                               *)
LEMMA RingNumbers ==
    ASSUME NEW size \in Nat \ {0}, NEW r, IsRing(r, size)
    PROVE  /\ RingFilled(r, size) \in 0 .. size
           /\ RingFree(r, size) \in 0 .. size
           /\ RingFree(r, size) <= size - RingFilled(r, size)
           /\ r.cached_prod = r.prod => RingFree(r, size) = size - RingFilled(r, size)
<1>1. RingFilled(r, size) \in Counters(size) /\ RingFilled(r, size) \in Nat
  BY CounterIs DEF IsRing, RingFilled, Counters
<1>2. Minus(size, r.cached_prod, r.cons) \in Counters(size)
  BY CounterIs DEF IsRing
<1>3. Minus(size, r.cached_prod, r.cons) \in Nat
  BY <1>2 DEF Counters, Wrap
<1> QED
  BY <1>1, <1>3 DEF IsRing, RingFree, RingFilled

(* Posting keeps a ring a ring and submits as many as were written.         *)
LEMMA PostedIs ==
    ASSUME NEW size \in Nat \ {0}, NEW r, IsRing(r, size), NEW s \in Seq(Frames),
           NEW nb \in Nat, Len(s) <= nb, nb <= RingFree(r, size)
    PROVE  /\ IsRing(Posted(r, size, nb, s), size)
           /\ RingFilled(Posted(r, size, nb, s), size) = RingFilled(r, size) + Len(s)
           /\ Minus(size, Posted(r, size, nb, s).prod, r.prod) = Len(s)
           /\ r.cached_prod = r.prod /\ nb = Len(s) =>
                Posted(r, size, nb, s).cached_prod = Posted(r, size, nb, s).prod
<1> DEFINE q == Posted(r, size, nb, s)
<1>1. Len(s) \in Nat /\ Len(s) \in Counters(size) /\ nb \in Counters(size)
  <2>1. Len(s) \in Nat
    BY LenProperties
  <2>2. RingFree(r, size) \in Nat /\ RingFree(r, size) <= size
    BY RingNumbers
  <2>3. nb <= size /\ Len(s) <= size
    BY <2>1, <2>2
  <2> QED
    BY <2>1, <2>3 DEF Counters, Wrap
<1>2. /\ q.prod = Plus(size, r.prod, Len(s)) /\ q.cons = r.cons
      /\ q.cached_prod = Plus(size, r.cached_prod, nb)
  BY DEF Posted
<1>3. /\ r.prod \in Counters(size) /\ r.cons \in Counters(size)
      /\ r.cached_prod \in Counters(size)
      /\ r.desc \in [0 .. size - 1 -> Frames]
  BY DEF IsRing
<1>4. /\ RingFilled(r, size) = Minus(size, r.prod, r.cons)
      /\ Minus(size, r.prod, r.cons) \in 0 .. size
      /\ Minus(size, r.cached_prod, r.cons) \in 0 .. size
      /\ Minus(size, r.prod, r.cons) + Len(s) <= size
      /\ Minus(size, r.cached_prod, r.cons) + nb <= size
      /\ Minus(size, r.prod, r.cons) <= Minus(size, r.cached_prod, r.cons)
  <2>1. Minus(size, r.prod, r.cons) \in Nat /\ Minus(size, r.cached_prod, r.cons) \in Nat
    <3>1. Minus(size, r.prod, r.cons) \in Counters(size)
      BY <1>3, CounterIs
    <3>2. Minus(size, r.cached_prod, r.cons) \in Counters(size)
      BY <1>3, CounterIs
    <3> QED
      BY <3>1, <3>2 DEF Counters, Wrap
  <2> QED
    BY <1>1, <2>1 DEF IsRing, RingFilled, RingFree
<1>5. q.desc \in [0 .. size - 1 -> Frames]
  <2> SUFFICES ASSUME NEW c \in 0 .. size - 1
               PROVE  (LET k == (c - r.cached_prod) % size
                       IN  IF k < Len(s) THEN s[k + 1] ELSE r.desc[c]) \in Frames
    BY DEF Posted
  <2>1. (c - r.cached_prod) % size \in 0 .. size - 1
    <3>1. c - r.cached_prod \in Int
      BY <1>3 DEF Counters, Wrap
    <3> QED
      BY <3>1
  <2> HIDE DEF q
  <2> QED
    BY <1>1, <1>3, <2>1, ElementOfSeq
<1>6. q = [desc |-> q.desc, prod |-> q.prod, cons |-> q.cons, cached_prod |-> q.cached_prod]
  BY DEF Posted
<1>7. /\ q.prod \in Counters(size) /\ q.cached_prod \in Counters(size)
      /\ Minus(size, q.prod, r.cons) = Minus(size, r.prod, r.cons) + Len(s)
      /\ Minus(size, q.cached_prod, r.cons) = Minus(size, r.cached_prod, r.cons) + nb
      /\ Minus(size, q.prod, r.prod) = Len(s)
  <2>1. /\ Plus(size, r.prod, Len(s)) \in Counters(size)
        /\ Minus(size, Plus(size, r.prod, Len(s)), r.cons)
             = Minus(size, r.prod, r.cons) + Len(s)
        /\ Minus(size, Plus(size, r.prod, Len(s)), r.prod) = Len(s)
    <3> DEFINE a == r.prod
               b == r.cons
               n == Len(s)
    <3>1. a \in Counters(size) /\ b \in Counters(size) /\ n \in Nat
      BY <1>1, <1>3
    <3>2. Minus(size, a, b) + n <= size
      BY <1>4
    <3> HIDE DEF a, b, n
    <3>3. /\ Plus(size, a, n) \in Counters(size)
          /\ Minus(size, Plus(size, a, n), b) = Minus(size, a, b) + n
          /\ Minus(size, Plus(size, a, n), a) = n
      BY <3>1, <3>2, AdvanceLeft
    <3> QED
      BY <3>3 DEF a, b, n
  <2>2. /\ Plus(size, r.cached_prod, nb) \in Counters(size)
        /\ Minus(size, Plus(size, r.cached_prod, nb), r.cons)
             = Minus(size, r.cached_prod, r.cons) + nb
    <3> DEFINE a == r.cached_prod
               b == r.cons
    <3>1. a \in Counters(size) /\ b \in Counters(size)
      BY <1>3
    <3>2. Minus(size, a, b) + nb <= size
      BY <1>4
    <3> HIDE DEF a, b
    <3>3. /\ Plus(size, a, nb) \in Counters(size)
          /\ Minus(size, Plus(size, a, nb), b) = Minus(size, a, b) + nb
      BY <3>1, <3>2, AdvanceLeft
    <3> QED
      BY <3>3 DEF a, b
  <2> HIDE DEF q
  <2> QED
    BY <1>2, <2>1, <2>2
<1>8. q \in [desc : [0 .. size - 1 -> Frames], prod : Counters(size),
              cons : Counters(size), cached_prod : Counters(size)]
  <2> HIDE DEF q
  <2> QED
    BY <1>2, <1>3, <1>5, <1>6, <1>7
<1> HIDE DEF q
<1>9. IsRing(q, size) /\ RingFilled(q, size) = RingFilled(r, size) + Len(s)
  BY <1>1, <1>2, <1>4, <1>7, <1>8 DEF IsRing, RingFilled
<1>10. r.cached_prod = r.prod /\ nb = Len(s) => q.cached_prod = q.prod
  BY <1>2
<1> QED
  BY <1>7, <1>9, <1>10 DEF q

(* Taking the oldest descriptor keeps a ring a ring.                        *)
LEMMA TakenIs ==
    ASSUME NEW size \in Nat \ {0}, NEW r, IsRing(r, size), RingFilled(r, size) > 0
    PROVE  /\ IsRing(RingTaken(r, size), size)
           /\ RingFilled(RingTaken(r, size), size) = RingFilled(r, size) - 1
           /\ RingTaken(r, size).cached_prod = r.cached_prod
           /\ RingTaken(r, size).prod = r.prod
           /\ RingTaken(r, size).desc = r.desc
           /\ RingTaken(r, size).cons = Plus(size, r.cons, 1)
           /\ RingHead(r, size) \in Frames
<1> DEFINE q == RingTaken(r, size)
           a == r.prod
           b == r.cons
           d == r.cached_prod
<1>1. /\ a \in Counters(size) /\ b \in Counters(size) /\ d \in Counters(size)
      /\ r.desc \in [0 .. size - 1 -> Frames]
  BY DEF IsRing
<1>2. /\ q.prod = a /\ q.cached_prod = d /\ q.desc = r.desc
      /\ q.cons = Plus(size, b, 1)
      /\ q = [desc |-> r.desc, prod |-> a, cons |-> Plus(size, b, 1), cached_prod |-> d]
  BY DEF RingTaken, IsRing
<1>3. Minus(size, a, b) <= Minus(size, d, b) /\ Minus(size, d, b) <= size /\ Minus(size, a, b) > 0
  BY DEF IsRing, RingFilled
<1>4. Minus(size, a, b) \in Nat /\ Minus(size, d, b) \in Nat
  <2> HIDE DEF a, b, d
  <2>1. Minus(size, a, b) \in Counters(size) /\ Minus(size, d, b) \in Counters(size)
    BY <1>1, CounterIs
  <2> QED
    BY <2>1 DEF Counters, Wrap
<1>5. /\ Plus(size, b, 1) \in Counters(size)
      /\ Minus(size, a, Plus(size, b, 1)) = Minus(size, a, b) - 1
      /\ Minus(size, d, Plus(size, b, 1)) = Minus(size, d, b) - 1
  <2> HIDE DEF a, b, d
  <2>1. 1 <= Minus(size, a, b) /\ 1 <= Minus(size, d, b) /\ 1 \in Nat
    BY <1>3, <1>4
  <2> QED
    BY <1>1, <2>1, AdvanceRight
<1>6. r.cons % size \in 0 .. size - 1
  BY <1>1 DEF Counters, Wrap
<1>7. q \in [desc : [0 .. size - 1 -> Frames], prod : Counters(size),
             cons : Counters(size), cached_prod : Counters(size)]
  <2> HIDE DEF q, a, b, d
  <2> QED
    BY <1>1, <1>2, <1>5
<1>8. IsRing(q, size) /\ RingFilled(q, size) = RingFilled(r, size) - 1
  <2>1. RingFilled(r, size) = Minus(size, a, b)
    BY DEF RingFilled
  <2> HIDE DEF q, a, b, d
  <2> QED
    BY <1>2, <1>3, <1>4, <1>5, <1>7, <2>1 DEF IsRing, RingFilled
<1> QED
  BY <1>1, <1>2, <1>6, <1>8 DEF RingHead

(* The submitted descriptors form a sequence of frames.                     *)
LEMMA WindowIs ==
    ASSUME NEW size \in Nat \ {0}, NEW r, IsRing(r, size)
    PROVE  /\ Window(r, size) \in Seq(Frames)
           /\ Len(Window(r, size)) = RingFilled(r, size)
           /\ DOMAIN Window(r, size) = 1 .. RingFilled(r, size)
           /\ \A k \in 1 .. RingFilled(r, size) :
                 Window(r, size)[k] = r.desc[(r.cons + k - 1) % size]
<1> DEFINE n == RingFilled(r, size)
<1>1. n \in Nat
  BY RingNumbers
<1>2. r.cons \in Int /\ r.desc \in [0 .. size - 1 -> Frames]
  BY DEF IsRing, Counters, Wrap
<1>3. ASSUME NEW k \in 1 .. n PROVE r.desc[(r.cons + k - 1) % size] \in Frames
  <2>1. r.cons + k - 1 \in Int
    BY <1>1, <1>2
  <2>2. (r.cons + k - 1) % size \in 0 .. size - 1
    BY <2>1
  <2> QED
    BY <1>2, <2>2
<1> HIDE DEF n
<1> QED
  BY <1>1, <1>3 DEF Window, n

(* A slot reached from the consumer's end, seen from the producer's.        *)
LEMMA OffsetOf ==
    ASSUME NEW size \in Nat \ {0}, NEW a \in Counters(size), NEW b \in Counters(size),
           NEW m \in Int
    PROVE  (((b + m) % size) - a) % size = (m - Minus(size, a, b)) % size
<1>1. a \in Int /\ b \in Int
  BY DEF Counters, Wrap
<1> DEFINE x == b + m
           c == x % size
           n == Minus(size, a, b)
<1>2. x \in Int /\ x = b + m
  BY <1>1
<1> HIDE DEF x
<1>3. c \in Int /\ c = x % size
  BY <1>2
<1> HIDE DEF c
<1>4. PICK q \in Int : x = q * size + c
  BY <1>2, <1>3, Remainder, ZenonT(40)
<1>5. n = a - b \/ n = a - b + 2 * size
  BY CounterIs
<1> HIDE DEF n
<1>6. n \in Int /\ m - n \in Int
  BY <1>1, <1>5
<1>7. \E k \in Int : c - a = (m - n) + k * size
  <2>1. CASE n = a - b
    <3>1. c - a = (m - n) + (-q) * size
      BY <1>1, <1>2, <1>3, <1>4, <2>1
    <3>2. -q \in Int
      OBVIOUS
    <3> QED
      BY <3>1, <3>2, Zenon
  <2>2. CASE n = a - b + 2 * size
    <3>1. c - a = (m - n) + (2 - q) * size
      BY <1>1, <1>2, <1>3, <1>4, <2>2
    <3>2. 2 - q \in Int
      OBVIOUS
    <3> QED
      BY <3>1, <3>2, Zenon
  <2> QED
    BY <1>5, <2>1, <2>2
<1>8. (c - a) % size = (m - n) % size
  BY <1>6, <1>7, SameClass, ZenonT(40)
<1> QED
  BY <1>8 DEF c, n, x

(* A counter that has wrapped stands for the same slot.                     *)
LEMMA SlotOfPlus ==
    ASSUME NEW size \in Nat \ {0}, NEW b \in Counters(size), NEW m \in Int
    PROVE  (Plus(size, b, 1) + m) % size = (b + 1 + m) % size
<1>1. b \in Int /\ 1 \in Counters(size)
  BY DEF Counters, Wrap
<1>2. Plus(size, b, 1) = b + 1 \/ Plus(size, b, 1) = b + 1 - 2 * size
  BY <1>1, CounterIs
<1>3. CASE Plus(size, b, 1) = b + 1
  BY <1>3
<1>4. CASE Plus(size, b, 1) = b + 1 - 2 * size
  <2> DEFINE x == b + 1 + m
             k == -2
  <2>1. x \in Int /\ k \in Int /\ Plus(size, b, 1) + m = x + k * size
    BY <1>1, <1>4
  <2> HIDE DEF x, k
  <2>2. (x + k * size) % size = x % size
    BY <2>1, SameClass
  <2> QED
    BY <2>1, <2>2 DEF x
<1> QED
  BY <1>2, <1>3, <1>4

(* Posting everything that was reserved appends to the window.              *)
LEMMA WindowPosted ==
    ASSUME NEW size \in Nat \ {0}, NEW r, IsRing(r, size), NEW s \in Seq(Frames),
           r.cached_prod = r.prod, Len(s) <= RingFree(r, size)
    PROVE  LET q == Posted(r, size, Len(s), s)
               n == RingFilled(r, size)
           IN  /\ \A k \in 1 .. n : Window(q, size)[k] = Window(r, size)[k]
               /\ \A k \in 1 .. Len(s) : Window(q, size)[n + k] = s[k]
<1> DEFINE q == Posted(r, size, Len(s), s)
           n == RingFilled(r, size)
           a == r.cached_prod
           b == r.cons
<1>1. /\ Len(s) \in Nat /\ n \in 0 .. size /\ n + Len(s) <= size
      /\ a \in Counters(size) /\ b \in Counters(size) /\ n = Minus(size, a, b)
  BY LenProperties, RingNumbers DEF IsRing, RingFilled
<1>2. IsRing(q, size) /\ RingFilled(q, size) = n + Len(s) /\ q.cons = b
  <2>1. q.cons = b
    BY DEF Posted
  <2> QED
    BY <1>1, <2>1, PostedIs
<1>3. \A c \in 0 .. size - 1 :
         q.desc[c] = LET k == (c - a) % size IN IF k < Len(s) THEN s[k + 1] ELSE r.desc[c]
  BY DEF Posted
<1>4. b \in Int
  BY <1>1 DEF Counters, Wrap
<1> HIDE DEF a, b, n, q
<1>5. ASSUME NEW k \in 1 .. n + Len(s)
      PROVE  /\ Window(q, size)[k] = q.desc[(b + (k - 1)) % size]
             /\ (b + (k - 1)) % size \in 0 .. size - 1
             /\ (((b + (k - 1)) % size) - a) % size
                  = IF k <= n THEN k - 1 - n + size ELSE k - 1 - n
  <2>1. Window(q, size)[k] = q.desc[(b + k - 1) % size]
    BY <1>2, WindowIs
  <2>2. b + k - 1 = b + (k - 1) /\ k - 1 \in Int /\ b + (k - 1) \in Int
    BY <1>1, <1>4
  <2>3. (b + (k - 1)) % size \in 0 .. size - 1
    BY <2>2
  <2>4. (((b + (k - 1)) % size) - a) % size = (k - 1 - n) % size
    BY <1>1, <2>2, OffsetOf
  <2> DEFINE x == k - 1 - n
  <2>5. x \in Int /\ x >= -size /\ x < size /\ x >= -(2 * size) /\ x < 3 * size /\ (x < 0 <=> k <= n)
    BY <1>1
  <2> HIDE DEF x
  <2>6. x % size = IF x < -size THEN x + 2 * size ELSE IF x < 0 THEN x + size
                   ELSE IF x < size THEN x ELSE IF x < 2 * size THEN x - size ELSE x - 2 * size
    BY <2>5, ModIs, Zenon
  <2> DEFINE e == x % size
  <2> HIDE DEF e
  <2>7. e = IF k <= n THEN x + size ELSE x
    BY <2>5, <2>6 DEF e
  <2> QED
    BY <2>1, <2>2, <2>3, <2>4, <2>7 DEF e, x
<1>6. ASSUME NEW k \in 1 .. n PROVE Window(q, size)[k] = Window(r, size)[k]
  <2>1. k \in 1 .. n + Len(s) /\ k - 1 - n + size >= Len(s) /\ b + k - 1 = b + (k - 1)
    BY <1>1, <1>4
  <2>2. Window(q, size)[k] = r.desc[(b + (k - 1)) % size]
    <3> DEFINE c == (b + (k - 1)) % size
    <3>1. /\ Window(q, size)[k] = q.desc[c] /\ c \in 0 .. size - 1
          /\ (c - a) % size = k - 1 - n + size
      BY <1>1, <1>5, <2>1
    <3> HIDE DEF c
    <3>2. ~((c - a) % size < Len(s))
      BY <1>1, <2>1, <3>1
    <3>3. Window(q, size)[k] = r.desc[c]
      BY <1>3, <3>1, <3>2
    <3> QED
      BY <3>3 DEF c
  <2>3. Window(r, size)[k] = r.desc[(b + k - 1) % size]
    BY WindowIs DEF n, b
  <2> QED
    BY <2>1, <2>2, <2>3
<1>7. ASSUME NEW k \in 1 .. Len(s) PROVE Window(q, size)[n + k] = s[k]
  <2>1. n + k \in 1 .. n + Len(s) /\ ~(n + k <= n) /\ (n + k) - 1 - n = k - 1 /\ k - 1 < Len(s)
        /\ (k - 1) + 1 = k
    BY <1>1
  <2>2. (((b + ((n + k) - 1)) % size) - a) % size = k - 1
    BY <1>5, <2>1
  <2> QED
    BY <1>3, <1>5, <2>1, <2>2
<1> QED
  BY <1>6, <1>7 DEF q, n

(* Taking the oldest descriptor removes the head of the window.             *)
LEMMA WindowTaken ==
    ASSUME NEW size \in Nat \ {0}, NEW r, IsRing(r, size), RingFilled(r, size) > 0
    PROVE  /\ Window(r, size)[1] = RingHead(r, size)
           /\ \A k \in 1 .. RingFilled(r, size) - 1 :
                 Window(RingTaken(r, size), size)[k] = Window(r, size)[k + 1]
<1> DEFINE q == RingTaken(r, size)
           n == RingFilled(r, size)
           b == r.cons
<1>1. n \in Nat /\ n > 0 /\ b \in Counters(size) /\ b \in Int
  BY RingNumbers DEF IsRing, Counters, Wrap
<1>2. IsRing(q, size) /\ RingFilled(q, size) = n - 1 /\ q.desc = r.desc /\ q.cons = Plus(size, b, 1)
  BY TakenIs
<1>3. \A k \in 1 .. n : Window(r, size)[k] = r.desc[(b + k - 1) % size]
  BY WindowIs
<1>4. \A k \in 1 .. n - 1 : Window(q, size)[k] = q.desc[(q.cons + k - 1) % size]
  BY <1>2, WindowIs
<1>5. Window(r, size)[1] = RingHead(r, size)
  <2>1. b + 1 - 1 = b /\ 1 \in 1 .. n
    BY <1>1
  <2> QED
    BY <1>3, <2>1 DEF RingHead
<1> HIDE DEF q, n, b
<1>6. ASSUME NEW k \in 1 .. n - 1 PROVE Window(q, size)[k] = Window(r, size)[k + 1]
  <2>1. Plus(size, b, 1) \in Int
    <3>1. 1 \in Counters(size)
      BY DEF Counters, Wrap
    <3>2. Plus(size, b, 1) \in Counters(size)
      BY <1>1, <3>1, CounterIs
    <3> QED
      BY <3>2 DEF Counters, Wrap
  <2>2. /\ k + 1 \in 1 .. n /\ k - 1 \in Int
        /\ Plus(size, b, 1) + k - 1 = Plus(size, b, 1) + (k - 1)
        /\ b + (k + 1) - 1 = b + 1 + (k - 1)
    BY <1>1, <2>1
  <2>3. (Plus(size, b, 1) + (k - 1)) % size = (b + 1 + (k - 1)) % size
    BY <1>1, <2>2, SlotOfPlus
  <2> QED
    BY <1>2, <1>3, <1>4, <2>2, <2>3
<1> QED
  BY <1>5, <1>6 DEF q, n

(* The same two facts for the sets of frames in the window.                 *)
LEMMA WindowSets ==
    ASSUME NEW size \in Nat \ {0}, NEW r, IsRing(r, size)
    PROVE  /\ \A s \in Seq(Frames) :
                 r.cached_prod = r.prod /\ Len(s) <= RingFree(r, size) =>
                   ToSet(Window(Posted(r, size, Len(s), s), size))
                     = ToSet(Window(r, size)) \cup ToSet(s)
           /\ RingFilled(r, size) > 0 =>
                ToSet(Window(r, size))
                  = {RingHead(r, size)} \cup ToSet(Window(RingTaken(r, size), size))
<1> DEFINE n == RingFilled(r, size)
           w == Window(r, size)
<1>1. n \in Nat /\ DOMAIN w = 1 .. n
  BY RingNumbers, WindowIs
<1>2. ASSUME NEW s \in Seq(Frames), r.cached_prod = r.prod, Len(s) <= RingFree(r, size)
      PROVE  ToSet(Window(Posted(r, size, Len(s), s), size)) = ToSet(w) \cup ToSet(s)
  <2> DEFINE q == Posted(r, size, Len(s), s)
             v == Window(q, size)
             m == Len(s)
  <2>1. m \in Nat /\ DOMAIN s = 1 .. m
    BY LenProperties
  <2>2. DOMAIN v = 1 .. n + m
    <3>1. IsRing(q, size) /\ RingFilled(q, size) = n + m
      BY <1>2, <2>1, PostedIs
    <3> HIDE DEF q
    <3> QED
      BY <3>1, WindowIs
  <2>3. (\A k \in 1 .. n : v[k] = w[k]) /\ (\A k \in 1 .. m : v[n + k] = s[k])
    BY <1>2, WindowPosted
  <2> HIDE DEF q, v, w, n, m
  <2>4. ASSUME NEW k \in 1 .. n + m PROVE v[k] \in ToSet(w) \cup ToSet(s)
    <3>1. CASE k <= n
      <4>1. k \in 1 .. n
        BY <1>1, <2>1, <3>1
      <4> QED
        BY <1>1, <2>3, <4>1 DEF ToSet
    <3>2. CASE k > n
      <4>1. k - n \in 1 .. m /\ n + (k - n) = k
        BY <1>1, <2>1, <3>2
      <4> QED
        BY <2>1, <2>3, <4>1 DEF ToSet
    <3> QED
      BY <1>1, <2>1, <3>1, <3>2
  <2>5. \A k \in 1 .. n : k \in 1 .. n + m
    BY <1>1, <2>1
  <2>6. \A k \in 1 .. m : n + k \in 1 .. n + m
    BY <1>1, <2>1
  <2>7. ToSet(w) \subseteq ToSet(v) /\ ToSet(s) \subseteq ToSet(v)
    BY <1>1, <2>1, <2>2, <2>3, <2>5, <2>6 DEF ToSet
  <2>8. ToSet(v) \subseteq ToSet(w) \cup ToSet(s)
    BY <2>2, <2>4 DEF ToSet
  <2> QED
    BY <2>7, <2>8 DEF v, q
<1>3. ASSUME n > 0
      PROVE  ToSet(w) = {RingHead(r, size)} \cup ToSet(Window(RingTaken(r, size), size))
  <2> DEFINE q == RingTaken(r, size)
             v == Window(q, size)
  <2>1. DOMAIN v = 1 .. n - 1
    BY <1>3, TakenIs, WindowIs
  <2>2. w[1] = RingHead(r, size) /\ \A k \in 1 .. n - 1 : v[k] = w[k + 1]
    BY <1>3, WindowTaken
  <2> HIDE DEF q, v, w, n
  <2>3. 1 \in 1 .. n /\ \A k \in 1 .. n - 1 : k + 1 \in 1 .. n
    BY <1>1, <1>3
  <2>4. ASSUME NEW k \in 1 .. n PROVE w[k] \in {RingHead(r, size)} \cup ToSet(v)
    <3>1. CASE k = 1
      BY <2>2, <3>1
    <3>2. CASE k # 1
      <4>1. k - 1 \in 1 .. n - 1 /\ (k - 1) + 1 = k
        BY <1>1, <3>2
      <4> QED
        BY <2>1, <2>2, <4>1 DEF ToSet
    <3> QED
      BY <3>1, <3>2
  <2>5. ToSet(v) \subseteq ToSet(w) /\ RingHead(r, size) \in ToSet(w)
    BY <1>1, <2>1, <2>2, <2>3 DEF ToSet
  <2>6. ToSet(w) \subseteq {RingHead(r, size)} \cup ToSet(v)
    BY <1>1, <2>4 DEF ToSet
  <2> QED
    BY <2>5, <2>6 DEF v, q
<1> QED
  BY <1>2, <1>3

-----------------------------------------------------------------------------
(* The pool                                                                 *)

(* Allocating n frames splits the pool.                                     *)
LEMMA AllocatedIs ==
    ASSUME NEW p \in Seq(Frames), NEW n \in 0 .. Len(p)
    PROVE  /\ Allocated(p, n) \in Seq(Frames) /\ Len(Allocated(p, n)) = n
           /\ Popped(p, n) \in Seq(Frames) /\ Len(Popped(p, n)) = Len(p) - n
           /\ ToSet(p) \subseteq ToSet(Popped(p, n)) \cup ToSet(Allocated(p, n))
<1> DEFINE m == Len(p)
           a == Allocated(p, n)
           q == Popped(p, n)
<1>1. m \in Nat /\ DOMAIN p = 1 .. m /\ \A i \in 1 .. m : p[i] \in Frames
  BY LenProperties
<1>2. \A k \in 1 .. n : m - k + 1 \in 1 .. m
  BY <1>1
<1>3. a \in Seq(Frames) /\ Len(a) = n /\ DOMAIN a = 1 .. n /\ \A k \in 1 .. n : a[k] = p[m - k + 1]
  BY <1>1, <1>2 DEF Allocated
<1>4. /\ q \in Seq(Frames) /\ Len(q) = m - n /\ DOMAIN q = 1 .. m - n
      /\ \A i \in 1 .. m - n : q[i] = p[i]
  <2>1. \A i \in 1 .. m - n : p[i] \in Frames
    BY <1>1
  <2>2. m - n \in Nat /\ q = SubSeq(p, 1, m - n)
    BY <1>1 DEF Popped
  <2> HIDE DEF q, m
  <2> QED
    BY <2>1, <2>2, SubSeqProperties, LenProperties
<1> HIDE DEF a, q, m
<1>5. ASSUME NEW i \in 1 .. m PROVE p[i] \in ToSet(q) \cup ToSet(a)
  <2>1. CASE i <= m - n
    <3>1. i \in 1 .. m - n
      BY <1>1, <2>1
    <3> QED
      BY <1>4, <3>1 DEF ToSet
  <2>2. CASE i > m - n
    <3>1. m - i + 1 \in 1 .. n /\ m - (m - i + 1) + 1 = i
      BY <1>1, <2>2 DEF m
    <3> QED
      BY <1>3, <3>1 DEF ToSet
  <2> QED
    BY <1>1, <2>1, <2>2 DEF m
<1>6. ToSet(p) \subseteq ToSet(q) \cup ToSet(a)
  BY <1>1, <1>5 DEF ToSet
<1> QED
  BY <1>3, <1>4, <1>6 DEF a, q, m

\* The addresses at which the kernel places received packets.
Landed == {f + Headroom : f \in Frames}

(* Any address inside a chunk is masked down to that chunk.                 *)
LEMMA BaseOfLanded ==
    ASSUME NEW addr \in Landed \cup Frames
    PROVE  /\ addr \in Addrs /\ addr \in Int
           /\ ChunkBase(addr) \in Frames
           /\ ChunkBase(addr) < NumFrames * ChunkSize
           /\ addr \in Frames => ChunkBase(addr) = addr
           /\ \A f \in Frames : addr = f + Headroom => ChunkBase(addr) = f
<1>1. PICK f \in Frames, o \in 0 .. ChunkSize - 1 : addr = f + o /\ o \in {0, Headroom}
  <2>1. \A f \in Frames : f \in Int
    BY ChunkSizeAssumption, NumFramesAssumption DEF Frames
  <2>2. 0 \in 0 .. ChunkSize - 1 /\ Headroom \in 0 .. ChunkSize - 1
    BY ChunkSizeAssumption, HeadroomAssumption
  <2>3. CASE addr \in Frames
    BY <2>1, <2>2, <2>3
  <2>4. CASE addr \in Landed
    BY <2>1, <2>2, <2>4 DEF Landed
  <2> QED
    BY <2>3, <2>4
<1>2. ASSUME NEW g \in Frames, NEW p \in 0 .. ChunkSize - 1
      PROVE  /\ g \in Nat /\ g + p < NumFrames * ChunkSize
             /\ ChunkBase(g + p) = g
  <2>1. PICK k \in 0 .. NumFrames - 1 : g = k * ChunkSize
    BY DEF Frames
  <2>2. (k * ChunkSize + p) % ChunkSize = p
    BY <2>1, OffsetRemainder, ChunkSizeAssumption, NumFramesAssumption
  <2>3. k * ChunkSize \in Nat
    BY <2>1, ChunkSizeAssumption, NumFramesAssumption
  <2>4. (NumFrames - 1 - k) * ChunkSize >= 0
    BY <2>1, ChunkSizeAssumption, NumFramesAssumption
  <2>5. NumFrames * ChunkSize - ChunkSize - k * ChunkSize >= 0
    BY <2>1, <2>4, ChunkSizeAssumption, NumFramesAssumption
  <2>6. NumFrames * ChunkSize \in Int
    BY ChunkSizeAssumption, NumFramesAssumption
  <2> DEFINE e == k * ChunkSize
             t == NumFrames * ChunkSize
  <2>7. e + p < t
    <3> HIDE DEF e, t
    <3>1. e \in Nat /\ t \in Int /\ t - ChunkSize - e >= 0
      BY <2>3, <2>5, <2>6 DEF e, t
    <3> QED
      BY <3>1, ChunkSizeAssumption
  <2> QED
    BY <2>1, <2>2, <2>3, <2>7, ChunkSizeAssumption DEF ChunkBase
<1>3. ChunkBase(addr) = f /\ f \in Nat /\ addr < NumFrames * ChunkSize
  BY <1>1, <1>2
<1>4. addr \in Int /\ addr >= 0 /\ NumFrames * ChunkSize \in Int
  BY <1>1, <1>3, ChunkSizeAssumption, NumFramesAssumption
<1>5. ASSUME addr \in Frames PROVE ChunkBase(addr) = addr
  <2>1. 0 \in 0 .. ChunkSize - 1 /\ addr + 0 = addr
    BY <1>4, ChunkSizeAssumption
  <2> QED
    BY <1>2, <1>5, <2>1
<1>6. ASSUME NEW g \in Frames, addr = g + Headroom PROVE ChunkBase(addr) = g
  BY <1>2, <1>6, HeadroomAssumption
<1>7. ChunkBase(addr) < NumFrames * ChunkSize
  <2>1. 0 \in 0 .. ChunkSize - 1 /\ f + 0 = f
    BY <1>3, ChunkSizeAssumption
  <2> QED
    BY <1>2, <1>3, <2>1
<1>8. addr \in Addrs
  BY <1>3, <1>4 DEF Addrs
<1> QED
  BY <1>3, <1>4, <1>5, <1>6, <1>7, <1>8

(* Freeing the first n addresses of s moves their chunks to the pool and    *)
(* leaves the rest of s.                                                    *)
LEMMA FreedIs ==
    ASSUME NEW p \in Seq(Frames), NEW s \in Seq(Landed \cup Frames), NEW n \in 0 .. Len(s),
           Len(p) + n <= NumFrames
    PROVE  LET q == PoolFreeAll(p, SubSeq(s, 1, n))
               t == SubSeq(s, n + 1, Len(s))
           IN  /\ q \in Seq(Frames) /\ Len(q) = Len(p) + n
               /\ t \in Seq(Landed \cup Frames) /\ Len(t) = Len(s) - n
               /\ \A i \in 1 .. Len(t) : t[i] = s[n + i]
               /\ ToSet(p) \subseteq ToSet(q)
               /\ \A i \in DOMAIN s : \/ ChunkBase(s[i]) \in ToSet(q)
                                      \/ \E j \in DOMAIN t : t[j] = s[i]
<1> DEFINE m == Len(s)
           u == SubSeq(s, 1, n)
           t == SubSeq(s, n + 1, m)
           bases == [i \in 1 .. Len(u) |-> ChunkBase(u[i])]
           q == PoolFreeAll(p, u)
<1>1. /\ m \in Nat /\ DOMAIN s = 1 .. m /\ Len(p) \in Nat /\ DOMAIN p = 1 .. Len(p)
      /\ \A i \in 1 .. m : s[i] \in Landed \cup Frames
  BY LenProperties
<1>2. /\ u \in Seq(Landed \cup Frames) /\ Len(u) = n /\ \A i \in 1 .. n : u[i] = s[i]
  <2>1. (\A i \in 1 .. n : s[i] \in Landed \cup Frames) /\ 1 \in Int /\ n \in Int
    BY <1>1
  <2> HIDE DEF u
  <2> QED
    BY <1>1, <2>1, SubSeqProperties DEF u
<1>3. /\ t \in Seq(Landed \cup Frames) /\ Len(t) = m - n /\ DOMAIN t = 1 .. m - n
      /\ \A i \in 1 .. m - n : t[i] = s[n + i]
  <2>1. (\A i \in n + 1 .. m : s[i] \in Landed \cup Frames) /\ n + 1 \in Int /\ m \in Int
    BY <1>1
  <2>2. /\ t \in Seq(Landed \cup Frames) /\ Len(t) = IF n + 1 <= m THEN m - (n + 1) + 1 ELSE 0
        /\ \A i \in 1 .. m - (n + 1) + 1 : t[i] = s[(n + 1) + i - 1]
    <3> HIDE DEF t, m
    <3> QED
      BY <2>1, SubSeqProperties, SMTT(40) DEF t
  <2>3. DOMAIN t = 1 .. Len(t)
    BY <2>2, LenProperties
  <2>4. m - (n + 1) + 1 = m - n /\ \A i \in 1 .. m - n : (n + 1) + i - 1 = n + i
    BY <1>1
  <2>5. n \in Nat /\ m \in Nat /\ n <= m
    BY <1>1
  <2> HIDE DEF t, m
  <2>6. Len(t) = IF n + 1 <= m THEN m - (n + 1) + 1 ELSE 0
    BY <2>2
  <2>7. Len(t) = m - n
    BY <2>5, <2>6
  <2> QED
    BY <2>2, <2>3, <2>4, <2>7
<1> HIDE DEF u, t
<1>4. /\ u \in Seq(Int)
      /\ \A i \in 1 .. Len(u) : ChunkBase(u[i]) \in Frames /\ ChunkBase(u[i]) < NumFrames * ChunkSize
  <2>1. \A i \in 1 .. n : u[i] \in Landed \cup Frames
    BY <1>1, <1>2
  <2>2. Landed \cup Frames \subseteq Int
    BY BaseOfLanded
  <2>3. u \in Seq(Int)
    BY <1>2, <2>2, SeqMonotonic
  <2> QED
    BY <1>2, <2>1, <2>3, BaseOfLanded
<1>5. q = p \o bases
  <2>1. Len(p) + Len(u) <= NumFrames
    BY <1>2
  <2> QED
    BY <1>4, <2>1, PoolFreeAllAppends
<1>6. bases \in Seq(Frames) /\ Len(bases) = n /\ \A i \in 1 .. n : bases[i] = ChunkBase(s[i])
  BY <1>2, <1>4
<1> HIDE DEF bases, q
<1>7. /\ q \in Seq(Frames) /\ Len(q) = Len(p) + n /\ DOMAIN q = 1 .. Len(p) + n
      /\ \A i \in 1 .. Len(p) : q[i] = p[i]
      /\ \A i \in 1 .. n : q[Len(p) + i] = ChunkBase(s[i])
  <2>1. /\ q \in Seq(Frames) /\ Len(q) = Len(p) + n
        /\ \A i \in 1 .. Len(p) + n : q[i] = IF i <= Len(p) THEN p[i] ELSE bases[i - Len(p)]
    BY <1>5, <1>6, ConcatProperties
  <2>2. DOMAIN q = 1 .. Len(p) + n
    BY <2>1, LenProperties
  <2>3. ASSUME NEW i \in 1 .. n PROVE q[Len(p) + i] = ChunkBase(s[i])
    <3>1. Len(p) + i \in 1 .. Len(p) + n /\ ~(Len(p) + i <= Len(p)) /\ (Len(p) + i) - Len(p) = i
      BY <1>1
    <3> QED
      BY <1>6, <2>1, <3>1
  <2>4. \A i \in 1 .. Len(p) : q[i] = p[i]
    BY <1>1, <2>1
  <2> QED
    BY <2>1, <2>2, <2>3, <2>4
<1>8. ToSet(p) \subseteq ToSet(q)
  <2>1. \A i \in 1 .. Len(p) : i \in 1 .. Len(p) + n
    BY <1>1
  <2> QED
    BY <1>1, <1>7, <2>1 DEF ToSet
<1>9. ASSUME NEW i \in 1 .. m
      PROVE  ChunkBase(s[i]) \in ToSet(q) \/ \E j \in DOMAIN t : t[j] = s[i]
  <2>1. CASE i <= n
    <3>1. i \in 1 .. n /\ Len(p) + i \in 1 .. Len(p) + n
      BY <1>1, <2>1
    <3> QED
      BY <1>7, <3>1 DEF ToSet
  <2>2. CASE i > n
    <3>1. i - n \in 1 .. m - n /\ n + (i - n) = i
      BY <1>1, <2>2
    <3> QED
      BY <1>3, <3>1
  <2> QED
    BY <1>1, <2>1, <2>2
<1> QED
  BY <1>1, <1>3, <1>7, <1>8, <1>9 DEF q, u, t

-----------------------------------------------------------------------------
(* The invariants                                                           *)

(* What holds of the pool, the rings and the queues for every choice of     *)
(* sizes: they carry chunk addresses only, none of them overflows, and the  *)
(* number of entries in all of them together is the number of frames.       *)
SocketInv ==
    /\ pool \in Seq(Frames)
    /\ IsRing(fill, FillSize) /\ IsRing(tx, TxSize)
    /\ rx \in Seq(Landed) /\ Len(rx) <= RxSize
    /\ comp \in Seq(Frames) /\ inTx \in Seq(Frames)
    /\ Len(inTx) + Len(comp) <= CompSize
    /\ owed \in 0 .. FillSize + MaxNb
    /\ Len(pool) + RingFilled(fill, FillSize) + Len(rx) + RingFilled(tx, TxSize)
         + Len(inTx) + Len(comp) = NumFrames

(* Whatever is reserved on the fill ring is posted, because the pool always *)
(* has the frames that are owed.                                            *)
FillInv ==
    /\ fill.cached_prod = fill.prod
    /\ FillCreditConserved
    /\ owed <= Len(pool)

\* The frames that are somewhere.
Places ==
    ToSet(pool) \cup ToSet(Window(fill, FillSize)) \cup {ChunkBase(rx[i]) : i \in DOMAIN rx}
      \cup ToSet(Window(tx, TxSize)) \cup ToSet(inTx) \cup ToSet(comp)

(* Whatever is reserved on the TX ring is submitted, and no frame is lost.  *)
TxInv ==
    /\ tx.cached_prod = tx.prod
    /\ Frames \subseteq Places

(* The sizes as single facts.                                               *)
LEMMA Sizes ==
    /\ FillSize \in Nat \ {0} /\ TxSize \in Nat \ {0} /\ RxSize \in Nat \ {0}
    /\ CompSize \in Nat \ {0} /\ MaxNb \in Nat \ {0}
BY SizesAssumption

(* What the invariant says of the numbers.                                  *)
LEMMA SocketNumbers ==
    SocketInv => /\ Len(pool) \in Nat /\ Len(rx) \in Nat
                 /\ Len(inTx) \in Nat /\ Len(comp) \in Nat /\ owed \in Nat
                 /\ RingFilled(fill, FillSize) \in 0 .. FillSize
                 /\ RingFilled(tx, TxSize) \in 0 .. TxSize
                 /\ RingFree(fill, FillSize) \in 0 .. FillSize
                 /\ RingFree(tx, TxSize) \in 0 .. TxSize
BY LenProperties, RingNumbers, Sizes DEF SocketInv

(* The freshly created socket satisfies the invariant.                      *)
LEMMA SocketInit == Init => SocketInv
<1> SUFFICES ASSUME Init PROVE SocketInv
  OBVIOUS
<1>1. pool \in Seq(Frames) /\ Len(pool) = NumFrames
  <2>1. \A i \in 1 .. NumFrames : (NumFrames - i) * ChunkSize \in Frames
    <3> SUFFICES ASSUME NEW i \in 1 .. NumFrames PROVE (NumFrames - i) * ChunkSize \in Frames
      OBVIOUS
    <3>1. NumFrames - i \in 0 .. NumFrames - 1
      BY NumFramesAssumption
    <3> QED
      BY <3>1 DEF Frames
  <2> QED
    BY <2>1, NumFramesAssumption DEF Init, PoolSeed
<1>2. /\ IsRing(fill, FillSize) /\ RingFilled(fill, FillSize) = 0
      /\ IsRing(tx, TxSize) /\ RingFilled(tx, TxSize) = 0
  BY EmptyRingIs, Sizes DEF Init
<1>3. /\ rx = <<>> /\ comp = <<>> /\ inTx = <<>> /\ owed = FillSize
      /\ Len(rx) = 0 /\ Len(comp) = 0 /\ Len(inTx) = 0
  BY DEF Init
<1>4. owed \in 0 .. FillSize + MaxNb
  BY <1>3, Sizes
<1> QED
  BY <1>1, <1>2, <1>3, <1>4, EmptySeq, Sizes, NumFramesAssumption DEF SocketInv

(* The sizes for which transmission never runs the pool dry: a frame for    *)
(* every entry of the fill, TX and completion rings, and a callback that    *)
(* fills every frame it is given.                                           *)
EnoughFrames == NumFrames >= FillSize + TxSize + CompSize /\ ~CallbackSkips

(* A step keeps the invariants if it keeps the first, keeps the second      *)
(* given the first, and keeps the third given both and enough frames.       *)
Keeps ==
    /\ SocketInv'
    /\ FillInv => FillInv'
    /\ FillInv /\ TxInv /\ EnoughFrames => TxInv'

(* The smaller of two numbers.                                              *)
LEMMA LeastIs ==
    ASSUME NEW a \in Nat, NEW b \in Nat
    PROVE  Least(a, b) \in Nat /\ Least(a, b) <= a /\ Least(a, b) <= b
           /\ (a <= b => Least(a, b) = a)
BY DEF Least

(* rewsr_xsk_fill_refill moves frames from the pool to the fill ring.       *)
LEMMA RefillKeeps == SocketInv /\ FillRefill => Keeps
<1> SUFFICES ASSUME SocketInv, FillRefill PROVE Keeps
  OBVIOUS
<1> DEFINE free == RingFree(fill, FillSize)
           nb == Least(owed, free)
           n == Least(nb, Len(pool))
           s == Allocated(pool, n)
<1>1. /\ fill' = Posted(fill, FillSize, nb, s) /\ pool' = Popped(pool, n) /\ owed' = 0
      /\ tx' = tx /\ rx' = rx /\ comp' = comp /\ inTx' = inTx
  BY DEF FillRefill
<1>2. /\ Len(pool) \in Nat /\ owed \in Nat /\ free \in Nat
      /\ RingFilled(fill, FillSize) \in Nat /\ RingFilled(tx, TxSize) \in Nat
      /\ Len(rx) \in Nat /\ Len(inTx) \in Nat /\ Len(comp) \in Nat
  BY SocketNumbers, Sizes
<1> HIDE DEF free
<1>3. nb \in Nat /\ nb <= owed /\ nb <= free /\ (owed <= free => nb = owed)
  BY <1>2, LeastIs
<1> HIDE DEF nb
<1>4. n \in Nat /\ n <= nb /\ n <= Len(pool) /\ (nb <= Len(pool) => n = nb)
  BY <1>2, <1>3, LeastIs
<1> HIDE DEF n
<1>5. /\ s \in Seq(Frames) /\ Len(s) = n
      /\ pool' \in Seq(Frames) /\ Len(pool') = Len(pool) - n
      /\ ToSet(pool) \subseteq ToSet(pool') \cup ToSet(s)
  <2>1. n \in 0 .. Len(pool) /\ pool \in Seq(Frames)
    BY <1>2, <1>4 DEF SocketInv
  <2> QED
    BY <1>1, <2>1, AllocatedIs
<1> HIDE DEF s
<1>6. /\ IsRing(fill', FillSize)
      /\ RingFilled(fill', FillSize) = RingFilled(fill, FillSize) + n
      /\ fill.cached_prod = fill.prod /\ nb = n => fill'.cached_prod = fill'.prod
  BY <1>1, <1>3, <1>4, <1>5, PostedIs, Sizes, SMTT(40) DEF SocketInv, free
<1>7. SocketInv'
  <2>1. 0 \in 0 .. FillSize + MaxNb
    BY Sizes
  <2> QED
    BY <1>1, <1>2, <1>4, <1>5, <1>6, <2>1 DEF SocketInv
<1>8. ASSUME FillInv PROVE nb = owed /\ n = owed /\ free = FillSize - RingFilled(fill, FillSize)
  <2>1. free = FillSize - RingFilled(fill, FillSize)
    BY <1>8, RingNumbers, Sizes DEF SocketInv, FillInv, free
  <2>2. owed <= free
    BY <1>2, <1>8, <2>1, Sizes DEF FillInv, FillCreditConserved
  <2> QED
    BY <1>3, <1>4, <1>8, <2>1, <2>2 DEF FillInv
<1>9. ASSUME FillInv PROVE FillInv'
  BY <1>1, <1>2, <1>5, <1>6, <1>8, <1>9 DEF FillInv, FillCreditConserved
<1>10. ASSUME FillInv, TxInv PROVE TxInv'
  <2>1. Len(s) = nb /\ Len(s) <= RingFree(fill, FillSize)
    BY <1>3, <1>5, <1>8, <1>10 DEF free
  <2>2. ToSet(Window(fill', FillSize)) = ToSet(Window(fill, FillSize)) \cup ToSet(s)
    BY <1>1, <1>5, <1>10, <2>1, WindowSets, Sizes DEF SocketInv, FillInv
  <2>3. Places \subseteq Places'
    BY <1>1, <1>5, <2>2 DEF Places
  <2> QED
    BY <1>1, <1>10, <2>3 DEF TxInv
<1> QED
  BY <1>7, <1>9, <1>10 DEF Keeps

(* rewsr_xsk_rx_burst moves received frames to the pool and owes as many.   *)
LEMMA RxBurstKeeps ==
    ASSUME SocketInv, NEW nb \in 1 .. MaxNb, RxBurst(nb)
    PROVE  Keeps /\ owed' \in 0 .. nb /\ Len(rx') = Len(rx) - owed'
<1> DEFINE n == Least(nb, Len(rx))
<1>1. pool' = PoolFreeAll(pool, SubSeq(rx, 1, n)) /\ rx' = SubSeq(rx, n + 1, Len(rx))
  BY DEF RxBurst
<1>2. owed = 0 /\ owed' = n /\ fill' = fill /\ tx' = tx /\ comp' = comp /\ inTx' = inTx
  BY DEF RxBurst
<1>3. /\ Len(pool) \in Nat /\ nb \in Nat /\ nb <= MaxNb
      /\ RingFilled(fill, FillSize) \in Nat /\ RingFilled(tx, TxSize) \in Nat
      /\ Len(rx) \in Nat /\ Len(inTx) \in Nat /\ Len(comp) \in Nat
  BY SocketNumbers, Sizes
<1>4. n \in Nat /\ n <= nb /\ n <= Len(rx)
  BY <1>3, LeastIs
<1> HIDE DEF n
<1>5. /\ n \in 0 .. Len(rx) /\ pool \in Seq(Frames) /\ rx \in Seq(Landed \cup Frames)
      /\ Len(pool) + n <= NumFrames /\ rx \in Seq(Landed)
  BY <1>3, <1>4, SeqMonotonic, NumFramesAssumption, SMTT(40) DEF SocketInv
<1>6. /\ pool' \in Seq(Frames) /\ Len(pool') = Len(pool) + n
      /\ Len(rx') = Len(rx) - n
      /\ ToSet(pool) \subseteq ToSet(pool')
      /\ \A i \in DOMAIN rx : \/ ChunkBase(rx[i]) \in ToSet(pool')
                              \/ \E j \in DOMAIN rx' : rx'[j] = rx[i]
  BY <1>1, <1>5, FreedIs
<1>7. rx' \in Seq(Landed)
  <2>1. \A i \in n + 1 .. Len(rx) : rx[i] \in Landed
    BY <1>3, <1>4, <1>5, ElementOfSeq
  <2>2. n + 1 \in Int /\ Len(rx) \in Int
    BY <1>3, <1>4
  <2> QED
    BY <1>1, <2>1, <2>2, SubSeqProperties
<1>8. pool' \in Seq(Frames) /\ Len(pool') = Len(pool) + n /\ Len(rx') = Len(rx) - n
  BY <1>6
<1>9. SocketInv'
  <2>1. n \in 0 .. FillSize + MaxNb
    BY <1>3, <1>4, Sizes
  <2>2. /\ Len(rx') <= RxSize
        /\ Len(pool') + RingFilled(fill, FillSize) + Len(rx') + RingFilled(tx, TxSize)
             + Len(inTx) + Len(comp) = NumFrames
    <3>1. /\ Len(rx) <= RxSize
          /\ Len(pool) + RingFilled(fill, FillSize) + Len(rx) + RingFilled(tx, TxSize)
               + Len(inTx) + Len(comp) = NumFrames
      BY DEF SocketInv
    <3>2. Len(pool') = Len(pool) + n /\ Len(rx') = Len(rx) - n
      BY <1>8
    <3> QED
      BY <1>3, <1>4, <3>1, <3>2, Sizes, NumFramesAssumption, SMTT(40)
  <2>3. IsRing(fill, FillSize) /\ IsRing(tx, TxSize) /\ comp \in Seq(Frames)
        /\ inTx \in Seq(Frames) /\ Len(inTx) + Len(comp) <= CompSize
    BY DEF SocketInv
  <2> QED
    BY <1>2, <1>7, <1>8, <2>1, <2>2, <2>3 DEF SocketInv
<1>10. ASSUME FillInv PROVE FillInv'
  BY <1>2, <1>3, <1>4, <1>8, <1>10, Sizes DEF FillInv, FillCreditConserved
<1>11. ASSUME TxInv PROVE TxInv'
  <2> DEFINE B == {ChunkBase(rx[i]) : i \in DOMAIN rx}
  <2>1. B \subseteq ToSet(pool') \cup B'
    BY <1>6
  <2>2. ToSet(pool) \subseteq ToSet(pool')
    BY <1>6
  <2>3. Places \subseteq Places'
    BY <1>2, <2>1, <2>2 DEF Places
  <2> QED
    BY <1>2, <1>11, <2>3 DEF TxInv
<1>12. owed' \in 0 .. nb /\ Len(rx') = Len(rx) - owed'
  BY <1>2, <1>3, <1>4, <1>8
<1> QED
  BY <1>9, <1>10, <1>11, <1>12 DEF Keeps

(* rewsr_xsk_tx_complete moves completed frames to the pool.                *)
LEMMA TxCompleteKeeps ==
    ASSUME SocketInv, NEW nb \in 1 .. MaxNb, TxComplete(nb)
    PROVE  Keeps
<1> DEFINE n == Least(nb, Len(comp))
<1>1. pool' = PoolFreeAll(pool, SubSeq(comp, 1, n)) /\ comp' = SubSeq(comp, n + 1, Len(comp))
  BY DEF TxComplete
<1>2. owed = 0 /\ owed' = owed /\ fill' = fill /\ tx' = tx /\ rx' = rx /\ inTx' = inTx
  BY DEF TxComplete
<1>3. /\ Len(pool) \in Nat /\ nb \in Nat
      /\ RingFilled(fill, FillSize) \in Nat /\ RingFilled(tx, TxSize) \in Nat
      /\ Len(rx) \in Nat /\ Len(inTx) \in Nat /\ Len(comp) \in Nat
  BY SocketNumbers, Sizes
<1>4. n \in Nat /\ n <= nb /\ n <= Len(comp)
  BY <1>3, LeastIs
<1> HIDE DEF n
<1>5. /\ n \in 0 .. Len(comp) /\ pool \in Seq(Frames) /\ comp \in Seq(Landed \cup Frames)
      /\ Len(pool) + n <= NumFrames /\ comp \in Seq(Frames)
  BY <1>3, <1>4, SeqMonotonic, NumFramesAssumption, SMTT(40) DEF SocketInv
<1>6. /\ pool' \in Seq(Frames) /\ Len(pool') = Len(pool) + n
      /\ Len(comp') = Len(comp) - n
      /\ ToSet(pool) \subseteq ToSet(pool')
      /\ \A i \in DOMAIN comp : \/ ChunkBase(comp[i]) \in ToSet(pool')
                                \/ \E j \in DOMAIN comp' : comp'[j] = comp[i]
  BY <1>1, <1>5, FreedIs, SMTT(40)
<1>7. comp' \in Seq(Frames)
  <2>1. \A i \in n + 1 .. Len(comp) : comp[i] \in Frames
    BY <1>3, <1>4, <1>5, ElementOfSeq
  <2>2. n + 1 \in Int /\ Len(comp) \in Int
    BY <1>3, <1>4
  <2> QED
    BY <1>1, <2>1, <2>2, SubSeqProperties
<1>8. pool' \in Seq(Frames) /\ Len(pool') = Len(pool) + n /\ Len(comp') = Len(comp) - n
  BY <1>6
<1>9. SocketInv'
  <2>1. /\ Len(inTx) + Len(comp') <= CompSize
        /\ Len(pool') + RingFilled(fill, FillSize) + Len(rx) + RingFilled(tx, TxSize)
             + Len(inTx) + Len(comp') = NumFrames
    <3>1. /\ Len(inTx) + Len(comp) <= CompSize
          /\ Len(pool) + RingFilled(fill, FillSize) + Len(rx) + RingFilled(tx, TxSize)
               + Len(inTx) + Len(comp) = NumFrames
      BY DEF SocketInv
    <3>2. Len(pool') = Len(pool) + n /\ Len(comp') = Len(comp) - n
      BY <1>8
    <3> DEFINE a == Len(pool)
               b == RingFilled(fill, FillSize)
               c == Len(rx)
               d == RingFilled(tx, TxSize)
               e == Len(inTx)
               f == Len(comp)
               a1 == Len(pool')
               f1 == Len(comp')
    <3>3. /\ a \in Nat /\ b \in Nat /\ c \in Nat /\ d \in Nat /\ e \in Nat /\ f \in Nat /\ n \in Nat
          /\ e + f <= CompSize /\ a + b + c + d + e + f = NumFrames
          /\ a1 = a + n /\ f1 = f - n
      BY <1>3, <1>4, <3>1, <3>2
    <3> HIDE DEF a, b, c, d, e, f, a1, f1
    <3>4. e + f1 <= CompSize /\ a1 + b + c + d + e + f1 = NumFrames
      BY <3>3, Sizes, NumFramesAssumption
    <3> QED
      BY <3>4 DEF a, b, c, d, e, f, a1, f1
  <2>2. /\ IsRing(fill, FillSize) /\ IsRing(tx, TxSize) /\ inTx \in Seq(Frames)
        /\ rx \in Seq(Landed) /\ Len(rx) <= RxSize /\ owed \in 0 .. FillSize + MaxNb
    BY DEF SocketInv
  <2> QED
    BY <1>2, <1>7, <1>8, <2>1, <2>2 DEF SocketInv
<1>10. ASSUME FillInv PROVE FillInv'
  BY <1>2, <1>3, <1>4, <1>8, <1>10, Sizes DEF FillInv, FillCreditConserved
<1>11. ASSUME TxInv PROVE TxInv'
  <2>1. \A i \in DOMAIN comp : ChunkBase(comp[i]) = comp[i]
    BY <1>5, BaseOfLanded, ElementOfSeq, LenProperties
  <2>2. ToSet(comp) \subseteq ToSet(pool') \cup ToSet(comp')
    BY <1>6, <2>1 DEF ToSet
  <2>3. ToSet(pool) \subseteq ToSet(pool')
    BY <1>6
  <2>4. Places \subseteq Places'
    BY <1>2, <2>2, <2>3 DEF Places
  <2> QED
    BY <1>2, <1>11, <2>4 DEF TxInv
<1> QED
  BY <1>9, <1>10, <1>11 DEF Keeps

(* rewsr_xsk_tx_burst moves frames from the pool to the TX ring: it submits *)
(* as many as it pops, and all it reserved when there are enough frames.    *)
LEMMA TxBurstKeeps ==
    ASSUME SocketInv, NEW nb \in 1 .. MaxNb, TxBurst(nb)
    PROVE  /\ Keeps
           /\ Minus(TxSize, tx'.prod, tx.prod) = Len(pool) - Len(pool')
           /\ Minus(TxSize, tx'.prod, tx.prod) \in 0 .. nb
           /\ RingFilled(tx', TxSize) = RingFilled(tx, TxSize) + Minus(TxSize, tx'.prod, tx.prod)
<1>1. PICK filled \in Fills(nb) :
         /\ tx' = Posted(tx, TxSize, nb, Allocated(pool, Least(filled, Len(pool))))
         /\ pool' = Popped(pool, Least(filled, Len(pool)))
  BY DEF TxBurst
<1> DEFINE m == Len(pool)
           n == Least(filled, m)
           s == Allocated(pool, n)
<1>2. owed' = owed /\ fill' = fill /\ rx' = rx /\ comp' = comp /\ inTx' = inTx /\ owed = 0
  BY DEF TxBurst
<1>3. /\ m \in Nat /\ nb \in Nat
      /\ RingFilled(fill, FillSize) \in Nat /\ RingFilled(tx, TxSize) \in Nat
      /\ RingFree(tx, TxSize) \in Nat
      /\ Len(rx) \in Nat /\ Len(inTx) \in Nat /\ Len(comp) \in Nat
  BY SocketNumbers, Sizes
<1>4. nb <= RingFree(tx, TxSize)
  BY <1>3 DEF TxBurst
<1>5. filled \in Nat /\ filled <= nb /\ (~CallbackSkips => filled = nb)
  BY <1>3, CallbackAssumption DEF Fills
<1>6. n \in Nat /\ n <= nb /\ n <= m /\ (filled <= m => n = filled)
  <2>1. filled \in Nat /\ m \in Nat
    BY <1>3, <1>5
  <2> HIDE DEF m
  <2>2. /\ Least(filled, m) \in Nat /\ Least(filled, m) <= filled /\ Least(filled, m) <= m
        /\ (filled <= m => Least(filled, m) = filled)
    BY <2>1, LeastIs, Zenon
  <2> HIDE DEF n
  <2>3. n \in Nat /\ n <= filled /\ n <= m /\ (filled <= m => n = filled)
    BY <2>2 DEF n
  <2> QED
    BY <1>3, <1>5, <2>3
<1>7. tx' = Posted(tx, TxSize, nb, s) /\ pool' = Popped(pool, n)
  BY <1>1
<1> HIDE DEF n
<1>8. /\ s \in Seq(Frames) /\ Len(s) = n
      /\ pool' \in Seq(Frames) /\ Len(pool') = m - n
      /\ ToSet(pool) \subseteq ToSet(pool') \cup ToSet(s)
  <2>1. n \in 0 .. Len(pool) /\ pool \in Seq(Frames)
    BY <1>3, <1>6 DEF SocketInv
  <2> QED
    BY <1>7, <2>1, AllocatedIs
<1> HIDE DEF s
<1>9. IsRing(tx, TxSize) /\ TxSize \in Nat \ {0} /\ Len(s) <= nb
  BY <1>6, <1>8, Sizes DEF SocketInv
<1>10. /\ IsRing(Posted(tx, TxSize, nb, s), TxSize)
       /\ RingFilled(Posted(tx, TxSize, nb, s), TxSize) = RingFilled(tx, TxSize) + Len(s)
       /\ Minus(TxSize, Posted(tx, TxSize, nb, s).prod, tx.prod) = Len(s)
       /\ tx.cached_prod = tx.prod /\ nb = Len(s) =>
            Posted(tx, TxSize, nb, s).cached_prod = Posted(tx, TxSize, nb, s).prod
  BY <1>3, <1>4, <1>8, <1>9, PostedIs, Zenon
<1>11. /\ IsRing(tx', TxSize)
       /\ RingFilled(tx', TxSize) = RingFilled(tx, TxSize) + n
       /\ Minus(TxSize, tx'.prod, tx.prod) = n
       /\ tx.cached_prod = tx.prod /\ nb = n => tx'.cached_prod = tx'.prod
  BY <1>7, <1>8, <1>10, Zenon
<1>12. SocketInv'
  BY <1>2, <1>3, <1>6, <1>8, <1>11, SMTT(40) DEF SocketInv
<1>13. ASSUME FillInv PROVE FillInv'
  BY <1>2, <1>3, <1>6, <1>8, <1>13 DEF FillInv, FillCreditConserved
<1>14. ASSUME FillInv, TxInv, EnoughFrames PROVE TxInv'
  <2>1. tx.cached_prod = tx.prod
    BY <1>14 DEF TxInv
  <2>2. RingFree(tx, TxSize) = TxSize - RingFilled(tx, TxSize)
    BY <1>9, <2>1, RingNumbers
  <2>3. nb <= m
    <3>1. RingFilled(fill, FillSize) + Len(rx) = FillSize
      BY <1>2, <1>3, <1>14, Sizes DEF FillInv, FillCreditConserved
    <3>2. /\ m + RingFilled(fill, FillSize) + Len(rx) + RingFilled(tx, TxSize)
               + Len(inTx) + Len(comp) = NumFrames
          /\ Len(inTx) + Len(comp) <= CompSize
      BY DEF SocketInv
    <3>3. NumFrames >= FillSize + TxSize + CompSize
      BY <1>14 DEF EnoughFrames
    <3>4. FillSize \in Nat /\ TxSize \in Nat /\ CompSize \in Nat /\ NumFrames \in Nat
      BY Sizes, NumFramesAssumption
    <3> DEFINE f == RingFilled(fill, FillSize)
               x == RingFilled(tx, TxSize)
               r == Len(rx)
               i == Len(inTx)
               c == Len(comp)
    <3>5. /\ m \in Nat /\ nb \in Nat /\ f \in Nat /\ x \in Nat
          /\ r \in Nat /\ i \in Nat /\ c \in Nat
      BY <1>3
    <3>6. f + r = FillSize /\ m + f + r + x + i + c = NumFrames /\ i + c <= CompSize
      BY <3>1, <3>2
    <3>7. nb <= TxSize - x
      BY <1>4, <2>2
    <3> HIDE DEF f, x, r, i, c, m
    <3> QED
      BY <3>3, <3>4, <3>5, <3>6, <3>7
  <2>4. n = nb
    BY <1>3, <1>5, <1>6, <1>14, <2>3 DEF EnoughFrames
  <2>5. Len(s) = nb /\ Len(s) <= RingFree(tx, TxSize)
    BY <1>4, <1>8, <2>4
  <2>6. ToSet(Window(Posted(tx, TxSize, Len(s), s), TxSize))
          = ToSet(Window(tx, TxSize)) \cup ToSet(s)
    <3>1. s \in Seq(Frames)
      BY <1>8
    <3>2. \A z \in Seq(Frames) :
             tx.cached_prod = tx.prod /\ Len(z) <= RingFree(tx, TxSize) =>
               ToSet(Window(Posted(tx, TxSize, Len(z), z), TxSize))
                 = ToSet(Window(tx, TxSize)) \cup ToSet(z)
      BY <1>9, WindowSets, Zenon
    <3> QED
      BY <2>1, <2>5, <3>1, <3>2, Zenon
  <2>7. ToSet(Window(tx', TxSize)) = ToSet(Window(tx, TxSize)) \cup ToSet(s)
    BY <1>7, <2>5, <2>6, Zenon
  <2>8. ToSet(pool) \subseteq ToSet(pool') \cup ToSet(s)
    BY <1>8
  <2>9. Places \subseteq Places'
    BY <1>2, <2>7, <2>8 DEF Places
  <2> QED
    BY <1>11, <1>14, <2>1, <2>4, <2>9 DEF TxInv
<1> QED
  BY <1>3, <1>6, <1>8, <1>11, <1>12, <1>13, <1>14 DEF Keeps

(* The kernel moves a frame from the fill ring to the RX ring.              *)
LEMMA KernelReceiveKeeps == SocketInv /\ KernelReceive => Keeps /\ Len(rx') = Len(rx) + 1
<1> SUFFICES ASSUME SocketInv, KernelReceive PROVE Keeps /\ Len(rx') = Len(rx) + 1
  OBVIOUS
<1> DEFINE h == RingHead(fill, FillSize)
<1>1. /\ RingFilled(fill, FillSize) > 0 /\ Len(rx) < RxSize
      /\ rx' = Append(rx, h + Headroom) /\ fill' = RingTaken(fill, FillSize)
  BY DEF KernelReceive
<1>2. pool' = pool /\ tx' = tx /\ comp' = comp /\ inTx' = inTx /\ owed' = owed
  BY DEF KernelReceive
<1>3. /\ Len(pool) \in Nat /\ owed \in Nat
      /\ RingFilled(fill, FillSize) \in Nat /\ RingFilled(tx, TxSize) \in Nat
      /\ Len(rx) \in Nat /\ Len(inTx) \in Nat /\ Len(comp) \in Nat
  BY SocketNumbers, Sizes
<1>4. IsRing(fill, FillSize) /\ FillSize \in Nat \ {0} /\ rx \in Seq(Landed)
  BY Sizes DEF SocketInv
<1>5. /\ IsRing(fill', FillSize)
      /\ RingFilled(fill', FillSize) = RingFilled(fill, FillSize) - 1
      /\ fill'.cached_prod = fill.cached_prod /\ fill'.prod = fill.prod
      /\ h \in Frames
  BY <1>1, <1>4, TakenIs
<1>6. ToSet(Window(fill, FillSize)) = {h} \cup ToSet(Window(fill', FillSize))
  BY <1>1, <1>4, WindowSets
<1> HIDE DEF h
<1>7. /\ h + Headroom \in Landed /\ ChunkBase(h + Headroom) = h
  BY <1>5, BaseOfLanded DEF Landed
<1> DEFINE x == h + Headroom
<1>8. x \in Landed /\ ChunkBase(x) = h /\ rx' = Append(rx, x)
  BY <1>1, <1>7
<1> HIDE DEF x
<1>9. /\ rx' \in Seq(Landed) /\ Len(rx') = Len(rx) + 1
      /\ \A i \in 1 .. Len(rx) : rx'[i] = rx[i]
      /\ rx'[Len(rx) + 1] = x
  BY <1>4, <1>8, AppendProperties
<1>10. rx' \in Seq(Landed) /\ Len(rx') = Len(rx) + 1
  BY <1>9
<1>11. SocketInv'
  <2>1. /\ Len(rx') <= RxSize
        /\ Len(pool) + RingFilled(fill', FillSize) + Len(rx') + RingFilled(tx, TxSize)
             + Len(inTx) + Len(comp) = NumFrames
    <3>1. Len(pool) + RingFilled(fill, FillSize) + Len(rx) + RingFilled(tx, TxSize)
            + Len(inTx) + Len(comp) = NumFrames
      BY DEF SocketInv
    <3>2. Len(rx') = Len(rx) + 1 /\ RingFilled(fill', FillSize) = RingFilled(fill, FillSize) - 1
      BY <1>5, <1>10
    <3> DEFINE a == Len(pool)
               b == RingFilled(fill, FillSize)
               c == Len(rx)
               d == RingFilled(tx, TxSize)
               e == Len(inTx)
               f == Len(comp)
               b1 == RingFilled(fill', FillSize)
               c1 == Len(rx')
    <3>3. /\ a \in Nat /\ b \in Nat /\ c \in Nat /\ d \in Nat /\ e \in Nat /\ f \in Nat
          /\ c < RxSize /\ a + b + c + d + e + f = NumFrames
          /\ b1 = b - 1 /\ c1 = c + 1
      BY <1>1, <1>3, <3>1, <3>2
    <3> HIDE DEF a, b, c, d, e, f, b1, c1
    <3>4. c1 <= RxSize /\ a + b1 + c1 + d + e + f = NumFrames
      BY <3>3, Sizes, NumFramesAssumption
    <3> QED
      BY <3>4 DEF a, b, c, d, e, f, b1, c1
  <2>2. /\ pool \in Seq(Frames) /\ IsRing(tx, TxSize) /\ comp \in Seq(Frames)
        /\ inTx \in Seq(Frames) /\ Len(inTx) + Len(comp) <= CompSize
        /\ owed \in 0 .. FillSize + MaxNb
    BY DEF SocketInv
  <2> QED
    BY <1>2, <1>5, <1>10, <2>1, <2>2 DEF SocketInv
<1>12. ASSUME FillInv PROVE FillInv'
  BY <1>2, <1>3, <1>5, <1>10, <1>12, Sizes DEF FillInv, FillCreditConserved
<1>13. ASSUME TxInv PROVE TxInv'
  <2> DEFINE B == {ChunkBase(rx[i]) : i \in DOMAIN rx}
  <2>1. /\ DOMAIN rx = 1 .. Len(rx) /\ DOMAIN rx' = 1 .. Len(rx) + 1
        /\ Len(rx) + 1 \in DOMAIN rx' /\ \A i \in DOMAIN rx : i \in DOMAIN rx'
    BY <1>3, <1>4, <1>10, LenProperties
  <2>2. h \in B'
    BY <1>8, <1>9, <2>1
  <2>3. B \subseteq B'
    BY <1>9, <2>1
  <2> HIDE DEF B
  <2>4. Places \subseteq Places'
    BY <1>2, <1>6, <2>2, <2>3 DEF Places, B
  <2> QED
    BY <1>2, <1>13, <2>4 DEF TxInv
<1> QED
  BY <1>10, <1>11, <1>12, <1>13 DEF Keeps

(* The kernel takes a frame from the TX ring.                               *)
LEMMA KernelTakeKeeps ==
    SocketInv /\ KernelTake =>
      Keeps /\ RingFilled(tx', TxSize) = RingFilled(tx, TxSize) - 1
<1> SUFFICES ASSUME SocketInv, KernelTake
             PROVE  Keeps /\ RingFilled(tx', TxSize) = RingFilled(tx, TxSize) - 1
  OBVIOUS
<1> DEFINE h == RingHead(tx, TxSize)
<1>1. /\ RingFilled(tx, TxSize) > 0 /\ Len(inTx) + Len(comp) < CompSize
      /\ inTx' = Append(inTx, h) /\ tx' = RingTaken(tx, TxSize)
  BY DEF KernelTake
<1>2. pool' = pool /\ fill' = fill /\ rx' = rx /\ comp' = comp /\ owed' = owed
  BY DEF KernelTake
<1>3. /\ Len(pool) \in Nat /\ owed \in Nat
      /\ RingFilled(fill, FillSize) \in Nat /\ RingFilled(tx, TxSize) \in Nat
      /\ Len(rx) \in Nat /\ Len(inTx) \in Nat /\ Len(comp) \in Nat
  BY SocketNumbers, Sizes
<1>4. IsRing(tx, TxSize) /\ TxSize \in Nat \ {0} /\ inTx \in Seq(Frames)
  BY Sizes DEF SocketInv
<1>5. /\ IsRing(tx', TxSize)
      /\ RingFilled(tx', TxSize) = RingFilled(tx, TxSize) - 1
      /\ tx'.cached_prod = tx.cached_prod /\ tx'.prod = tx.prod
      /\ h \in Frames
  BY <1>1, <1>4, TakenIs
<1>6. ToSet(Window(tx, TxSize)) = {h} \cup ToSet(Window(tx', TxSize))
  BY <1>1, <1>4, WindowSets
<1> HIDE DEF h
<1>7. /\ inTx' \in Seq(Frames) /\ Len(inTx') = Len(inTx) + 1
      /\ \A i \in 1 .. Len(inTx) : inTx'[i] = inTx[i]
      /\ inTx'[Len(inTx) + 1] = h
  BY <1>1, <1>4, <1>5, AppendProperties
<1>8. inTx' \in Seq(Frames) /\ Len(inTx') = Len(inTx) + 1
  BY <1>7
<1>9. SocketInv'
  <2>1. /\ Len(inTx') + Len(comp) <= CompSize
        /\ Len(pool) + RingFilled(fill, FillSize) + Len(rx) + RingFilled(tx', TxSize)
             + Len(inTx') + Len(comp) = NumFrames
    <3>1. Len(pool) + RingFilled(fill, FillSize) + Len(rx) + RingFilled(tx, TxSize)
            + Len(inTx) + Len(comp) = NumFrames
      BY DEF SocketInv
    <3>2. Len(inTx') = Len(inTx) + 1 /\ RingFilled(tx', TxSize) = RingFilled(tx, TxSize) - 1
      BY <1>5, <1>8
    <3> DEFINE a == Len(pool)
               b == RingFilled(fill, FillSize)
               c == Len(rx)
               d == RingFilled(tx, TxSize)
               e == Len(inTx)
               f == Len(comp)
               d1 == RingFilled(tx', TxSize)
               e1 == Len(inTx')
    <3>3. /\ a \in Nat /\ b \in Nat /\ c \in Nat /\ d \in Nat /\ e \in Nat /\ f \in Nat
          /\ e + f < CompSize /\ a + b + c + d + e + f = NumFrames
          /\ d1 = d - 1 /\ e1 = e + 1
      BY <1>1, <1>3, <3>1, <3>2
    <3> HIDE DEF a, b, c, d, e, f, d1, e1
    <3>4. e1 + f <= CompSize /\ a + b + c + d1 + e1 + f = NumFrames
      BY <3>3, Sizes, NumFramesAssumption
    <3> QED
      BY <3>4 DEF a, b, c, d, e, f, d1, e1
  <2>2. /\ pool \in Seq(Frames) /\ IsRing(fill, FillSize) /\ comp \in Seq(Frames)
        /\ rx \in Seq(Landed) /\ Len(rx) <= RxSize /\ owed \in 0 .. FillSize + MaxNb
    BY DEF SocketInv
  <2> QED
    BY <1>2, <1>5, <1>8, <2>1, <2>2 DEF SocketInv
<1>10. ASSUME FillInv PROVE FillInv'
  BY <1>2, <1>10 DEF FillInv, FillCreditConserved
<1>11. ASSUME TxInv PROVE TxInv'
  <2>1. /\ DOMAIN inTx = 1 .. Len(inTx) /\ DOMAIN inTx' = 1 .. Len(inTx) + 1
        /\ Len(inTx) + 1 \in DOMAIN inTx' /\ \A i \in DOMAIN inTx : i \in DOMAIN inTx'
    BY <1>3, <1>4, <1>8, LenProperties
  <2>2. h \in ToSet(inTx') /\ ToSet(inTx) \subseteq ToSet(inTx')
    BY <1>7, <2>1 DEF ToSet
  <2>3. Places \subseteq Places'
    BY <1>2, <1>6, <2>2 DEF Places
  <2> QED
    BY <1>2, <1>5, <1>11, <2>3 DEF TxInv
<1> QED
  BY <1>5, <1>9, <1>10, <1>11 DEF Keeps

(* Removing one element of a sequence.                                      *)
LEMMA RemovedIs ==
    ASSUME NEW S, NEW s \in Seq(S), NEW i \in 1 .. Len(s)
    PROVE  /\ RemoveAt(s, i) \in Seq(S)
           /\ Len(RemoveAt(s, i)) = Len(s) - 1
           /\ ToSet(s) \subseteq {s[i]} \cup ToSet(RemoveAt(s, i))
<1> DEFINE m == Len(s)
           u == SubSeq(s, 1, i - 1)
           v == SubSeq(s, i + 1, m)
           t == u \o v
<1>1. m \in Nat /\ DOMAIN s = 1 .. m /\ \A k \in 1 .. m : s[k] \in S
  BY LenProperties
<1>2. u \in Seq(S) /\ Len(u) = i - 1 /\ \A k \in 1 .. i - 1 : u[k] = s[k]
  <2>1. (\A k \in 1 .. i - 1 : s[k] \in S) /\ 1 \in Int /\ i - 1 \in Int
    BY <1>1
  <2>2. /\ u \in Seq(S) /\ Len(u) = IF 1 <= i - 1 THEN (i - 1) - 1 + 1 ELSE 0
        /\ \A k \in 1 .. (i - 1) - 1 + 1 : u[k] = s[1 + k - 1]
    <3> HIDE DEF u
    <3> QED
      BY <2>1, SubSeqProperties DEF u
  <2> HIDE DEF u
  <2>3. (i - 1) - 1 + 1 = i - 1 /\ \A k \in 1 .. i - 1 : 1 + k - 1 = k
    BY <1>1
  <2>4. Len(u) = IF 1 <= i - 1 THEN i - 1 ELSE 0
    BY <2>2, <2>3
  <2>5. Len(u) = i - 1
    BY <1>1, <2>4
  <2> QED
    BY <2>2, <2>3, <2>5
<1>3. v \in Seq(S) /\ Len(v) = m - i /\ \A k \in 1 .. m - i : v[k] = s[i + k]
  <2>1. (\A k \in i + 1 .. m : s[k] \in S) /\ i + 1 \in Int /\ m \in Int
    BY <1>1
  <2>2. /\ v \in Seq(S) /\ Len(v) = IF i + 1 <= m THEN m - (i + 1) + 1 ELSE 0
        /\ \A k \in 1 .. m - (i + 1) + 1 : v[k] = s[(i + 1) + k - 1]
    <3> HIDE DEF v, m
    <3> QED
      BY <2>1, SubSeqProperties DEF v
  <2> HIDE DEF v
  <2>3. m - (i + 1) + 1 = m - i /\ \A k \in 1 .. m - i : (i + 1) + k - 1 = i + k
    BY <1>1
  <2>4. Len(v) = IF i + 1 <= m THEN m - i ELSE 0
    BY <2>2, <2>3
  <2>5. Len(v) = m - i
    <3>1. i \in Nat /\ m \in Nat /\ i <= m
      BY <1>1
    <3> HIDE DEF m
    <3> QED
      BY <2>4, <3>1
  <2> QED
    BY <2>2, <2>3, <2>5
<1> HIDE DEF u, v
<1>4. /\ t \in Seq(S) /\ Len(t) = Len(u) + Len(v)
      /\ \A k \in 1 .. Len(u) + Len(v) : t[k] = IF k <= Len(u) THEN u[k] ELSE v[k - Len(u)]
  BY <1>2, <1>3, ConcatProperties
<1>5. i \in Nat /\ i >= 1 /\ i <= m /\ Len(u) = i - 1 /\ Len(v) = m - i
  BY <1>1, <1>2, <1>3
<1> HIDE DEF t, m
<1>6. Len(t) = m - 1
  <2>1. Len(t) = Len(u) + Len(v)
    BY <1>4
  <2> QED
    BY <1>1, <1>5, <2>1
<1>7. DOMAIN t = 1 .. m - 1
  BY <1>4, <1>6, LenProperties
<1>8. ASSUME NEW k \in 1 .. m, k # i PROVE s[k] \in ToSet(t)
  <2>1. CASE k < i
    <3>1. k \in 1 .. i - 1 /\ k \in 1 .. m - 1 /\ k \in 1 .. Len(u) + Len(v) /\ k <= Len(u)
      BY <1>1, <1>5, <2>1
    <3>2. t[k] = s[k]
      BY <1>2, <1>4, <3>1
    <3> QED
      BY <1>7, <3>1, <3>2 DEF ToSet
  <2>2. CASE k > i
    <3>1. /\ k - 1 \in 1 .. m - 1 /\ k - 1 \in 1 .. Len(u) + Len(v) /\ ~(k - 1 <= Len(u))
          /\ (k - 1) - Len(u) = k - i /\ k - i \in 1 .. m - i /\ i + (k - i) = k
      BY <1>1, <1>5, <2>2
    <3>2. t[k - 1] = s[k]
      BY <1>3, <1>4, <3>1
    <3> QED
      BY <1>7, <3>1, <3>2 DEF ToSet
  <2> QED
    BY <1>1, <1>5, <1>8, <2>1, <2>2
<1>9. ToSet(s) \subseteq {s[i]} \cup ToSet(t)
  BY <1>1, <1>8 DEF ToSet
<1> QED
  BY <1>4, <1>6, <1>9 DEF t, u, v, m, RemoveAt

(* The kernel reports a transmitted frame.                                  *)
LEMMA KernelCompleteKeeps == SocketInv /\ KernelComplete => Keeps
<1> SUFFICES ASSUME SocketInv, KernelComplete PROVE Keeps
  OBVIOUS
<1>1. PICK i \in DOMAIN inTx : comp' = Append(comp, inTx[i]) /\ inTx' = RemoveAt(inTx, i)
  BY DEF KernelComplete
<1>2. pool' = pool /\ fill' = fill /\ tx' = tx /\ rx' = rx /\ owed' = owed
  BY DEF KernelComplete
<1>3. /\ Len(pool) \in Nat /\ owed \in Nat
      /\ RingFilled(fill, FillSize) \in Nat /\ RingFilled(tx, TxSize) \in Nat
      /\ Len(rx) \in Nat /\ Len(inTx) \in Nat /\ Len(comp) \in Nat
  BY SocketNumbers, Sizes
<1>4. inTx \in Seq(Frames) /\ comp \in Seq(Frames)
  BY DEF SocketInv
<1>5. i \in 1 .. Len(inTx) /\ inTx[i] \in Frames
  BY <1>4, LenProperties
<1>6. /\ inTx' \in Seq(Frames) /\ Len(inTx') = Len(inTx) - 1
      /\ ToSet(inTx) \subseteq {inTx[i]} \cup ToSet(inTx')
  BY <1>1, <1>4, <1>5, RemovedIs
<1>7. /\ comp' \in Seq(Frames) /\ Len(comp') = Len(comp) + 1
      /\ \A k \in 1 .. Len(comp) : comp'[k] = comp[k]
      /\ comp'[Len(comp) + 1] = inTx[i]
  BY <1>1, <1>4, <1>5, AppendProperties
<1>8. SocketInv'
  <2>1. /\ Len(inTx') + Len(comp') <= CompSize
        /\ Len(pool) + RingFilled(fill, FillSize) + Len(rx) + RingFilled(tx, TxSize)
             + Len(inTx') + Len(comp') = NumFrames
    <3>1. /\ Len(inTx) + Len(comp) <= CompSize
          /\ Len(pool) + RingFilled(fill, FillSize) + Len(rx) + RingFilled(tx, TxSize)
               + Len(inTx) + Len(comp) = NumFrames
      BY DEF SocketInv
    <3>2. Len(inTx') = Len(inTx) - 1 /\ Len(comp') = Len(comp) + 1
      BY <1>6, <1>7
    <3> DEFINE a == Len(pool)
               b == RingFilled(fill, FillSize)
               c == Len(rx)
               d == RingFilled(tx, TxSize)
               e == Len(inTx)
               f == Len(comp)
               e1 == Len(inTx')
               f1 == Len(comp')
    <3>3. /\ a \in Nat /\ b \in Nat /\ c \in Nat /\ d \in Nat /\ e \in Nat /\ f \in Nat
          /\ e + f <= CompSize /\ a + b + c + d + e + f = NumFrames
          /\ e1 = e - 1 /\ f1 = f + 1
      BY <1>3, <3>1, <3>2
    <3> HIDE DEF a, b, c, d, e, f, e1, f1
    <3>4. e1 + f1 <= CompSize /\ a + b + c + d + e1 + f1 = NumFrames
      BY <3>3, Sizes, NumFramesAssumption
    <3> QED
      BY <3>4 DEF a, b, c, d, e, f, e1, f1
  <2>2. /\ pool \in Seq(Frames) /\ IsRing(fill, FillSize) /\ IsRing(tx, TxSize)
        /\ rx \in Seq(Landed) /\ Len(rx) <= RxSize /\ owed \in 0 .. FillSize + MaxNb
    BY DEF SocketInv
  <2>3. inTx' \in Seq(Frames) /\ comp' \in Seq(Frames)
    BY <1>6, <1>7
  <2> QED
    BY <1>2, <2>1, <2>2, <2>3 DEF SocketInv
<1>9. ASSUME FillInv PROVE FillInv'
  BY <1>2, <1>9 DEF FillInv, FillCreditConserved
<1>10. ASSUME TxInv PROVE TxInv'
  <2>1. /\ DOMAIN comp = 1 .. Len(comp) /\ DOMAIN comp' = 1 .. Len(comp) + 1
        /\ Len(comp) + 1 \in DOMAIN comp' /\ \A k \in DOMAIN comp : k \in DOMAIN comp'
    BY <1>3, <1>4, <1>7, LenProperties
  <2>2. inTx[i] \in ToSet(comp') /\ ToSet(comp) \subseteq ToSet(comp')
    BY <1>7, <2>1 DEF ToSet
  <2>3. ToSet(inTx) \subseteq {inTx[i]} \cup ToSet(inTx')
    BY <1>6
  <2>4. Places \subseteq Places'
    BY <1>2, <2>2, <2>3 DEF Places
  <2> QED
    BY <1>2, <1>10, <2>4 DEF TxInv
<1> QED
  BY <1>8, <1>9, <1>10 DEF Keeps

(* Every step of the socket keeps the invariants.                           *)
LEMMA StepKeeps == SocketInv /\ [Next]_vars => Keeps
<1> SUFFICES ASSUME SocketInv, [Next]_vars PROVE Keeps
  OBVIOUS
<1>1. CASE UNCHANGED vars
  BY <1>1 DEF vars, Keeps, SocketInv, FillInv, TxInv, FillCreditConserved, Places
<1>2. CASE FillRefill
  BY <1>2, RefillKeeps
<1>3. ASSUME NEW nb \in 1 .. MaxNb, RxBurst(nb) PROVE Keeps
  BY <1>3, RxBurstKeeps
<1>4. ASSUME NEW nb \in 1 .. MaxNb, TxBurst(nb) PROVE Keeps
  BY <1>4, TxBurstKeeps
<1>5. ASSUME NEW nb \in 1 .. MaxNb, TxBurstFull(nb) PROVE Keeps
  BY <1>1, <1>5 DEF TxBurstFull
<1>6. ASSUME NEW nb \in 1 .. MaxNb, TxComplete(nb) PROVE Keeps
  BY <1>6, TxCompleteKeeps
<1>7. CASE Kernel
  BY <1>7, KernelReceiveKeeps, KernelTakeKeeps, KernelCompleteKeeps DEF Kernel
<1> QED
  BY <1>1, <1>2, <1>3, <1>4, <1>5, <1>6, <1>7 DEF Next

(* Initially the fill ring is empty, its whole length is owed, and the pool *)
(* holds every frame.                                                       *)
LEMMA InvariantsInit ==
    /\ Init /\ NumFrames >= FillSize => FillInv
    /\ Init => TxInv
<1>1. ASSUME Init, NumFrames >= FillSize PROVE FillInv
  <2>1. RingFilled(fill, FillSize) = 0 /\ Len(rx) = 0 /\ owed = FillSize /\ Len(pool) = NumFrames
    BY <1>1, EmptyRingIs, Sizes, NumFramesAssumption DEF Init, PoolSeed
  <2>2. fill.cached_prod = fill.prod
    BY <1>1 DEF Init, EmptyRing
  <2> QED
    BY <1>1, <2>1, <2>2, Sizes DEF FillInv, FillCreditConserved
<1>2. ASSUME Init PROVE TxInv
  <2>1. tx.cached_prod = tx.prod
    BY <1>2 DEF Init, EmptyRing
  <2>2. ASSUME NEW g \in Frames PROVE g \in ToSet(pool)
    <3>1. PICK k \in 0 .. NumFrames - 1 : g = k * ChunkSize
      BY DEF Frames
    <3> DEFINE i == NumFrames - k
    <3>2. i \in 1 .. NumFrames /\ NumFrames - i = k
      BY NumFramesAssumption
    <3> HIDE DEF i
    <3>3. DOMAIN pool = 1 .. NumFrames /\ pool[i] = (NumFrames - i) * ChunkSize
      BY <1>2, <3>2 DEF Init, PoolSeed
    <3>4. pool[i] = g
      BY <3>1, <3>2, <3>3
    <3> QED
      BY <3>2, <3>3, <3>4 DEF ToSet
  <2> QED
    BY <2>1, <2>2 DEF TxInv, Places
<1> QED
  BY <1>1, <1>2

(* The elements of two sequences joined.                                    *)
LEMMA Joined ==
    ASSUME NEW S, NEW s \in Seq(S), NEW t \in Seq(S)
    PROVE  /\ s \o t \in Seq(S) /\ Len(s \o t) = Len(s) + Len(t)
           /\ ToSet(s \o t) = ToSet(s) \cup ToSet(t)
<1> DEFINE m == Len(s)
           n == Len(t)
           w == s \o t
<1>1. m \in Nat /\ n \in Nat /\ DOMAIN s = 1 .. m /\ DOMAIN t = 1 .. n
  BY LenProperties
<1>2. /\ w \in Seq(S) /\ Len(w) = m + n
      /\ \A k \in 1 .. m + n : w[k] = IF k <= m THEN s[k] ELSE t[k - m]
  BY ConcatProperties
<1>3. DOMAIN w = 1 .. m + n
  BY <1>2, LenProperties
<1> HIDE DEF m, n, w
<1>4. ASSUME NEW k \in 1 .. m PROVE k \in DOMAIN w /\ w[k] = s[k]
  BY <1>1, <1>2, <1>3
<1>5. ASSUME NEW k \in 1 .. n PROVE m + k \in DOMAIN w /\ w[m + k] = t[k]
  <2>1. m + k \in 1 .. m + n /\ ~(m + k <= m) /\ (m + k) - m = k
    BY <1>1
  <2> QED
    BY <1>2, <1>3, <2>1
<1>6. ASSUME NEW k \in 1 .. m + n PROVE w[k] \in ToSet(s) \cup ToSet(t)
  <2>1. CASE k <= m
    <3>1. k \in 1 .. m
      BY <1>1, <2>1
    <3> QED
      BY <1>1, <1>4, <3>1 DEF ToSet
  <2>2. CASE k > m
    <3>1. k - m \in 1 .. n /\ m + (k - m) = k
      BY <1>1, <2>2
    <3>2. w[k] = t[k - m]
      BY <1>5, <3>1
    <3> QED
      BY <1>1, <3>1, <3>2 DEF ToSet
  <2> QED
    BY <1>1, <2>1, <2>2
<1>7. ToSet(s) \subseteq ToSet(w)
  BY <1>1, <1>4 DEF ToSet
<1>8. ToSet(t) \subseteq ToSet(w)
  BY <1>1, <1>5 DEF ToSet
<1>9. ToSet(w) \subseteq ToSet(s) \cup ToSet(t)
  BY <1>3, <1>6 DEF ToSet
<1> QED
  BY <1>2, <1>7, <1>8, <1>9 DEF m, n, w

(* The list of all addresses: as long as there are frames, and naming the   *)
(* frames that are somewhere.                                               *)
LEMMA EverywhereIs ==
    SocketInv => /\ Len(Everywhere) = NumFrames
                 /\ ToSet(Everywhere) = Places
                 /\ Places \subseteq Frames
<1> SUFFICES ASSUME SocketInv
             PROVE  /\ Len(Everywhere) = NumFrames
                    /\ ToSet(Everywhere) = Places
                    /\ Places \subseteq Frames
  OBVIOUS
<1> DEFINE wf == Window(fill, FillSize)
           wt == Window(tx, TxSize)
           r == [i \in DOMAIN rx |-> ChunkBase(rx[i])]
           e1 == pool \o wf
           e2 == e1 \o r
           e3 == e2 \o wt
           e4 == e3 \o inTx
           e5 == e4 \o comp
<1>1. /\ pool \in Seq(Frames) /\ inTx \in Seq(Frames) /\ comp \in Seq(Frames)
      /\ rx \in Seq(Landed) /\ IsRing(fill, FillSize) /\ IsRing(tx, TxSize)
      /\ Len(pool) + RingFilled(fill, FillSize) + Len(rx) + RingFilled(tx, TxSize)
           + Len(inTx) + Len(comp) = NumFrames
  BY DEF SocketInv
<1>2. wf \in Seq(Frames) /\ Len(wf) = RingFilled(fill, FillSize)
  BY <1>1, Sizes, WindowIs
<1>3. wt \in Seq(Frames) /\ Len(wt) = RingFilled(tx, TxSize)
  BY <1>1, Sizes, WindowIs
<1>4. r \in Seq(Frames) /\ Len(r) = Len(rx) /\ ToSet(r) = {ChunkBase(rx[i]) : i \in DOMAIN rx}
  <2>1. Len(rx) \in Nat /\ DOMAIN rx = 1 .. Len(rx)
    BY <1>1, LenProperties
  <2>2. \A i \in 1 .. Len(rx) : ChunkBase(rx[i]) \in Frames
    BY <1>1, BaseOfLanded, ElementOfSeq
  <2>3. r \in Seq(Frames) /\ Len(r) = Len(rx)
    BY <2>1, <2>2
  <2>4. ToSet(r) = {ChunkBase(rx[i]) : i \in DOMAIN rx}
    BY <2>1 DEF ToSet
  <2> QED
    BY <2>3, <2>4
<1>5. Everywhere = e5
  BY DEF Everywhere
<1> HIDE DEF wf, wt, r
<1>6. e1 \in Seq(Frames) /\ Len(e1) = Len(pool) + Len(wf) /\ ToSet(e1) = ToSet(pool) \cup ToSet(wf)
  BY <1>1, <1>2, Joined, ZenonT(40)
<1> HIDE DEF e1
<1>7. e2 \in Seq(Frames) /\ Len(e2) = Len(e1) + Len(r) /\ ToSet(e2) = ToSet(e1) \cup ToSet(r)
  BY <1>4, <1>6, Joined
<1> HIDE DEF e2
<1>8. e3 \in Seq(Frames) /\ Len(e3) = Len(e2) + Len(wt) /\ ToSet(e3) = ToSet(e2) \cup ToSet(wt)
  BY <1>3, <1>7, Joined
<1> HIDE DEF e3
<1>9. e4 \in Seq(Frames) /\ Len(e4) = Len(e3) + Len(inTx) /\ ToSet(e4) = ToSet(e3) \cup ToSet(inTx)
  <2>1. e3 \in Seq(Frames) /\ inTx \in Seq(Frames)
    BY <1>1, <1>8
  <2> QED
    BY <2>1, Joined
<1> HIDE DEF e4
<1>10. e5 \in Seq(Frames) /\ Len(e5) = Len(e4) + Len(comp) /\ ToSet(e5) = ToSet(e4) \cup ToSet(comp)
  <2>1. e4 \in Seq(Frames) /\ comp \in Seq(Frames)
    BY <1>1, <1>9
  <2> QED
    BY <2>1, Joined
<1> HIDE DEF e5
<1>11. Len(e5) = NumFrames
  <2>1. /\ Len(e5) = Len(e4) + Len(comp) /\ Len(e4) = Len(e3) + Len(inTx)
        /\ Len(e3) = Len(e2) + RingFilled(tx, TxSize) /\ Len(e2) = Len(e1) + Len(rx)
        /\ Len(e1) = Len(pool) + RingFilled(fill, FillSize)
    BY <1>2, <1>3, <1>4, <1>6, <1>7, <1>8, <1>9, <1>10
  <2>2. Len(e5) = Len(pool) + RingFilled(fill, FillSize) + Len(rx) + RingFilled(tx, TxSize)
                    + Len(inTx) + Len(comp)
    BY <2>1
  <2> QED
    BY <1>1, <2>2
<1>12. ToSet(e5) = Places
  <2>1. ToSet(e5) = ToSet(pool) \cup ToSet(wf) \cup ToSet(r) \cup ToSet(wt) \cup ToSet(inTx) \cup ToSet(comp)
    BY <1>6, <1>7, <1>8, <1>9, <1>10, Zenon
  <2> QED
    BY <1>4, <2>1 DEF Places, wf, wt
<1>13. ToSet(e5) \subseteq Frames
  BY <1>10, LenProperties, ElementOfSeq DEF ToSet
<1> QED
  BY <1>5, <1>11, <1>12, <1>13

-----------------------------------------------------------------------------
(* The theorems                                                             *)

(* The socket keeps its first invariant, whatever the sizes.                *)
THEOREM SocketSafe == Spec => []SocketInv
<1>1. Init => SocketInv
  BY SocketInit
<1>2. SocketInv /\ [Next]_vars => SocketInv'
  BY StepKeeps DEF Keeps
<1> QED
  BY <1>1, <1>2, PTL DEF Spec

(* The pool, the four rings and the frames in transmission always hold      *)
(* addresses inside the UMEM, and none of them ever overflows, whatever     *)
(* the sizes of the pool and the rings.                                     *)
THEOREM SocketTypes == Spec => []TypeOK
<1>1. SocketInv => TypeOK
  <2> SUFFICES ASSUME SocketInv PROVE TypeOK
    OBVIOUS
  <2>1. Frames \subseteq Addrs /\ Landed \subseteq Addrs
    BY BaseOfLanded
  <2>2. rx \in Seq(Addrs) /\ comp \in Seq(Addrs) /\ inTx \in Seq(Addrs)
    BY <2>1, SeqMonotonic DEF SocketInv
  <2>3. ASSUME NEW q, NEW size, IsRing(q, size) PROVE q \in RingType(size)
    BY <2>1, <2>3 DEF IsRing, RingType, Counters
  <2>4. fill \in RingType(FillSize) /\ tx \in RingType(TxSize)
    BY <2>3 DEF SocketInv
  <2>5. /\ Len(pool) \in Nat /\ RingFilled(fill, FillSize) \in Nat /\ Len(rx) \in Nat
        /\ RingFilled(tx, TxSize) \in Nat /\ Len(inTx) \in Nat /\ Len(comp) \in Nat
    BY SocketNumbers, Sizes
  <2>6. Len(pool) <= NumFrames /\ Len(comp) <= CompSize
    BY <2>5, Sizes, NumFramesAssumption, SMTT(40) DEF SocketInv
  <2> QED
    BY <2>2, <2>4, <2>6 DEF SocketInv, TypeOK
<1> QED
  BY <1>1, SocketSafe, PTL

(* The pool, the rings and the kernel hold as many entries together as      *)
(* there are frames, whatever the sizes: if a chunk is lost, another one is *)
(* in two places.                                                           *)
THEOREM EntriesConserved == Spec => [](Len(Everywhere) = NumFrames)
<1>1. SocketInv => Len(Everywhere) = NumFrames
  BY EverywhereIs
<1> QED
  BY <1>1, SocketSafe, PTL

(* With as many frames as fill descriptors, receive credit never leaks:     *)
(* every frame rewsr_xsk_rx_burst recycles is posted again by its refill,   *)
(* whatever transmission takes from the pool.                               *)
THEOREM FillCredit == NumFrames >= FillSize => (Spec => []FillCreditConserved)
<1> SUFFICES ASSUME NumFrames >= FillSize PROVE Spec => []FillCreditConserved
  OBVIOUS
<1>1. Init => SocketInv /\ FillInv
  BY SocketInit, InvariantsInit
<1>2. SocketInv /\ FillInv /\ [Next]_vars => SocketInv' /\ FillInv'
  BY StepKeeps DEF Keeps
<1>3. FillInv => FillCreditConserved
  BY DEF FillInv
<1> QED
  BY <1>1, <1>2, <1>3, PTL DEF Spec

(* With a frame for every entry of the fill, TX and completion rings, and a *)
(* callback that fills what it is given, no burst reserves what it does not *)
(* submit.                                                                  *)
THEOREM Submitted == EnoughFrames => (Spec => []ReservedIsSubmitted)
<1> SUFFICES ASSUME EnoughFrames PROVE Spec => []ReservedIsSubmitted
  OBVIOUS
<1>1. Init => SocketInv /\ FillInv /\ TxInv
  BY SocketInit, InvariantsInit, Sizes, NumFramesAssumption DEF EnoughFrames
<1>2. SocketInv /\ FillInv /\ TxInv /\ [Next]_vars => SocketInv' /\ FillInv' /\ TxInv'
  BY StepKeeps DEF Keeps
<1>3. FillInv /\ TxInv => ReservedIsSubmitted
  BY DEF FillInv, TxInv, ReservedIsSubmitted
<1> QED
  BY <1>1, <1>2, <1>3, PTL DEF Spec

(* Under the same condition every chunk is in exactly one place: free,      *)
(* posted, received, queued, in transmission or completed.                  *)
THEOREM Conserved == EnoughFrames => (Spec => []FramesConserved)
<1> SUFFICES ASSUME EnoughFrames PROVE Spec => []FramesConserved
  OBVIOUS
<1>1. Init => SocketInv /\ FillInv /\ TxInv
  BY SocketInit, InvariantsInit, Sizes, NumFramesAssumption DEF EnoughFrames
<1>2. SocketInv /\ FillInv /\ TxInv /\ [Next]_vars => SocketInv' /\ FillInv' /\ TxInv'
  BY StepKeeps DEF Keeps
<1>3. SocketInv /\ TxInv => FramesConserved
  BY EverywhereIs DEF TxInv, FramesConserved
<1> QED
  BY <1>1, <1>2, <1>3, PTL DEF Spec

-----------------------------------------------------------------------------
(* The data-plane loop.                                                     *)

(* The burst the loop asks for is one the socket's callers may ask for.     *)
LEMMA BatchIs == Batch \in Nat /\ Batch >= 1 /\ Batch \in 1 .. MaxNb
BY BatchAssumption, Sizes

(* Every step of the worker or the kernel is a step of the socket or leaves *)
(* it alone.                                                                *)
LEMMA WorkerStepIsSocketStep == [WorkerNext]_allVars => [Next]_vars
<1> SUFFICES ASSUME [WorkerNext]_allVars PROVE [Next]_vars
  OBVIOUS
<1>1. CASE Prime \/ Refill
  BY <1>1 DEF Prime, Refill, Next
<1>2. CASE Loop \/ LoopStopped \/ KickAccepted \/ KickRefused \/ Check \/ SetStop
  BY <1>2 DEF Loop, LoopStopped, KickAccepted, KickRefused, Check, SetStop
<1>3. CASE Receive
  BY <1>3, BatchIs DEF Receive, Next
<1>4. CASE Transmit
  BY <1>4, BatchIs DEF Transmit, Next
<1>5. CASE Reclaim
  BY <1>5, BatchIs DEF Reclaim, Next
<1>6. CASE Arrive \/ TakeTx \/ CompleteTx
  BY <1>6 DEF Arrive, TakeTx, CompleteTx, Next, Kernel
<1>7. CASE Returned \/ UNCHANGED allVars
  BY <1>7 DEF Returned, allVars
<1> QED
  BY <1>1, <1>2, <1>3, <1>4, <1>5, <1>6, <1>7 DEF WorkerNext, Worker

(* The running worker uses the socket as its callers must: it implements    *)
(* the specification of the socket, so that the theorems about the socket   *)
(* hold of it.                                                              *)
THEOREM WorkerIsSocketUser == WorkerSpec => Spec
<1>1. WorkerInit => Init
  BY DEF WorkerInit
<1> QED
  BY <1>1, WorkerStepIsSocketStep, PTL DEF WorkerSpec, Spec

-----------------------------------------------------------------------------
(* What has been counted towards max_packets.                               *)
Counted == rx_packets + tx_packets

(* How far the count may be, by place in the loop: an iteration starts      *)
(* below the limit and adds a receive and a transmit burst.                 *)
BelowLimit ==
    MaxPackets > 0 =>
      /\ wpc \in {"prime", "loop", "rx"} => Counted < MaxPackets
      /\ wpc \in {"refill", "tx"} => Counted < MaxPackets + Batch
      /\ Counted < MaxPackets + 2 * Batch

(* The invariant of the loop.                                               *)
LoopInv ==
    /\ role \in Roles
    /\ wpc \in {"prime", "loop", "rx", "refill", "tx", "kick", "complete", "check", "done"}
    /\ stop \in BOOLEAN /\ service \in BOOLEAN
    /\ rx_packets \in Nat /\ parse_errors \in Nat /\ tx_packets \in Nat
    /\ taken \in Nat /\ arrived \in 0 .. MaxArrivals /\ tx_drops \in 0 .. DropCap
    /\ StatsAccountForFrames
    /\ BelowLimit
    /\ wpc = "done" => stop \/ LimitReached

(* The bounds as single facts.                                              *)
LEMMA Bounds == MaxPackets \in Nat /\ MaxArrivals \in Nat /\ DropCap \in Nat
BY WorkerAssumption

(* A worker starts with all counters at zero and empty rings.               *)
LEMMA LoopInit == WorkerInit => LoopInv
<1> SUFFICES ASSUME WorkerInit PROVE LoopInv
  OBVIOUS
<1>1. Len(rx) = 0 /\ RingFilled(tx, TxSize) = 0
  BY EmptyRingIs, Sizes DEF WorkerInit, Init
<1>2. /\ rx_packets = 0 /\ parse_errors = 0 /\ tx_packets = 0 /\ tx_drops = 0
      /\ arrived = 0 /\ taken = 0 /\ wpc = "prime" /\ stop = FALSE /\ service = FALSE
      /\ role \in Roles
  BY DEF WorkerInit
<1>3. StatsAccountForFrames
  BY <1>1, <1>2 DEF StatsAccountForFrames
<1>4. BelowLimit
  BY <1>2, Bounds, BatchIs DEF BelowLimit, Counted
<1>5. stop \in BOOLEAN /\ service \in BOOLEAN
  BY <1>2
<1>6. /\ rx_packets \in Nat /\ parse_errors \in Nat /\ tx_packets \in Nat
      /\ taken \in Nat /\ arrived \in 0 .. MaxArrivals /\ tx_drops \in 0 .. DropCap
  BY <1>2, Bounds
<1>7. wpc \in {"prime"} /\ role \in Roles
  BY <1>2
<1> QED
  BY <1>3, <1>4, <1>5, <1>6, <1>7 DEF LoopInv

(* The receive burst counts each frame it takes off the RX ring once.       *)
LEMMA ReceiveKeeps == SocketInv /\ LoopInv /\ Receive => LoopInv'
<1> SUFFICES ASSUME SocketInv, LoopInv, Receive PROVE LoopInv'
  OBVIOUS
<1>1. owed' \in 0 .. Batch /\ Len(rx') = Len(rx) - owed'
  BY BatchIs, RxBurstKeeps DEF Receive
<1>2. PICK good \in 0 .. owed' : /\ rx_packets' = rx_packets + good
                                 /\ parse_errors' = parse_errors + (owed' - good)
  BY DEF Receive
<1>3. /\ wpc = "rx" /\ wpc' \in {"refill", "tx", "check"} /\ role' = role
      /\ stop' = stop /\ tx_packets' = tx_packets /\ tx_drops' = tx_drops
      /\ service' = service /\ arrived' = arrived /\ taken' = taken /\ tx' = tx
  BY DEF Receive, Goto, AfterRx, RxBurst
<1>4. Len(rx) \in Nat
  BY SocketNumbers
<1> DEFINE n == owed'
           l == Len(rx)
           l1 == Len(rx')
<1>5. n \in 0 .. Batch /\ l1 = l - n /\ l \in Nat /\ good \in 0 .. n
      /\ rx_packets' = rx_packets + good /\ parse_errors' = parse_errors + (n - good)
  BY <1>1, <1>2, <1>4
<1> HIDE DEF n, l, l1
<1>6. rx_packets' \in Nat /\ parse_errors' \in Nat
  BY <1>5, BatchIs DEF LoopInv
<1>7. StatsAccountForFrames'
  <2>1. rx_packets + parse_errors + l = arrived /\ tx_packets = taken + RingFilled(tx, TxSize)
    BY DEF LoopInv, StatsAccountForFrames, l
  <2>2. rx_packets' + parse_errors' + l1 = arrived
    BY <1>5, <2>1, BatchIs DEF LoopInv
  <2> QED
    BY <1>3, <2>1, <2>2 DEF StatsAccountForFrames, l1
<1>8. BelowLimit'
  <2> SUFFICES ASSUME MaxPackets > 0
               PROVE  rx_packets' + tx_packets' < MaxPackets + Batch
    <3>1. tx_packets' \in Nat
      BY <1>3 DEF LoopInv
    <3>2. \A k \in Nat : k < MaxPackets + Batch => k < MaxPackets + 2 * Batch
      BY BatchIs, Bounds
    <3>3. Counted' = rx_packets' + tx_packets'
      BY DEF Counted
    <3>4. rx_packets' + tx_packets' \in Nat
      <4>1. \A a, b \in Nat : a + b \in Nat
        OBVIOUS
      <4> QED
        BY <1>6, <3>1, <4>1, Zenon
    <3> QED
      BY <1>3, <3>2, <3>3, <3>4 DEF BelowLimit
  <2> QED
    BY <1>3, <1>5, BatchIs, Bounds DEF BelowLimit, Counted, LoopInv
<1> QED
  BY <1>3, <1>6, <1>7, <1>8 DEF LoopInv

(* The transmit burst counts what it submitted.                             *)
LEMMA TransmitKeeps == SocketInv /\ LoopInv /\ Transmit => LoopInv'
<1> SUFFICES ASSUME SocketInv, LoopInv, Transmit PROVE LoopInv'
  OBVIOUS
<1> DEFINE sent == Minus(TxSize, tx'.prod, tx.prod)
           l == RingFilled(tx, TxSize)
           l1 == RingFilled(tx', TxSize)
<1>1. sent \in 0 .. Batch /\ l1 = l + sent /\ rx' = rx
  <2>1. CASE TxBurst(Batch)
    <3>1. rx' = rx
      BY <2>1 DEF TxBurst
    <3> QED
      BY <2>1, <3>1, BatchIs, TxBurstKeeps
  <2>2. CASE TxBurstFull(Batch)
    <3>1. tx' = tx /\ rx' = rx
      BY <2>2 DEF TxBurstFull, vars
    <3>2. tx.prod \in Counters(TxSize) /\ l \in Nat
      BY SocketNumbers, Sizes DEF SocketInv, IsRing
    <3> DEFINE a == tx.prod
    <3>3. Minus(TxSize, a, a) = 0
      <4>1. a \in Counters(TxSize) /\ TxSize \in Nat \ {0}
        BY <3>2, Sizes
      <4> HIDE DEF a
      <4>2. Minus(TxSize, a, a) = IF a >= a THEN a - a ELSE a - a + 2 * TxSize
        BY <4>1, CounterIs
      <4> QED
        BY <4>1, <4>2 DEF Counters, Wrap
    <3>4. sent = 0
      BY <3>1, <3>3
    <3> HIDE DEF sent
    <3>5. l1 = l
      BY <3>1
    <3> HIDE DEF l, l1
    <3> QED
      BY <3>1, <3>2, <3>4, <3>5, BatchIs
  <2> QED
    BY <2>1, <2>2 DEF Transmit
<1>2. /\ wpc = "tx" /\ wpc' \in {"kick", "complete"} /\ role' = role
      /\ tx_packets' = tx_packets + sent
      /\ tx_drops' = IF sent > 0 THEN tx_drops ELSE Least(tx_drops + Batch, DropCap)
      /\ stop' = stop /\ rx_packets' = rx_packets /\ parse_errors' = parse_errors
      /\ service' = service /\ arrived' = arrived /\ taken' = taken
  BY DEF Transmit, Goto
<1>3. l \in Nat
  BY SocketNumbers, Sizes
<1> HIDE DEF sent, l, l1
<1>4. tx_packets' \in Nat /\ tx_drops' \in 0 .. DropCap
  <2>1. Least(tx_drops + Batch, DropCap) \in 0 .. DropCap
    BY BatchIs, Bounds DEF Least, LoopInv
  <2> QED
    BY <1>1, <1>2, <2>1, BatchIs DEF LoopInv
<1>5. StatsAccountForFrames'
  <2>1. rx_packets + parse_errors + Len(rx) = arrived /\ tx_packets = taken + l
    BY DEF LoopInv, StatsAccountForFrames, l
  <2>2. tx_packets' = taken + l1
    BY <1>1, <1>2, <1>3, <2>1, BatchIs DEF LoopInv
  <2> QED
    BY <1>1, <1>2, <2>1, <2>2 DEF StatsAccountForFrames, l1
<1>6. BelowLimit'
  <2> SUFFICES ASSUME MaxPackets > 0
               PROVE  rx_packets' + tx_packets' < MaxPackets + 2 * Batch
    BY <1>2 DEF BelowLimit, Counted
  <2> QED
    BY <1>1, <1>2, BatchIs, Bounds DEF BelowLimit, Counted, LoopInv
<1> QED
  BY <1>2, <1>4, <1>5, <1>6 DEF LoopInv

(* The kernel's steps keep the account: an arrival is counted, a descriptor *)
(* taken from the TX ring stays accounted for.                              *)
LEMMA KernelKeeps ==
    SocketInv /\ LoopInv /\ (Arrive \/ TakeTx \/ CompleteTx) => LoopInv'
<1> SUFFICES ASSUME SocketInv, LoopInv, Arrive \/ TakeTx \/ CompleteTx PROVE LoopInv'
  OBVIOUS
<1>1. /\ role' = role /\ wpc' = wpc /\ stop' = stop /\ rx_packets' = rx_packets
      /\ parse_errors' = parse_errors /\ tx_packets' = tx_packets /\ tx_drops' = tx_drops
  BY DEF Arrive, TakeTx, CompleteTx, workerVars, stats
<1>2. BelowLimit' /\ (wpc' = "done" => stop' \/ LimitReached')
  BY <1>1 DEF LoopInv, BelowLimit, Counted, LimitReached
<1>3. Len(rx) \in Nat /\ RingFilled(tx, TxSize) \in Nat
  BY SocketNumbers, Sizes
<1>4. CASE Arrive
  <2>1. Len(rx') = Len(rx) + 1 /\ arrived' = arrived + 1 /\ arrived < MaxArrivals
        /\ tx' = tx /\ service' = service /\ taken' = taken
    BY <1>4, KernelReceiveKeeps DEF Arrive, KernelReceive
  <2>2. StatsAccountForFrames'
    BY <1>1, <1>3, <2>1 DEF LoopInv, StatsAccountForFrames
  <2>3. arrived' \in 0 .. MaxArrivals
    BY <2>1, Bounds DEF LoopInv
  <2> QED
    BY <1>1, <1>2, <2>1, <2>2, <2>3 DEF LoopInv
<1>5. CASE TakeTx
  <2>1. /\ RingFilled(tx', TxSize) = RingFilled(tx, TxSize) - 1 /\ taken' = taken + 1
        /\ rx' = rx /\ arrived' = arrived
    BY <1>5, KernelTakeKeeps DEF TakeTx, KernelTake
  <2>2. service' \in BOOLEAN
    BY <1>5 DEF TakeTx
  <2>3. StatsAccountForFrames'
    <3>1. /\ rx_packets + parse_errors + Len(rx) = arrived
          /\ tx_packets = taken + RingFilled(tx, TxSize) /\ taken \in Nat
      BY DEF LoopInv, StatsAccountForFrames
    <3>2. tx_packets = (taken + 1) + RingFilled(tx', TxSize)
      BY <1>3, <2>1, <3>1
    <3> QED
      BY <1>1, <2>1, <3>1, <3>2 DEF StatsAccountForFrames
  <2> QED
    BY <1>1, <1>2, <2>1, <2>2, <2>3 DEF LoopInv
<1>6. CASE CompleteTx
  <2>1. tx' = tx /\ rx' = rx /\ arrived' = arrived /\ taken' = taken /\ service' = service
    BY <1>6 DEF CompleteTx, KernelComplete, workerVars
  <2>2. StatsAccountForFrames'
    BY <1>1, <2>1 DEF LoopInv, StatsAccountForFrames
  <2> QED
    BY <1>1, <1>2, <2>1, <2>2 DEF LoopInv
<1> QED
  BY <1>4, <1>5, <1>6

(* The steps that touch no ring the counters speak of.                      *)
LEMMA ControlKeeps ==
    ASSUME LoopInv, rx' = rx, tx' = tx, role' = role, service' \in BOOLEAN,
           rx_packets' = rx_packets, parse_errors' = parse_errors, tx_packets' = tx_packets,
           tx_drops' = tx_drops, arrived' = arrived, taken' = taken,
           stop' \in BOOLEAN, stop => stop',
           \/ wpc' = wpc
           \/ wpc = "prime" /\ wpc' = "loop"
           \/ wpc = "loop" /\ wpc' \in {"rx", "tx"}
           \/ wpc = "loop" /\ wpc' = "done" /\ stop
           \/ wpc = "refill" /\ wpc' \in {"tx", "check"}
           \/ wpc \in {"kick", "complete"} /\ wpc' \in {"complete", "check"}
           \/ wpc = "check" /\ wpc' = IF LimitReached THEN "done" ELSE "loop"
    PROVE  LoopInv'
<1>1. StatsAccountForFrames'
  BY DEF LoopInv, StatsAccountForFrames
<1>2. Counted' = Counted /\ Counted \in Nat
  BY DEF Counted, LoopInv
<1>3. BelowLimit'
  <2> SUFFICES ASSUME MaxPackets > 0
               PROVE  /\ wpc' \in {"prime", "loop", "rx"} => Counted < MaxPackets
                      /\ wpc' \in {"refill", "tx"} => Counted < MaxPackets + Batch
                      /\ Counted < MaxPackets + 2 * Batch
    BY <1>2 DEF BelowLimit
  <2>1. /\ wpc \in {"prime", "loop", "rx"} => Counted < MaxPackets
        /\ wpc \in {"refill", "tx"} => Counted < MaxPackets + Batch
        /\ Counted < MaxPackets + 2 * Batch
    BY DEF LoopInv, BelowLimit
  <2>2. wpc = "check" /\ wpc' = "loop" => Counted < MaxPackets
    BY <1>2, Bounds DEF LimitReached, Counted
  <2>3. Counted < MaxPackets => Counted < MaxPackets + Batch
    BY <1>2, Bounds, BatchIs
  <2> QED
    BY <2>1, <2>2, <2>3
<1>4. wpc' = "done" => stop' \/ LimitReached'
  BY DEF LoopInv, LimitReached
<1> QED
  BY <1>1, <1>3, <1>4 DEF LoopInv

(* Every step keeps the invariant of the loop.                              *)
LEMMA LoopStep == SocketInv /\ LoopInv /\ [WorkerNext]_allVars => LoopInv'
<1> SUFFICES ASSUME SocketInv, LoopInv, [WorkerNext]_allVars PROVE LoopInv'
  OBVIOUS
<1> USE DEF stats
<1>1. CASE Prime
  BY <1>1, ControlKeeps DEF Prime, Goto, FillRefill, LoopInv
<1>2. CASE Loop
  BY <1>2, ControlKeeps DEF Loop, Goto, vars, LoopInv
<1>3. CASE LoopStopped
  BY <1>3, ControlKeeps DEF LoopStopped, Goto, vars, LoopInv
<1>4. CASE Refill
  BY <1>4, ControlKeeps DEF Refill, Goto, FillRefill, AfterRx, LoopInv
<1>5. CASE KickAccepted
  BY <1>5, ControlKeeps DEF KickAccepted, Goto, vars, LoopInv
<1>6. CASE KickRefused
  BY <1>6, ControlKeeps DEF KickRefused, Goto, vars, LoopInv
<1>7. CASE Reclaim
  BY <1>7, ControlKeeps DEF Reclaim, Goto, TxComplete, LoopInv
<1>8. CASE Check
  BY <1>8, ControlKeeps DEF Check, Goto, vars, LoopInv
<1>9. CASE SetStop
  BY <1>9, ControlKeeps DEF SetStop, vars, LoopInv
<1>10. CASE Returned \/ UNCHANGED allVars
  BY <1>10, ControlKeeps DEF Returned, allVars, vars, LoopInv
<1>11. CASE Receive
  BY <1>11, ReceiveKeeps
<1>12. CASE Transmit
  BY <1>12, TransmitKeeps
<1>13. CASE Arrive \/ TakeTx \/ CompleteTx
  BY <1>13, KernelKeeps
<1> QED
  BY <1>1, <1>2, <1>3, <1>4, <1>5, <1>6, <1>7, <1>8, <1>9, <1>10, <1>11, <1>12, <1>13
     DEF WorkerNext, Worker

(* The invariants of the socket and of the loop hold of a running worker.   *)
THEOREM WorkerSafe == WorkerSpec => [](SocketInv /\ LoopInv)
<1>1. WorkerInit => SocketInv /\ LoopInv
  BY SocketInit, LoopInit DEF WorkerInit
<1>2. SocketInv /\ LoopInv /\ [WorkerNext]_allVars => SocketInv' /\ LoopInv'
  BY LoopStep, StepKeeps, WorkerStepIsSocketStep DEF Keeps
<1> QED
  BY <1>1, <1>2, PTL DEF WorkerSpec

(* w->stats account for every frame, whatever the sizes, the role and the   *)
(* order in which the kernel and the loop run.                              *)
THEOREM StatsAccount == WorkerSpec => []StatsAccountForFrames
<1>1. LoopInv => StatsAccountForFrames
  BY DEF LoopInv
<1> QED
  BY <1>1, WorkerSafe, PTL

(* rewsr_dp_worker_run returns only when stop is set or max_packets is      *)
(* reached, and overshoots max_packets by less than two bursts.             *)
THEOREM Returns == WorkerSpec => []ReturnsWhenTold
<1>1. LoopInv => ReturnsWhenTold
  BY DEF LoopInv, ReturnsWhenTold, BelowLimit, Counted, LimitReached
<1> QED
  BY <1>1, WorkerSafe, PTL

(* The worker's state keeps its types, and no counter of received frames    *)
(* exceeds the packets that arrived.                                        *)
THEOREM WorkerTypes == WorkerSpec => []WorkerTypeOK
<1>1. SocketInv /\ LoopInv /\ TypeOK => WorkerTypeOK
  <2> SUFFICES ASSUME SocketInv, LoopInv, TypeOK PROVE WorkerTypeOK
    OBVIOUS
  <2>1. Len(rx) \in Nat
    BY SocketNumbers
  <2>2. rx_packets \in 0 .. MaxArrivals /\ parse_errors \in 0 .. MaxArrivals
    BY <2>1, Bounds DEF LoopInv, StatsAccountForFrames
  <2> QED
    BY <2>2 DEF LoopInv, WorkerTypeOK
<1> QED
  BY <1>1, WorkerSafe, WorkerIsSocketUser, SocketTypes, PTL

(* At every size at which the fill ring can be filled, the defaults of      *)
(* rewsr_dp_worker_init included, a running worker keeps the kernel's       *)
(* receive credit, even when its own TX ring has jammed.                    *)
THEOREM WorkerKeepsCredit == NumFrames >= FillSize => (WorkerSpec => []FillCreditConserved)
<1> SUFFICES ASSUME NumFrames >= FillSize PROVE WorkerSpec => []FillCreditConserved
  OBVIOUS
<1>1. Spec => []FillCreditConserved
  BY FillCredit
<1> QED
  BY <1>1, WorkerIsSocketUser, PTL
=============================================================================
