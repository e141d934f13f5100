--------------------------- MODULE RemainderLemmas --------------------------
(* Facts that the proofs about masked ring indices, chunk addresses, queues *)
(* and repeated calls rest on: division with remainder, queues of           *)
(* consecutive numbers, and induction, stated with a set instead of a       *)
(* predicate.                                                               *)
EXTENDS Integers, SequenceTheorems, WellFoundedInduction, TLAPS

(* A set of naturals that has a member has a least one.                     *)
LEMMA LeastOf ==
    ASSUME NEW T \in SUBSET Nat, T # {}
    PROVE  \E x \in T : \A y \in T : x <= y
<1> DEFINE R == {ss \in Nat \X Nat : ss[1] < ss[2]}
<1>1. IsWellFoundedOn(R, Nat)
  BY NatLessThanWellFounded DEF OpToRel
<1> HIDE DEF R
<1>2. PICK x \in T : \A y \in T : ~(<<y, x>> \in R)
  BY <1>1, WFMin
<1>3. \A y \in T : ~(y < x)
  BY <1>2 DEF R
<1> QED
  BY <1>3

(* A set that has 0 and the successor, up to a bound, of each of its        *)
(* members has every number up to the bound.                                *)
LEMMA UpTo ==
    ASSUME NEW n \in Nat, NEW S, 0 \in S,
           \A i \in 0 .. n - 1 : i \in S => i + 1 \in S
    PROVE  0 .. n \subseteq S
<1> DEFINE T == {i \in 0 .. n : i \notin S}
<1>1. SUFFICES ASSUME T # {} PROVE FALSE
  OBVIOUS
<1>2. PICK x \in T : \A y \in T : x <= y
  <2>1. T \in SUBSET Nat /\ T # {}
    BY <1>1
  <2> HIDE DEF T
  <2> QED
    BY <2>1, LeastOf
<1>3. x \in 1 .. n /\ x - 1 \in 0 .. n - 1 /\ x - 1 \notin T
  BY <1>2
<1>4. x - 1 \in S
  BY <1>3
<1>5. (x - 1) + 1 \in S
  BY <1>3, <1>4
<1> QED
  BY <1>2, <1>3, <1>5

(* Division with remainder, in the form the provers can use.                *)
LEMMA Remainder ==
    ASSUME NEW x \in Int, NEW S \in Nat \ {0}, NEW r \in Int, r = x % S
    PROVE  \E q \in Int : x = q * S + r
<1> DEFINE q == x \div S
<1>1. x % S = x - S * q
  OBVIOUS
<1>2. r = x - S * q
  BY <1>1, Zenon
<1>3. q \in Int
  OBVIOUS
<1> HIDE DEF q
<1>4. x = q * S + r
  BY <1>2, <1>3
<1> QED
  BY <1>3, <1>4

(* The only multiple of S strictly between -S and S is 0.                   *)
LEMMA SmallMultiple ==
    ASSUME NEW q \in Int, NEW S \in Nat \ {0}, q * S < S, q * S > -S
    PROVE  q = 0
<1>1. CASE q >= 1
  <2>1. (q - 1) * S >= 0
    BY <1>1
  <2> QED
    BY <1>1, <2>1
<1>2. CASE q <= -1
  <2>1. (-1 - q) * S >= 0
    BY <1>2
  <2> QED
    BY <1>2, <2>1
<1> QED
  BY <1>1, <1>2

(* Numbers with the same remainder whose difference, up to multiples of S,  *)
(* is z are the same up to multiples of S when z is small.                  *)
LEMMA SameRemainder ==
    ASSUME NEW x \in Int, NEW y \in Int, NEW z \in Int, NEW k \in Int,
           NEW S \in Nat \ {0},
           x % S = y % S, x - y = z + k * S, z < S, z > -S
    PROVE  z = 0
<1> DEFINE r == x % S
<1>1. r \in Int /\ r = x % S /\ r = y % S
  OBVIOUS
<1> HIDE DEF r
<1>2. PICK q \in Int : x = q * S + r
  BY <1>1, Remainder
<1>3. PICK p \in Int : y = p * S + r
  BY <1>1, Remainder
<1>4. (q - p - k) * S = z
  BY <1>1, <1>2, <1>3
<1>5. q - p - k = 0
  BY <1>4, SmallMultiple
<1> QED
  BY <1>4, <1>5

(* The remainder of a multiple plus an offset below the divisor is the      *)
(* offset.                                                                  *)
LEMMA OffsetRemainder ==
    ASSUME NEW S \in Nat \ {0}, NEW k \in Int, NEW o \in 0 .. S - 1
    PROVE  (k * S + o) % S = o
<1> DEFINE x == k * S + o
           r == x % S
<1>1. x \in Int /\ x = k * S + o
  OBVIOUS
<1> HIDE DEF x
<1>2. r \in 0 .. S - 1 /\ r = x % S
  BY <1>1
<1> HIDE DEF r
<1>3. PICK q \in Int : x = q * S + r
  <2>1. r \in Int /\ r = x % S
    BY <1>2
  <2> QED
    BY <1>1, <2>1, Remainder, Zenon
<1>4. (q - k) * S = o - r
  <2>1. r \in Int
    BY <1>2
  <2> QED
    BY <1>1, <1>3, <2>1
<1>5. q - k = 0
  BY <1>2, <1>4, SmallMultiple
<1>6. r = o
  BY <1>2, <1>4, <1>5
<1> QED
  BY <1>6 DEF r, x

(* Adding a multiple of the divisor leaves the remainder as it is.          *)
LEMMA SameClass ==
    ASSUME NEW S \in Nat \ {0}, NEW x \in Int, NEW k \in Int
    PROVE  (x + k * S) % S = x % S
<1> DEFINE r == x % S
<1>1. r \in 0 .. S - 1 /\ r \in Int /\ r = x % S
  OBVIOUS
<1> HIDE DEF r
<1>2. PICK q \in Int : x = q * S + r
  BY <1>1, Remainder
<1>3. x + k * S = (q + k) * S + r
  BY <1>1, <1>2
<1>4. ((q + k) * S + r) % S = r
  <2>1. q + k \in Int
    BY <1>2
  <2> QED
    BY <1>1, <2>1, OffsetRemainder
<1> QED
  BY <1>1, <1>3, <1>4

(* A queue of consecutive numbers with m more at the back, or m fewer at    *)
(* the front.                                                               *)
LEMMA ConsecutiveQueue ==
    ASSUME NEW c \in Nat, NEW n \in Nat, NEW m \in Nat
    PROVE  LET q == [j \in 1 .. n |-> c + j]
           IN  /\ q \in Seq(Nat) /\ Len(q) = n
               /\ [j \in 1 .. n + m |-> c + j] = q \o [k \in 1 .. m |-> (c + n) + k]
               /\ m <= n => [j \in 1 .. n - m |-> (c + m) + j] = SubSeq(q, m + 1, Len(q))
<1> DEFINE q == [j \in 1 .. n |-> c + j]
           r == [k \in 1 .. m |-> (c + n) + k]
           l == [j \in 1 .. n + m |-> c + j]
<1>1. q \in Seq(Nat) /\ Len(q) = n /\ r \in Seq(Nat) /\ Len(r) = m
  OBVIOUS
<1>2. l = q \o r
  <2>1. /\ q \o r \in Seq(Nat) /\ Len(q \o r) = n + m
        /\ \A i \in 1 .. n + m : (q \o r)[i] = IF i <= n THEN q[i] ELSE r[i - n]
    <3> HIDE DEF q, r
    <3>1. /\ q \o r \in Seq(Nat) /\ Len(q \o r) = Len(q) + Len(r)
          /\ \A i \in 1 .. Len(q) + Len(r) :
               (q \o r)[i] = IF i <= Len(q) THEN q[i] ELSE r[i - Len(q)]
      BY <1>1, ConcatProperties, Zenon
    <3> QED
      BY <1>1, <3>1, Zenon
  <2>2. \A i \in 1 .. n + m : l[i] = IF i <= n THEN q[i] ELSE r[i - n]
    OBVIOUS
  <2>3. l \in Seq(Nat) /\ Len(l) = n + m
    OBVIOUS
  <2> HIDE DEF q, r, l
  <2> QED
    BY <2>1, <2>2, <2>3, SeqEqual
<1>3. m <= n => [j \in 1 .. n - m |-> (c + m) + j] = SubSeq(q, m + 1, Len(q))
  OBVIOUS
<1> QED
  BY <1>1, <1>2, <1>3
=============================================================================
