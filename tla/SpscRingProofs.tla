--------------------------- MODULE SpscRingProofs ---------------------------
(* Safety of the single-producer single-consumer ring for every number of   *)
(* slots and every number of items, and of rewsr_spsc_count beside it.      *)
EXTENDS SpscGauge, RemainderLemmas, SequenceTheorems, TLAPS

(* The successor around the ring is an index, never the index itself.       *)
LEMMA SuccFacts ==
    ASSUME NEW i \in Index
    PROVE  Succ(i) \in Index /\ Succ(i) # i
BY NAssumption DEF Index, Succ

(* The distance around the ring lies in 0 .. N - 1 and is 0 only between    *)
(* equal indices.                                                           *)
LEMMA DistFacts ==
    ASSUME NEW t \in Index, NEW h \in Index
    PROVE  /\ Dist(t, h) \in 0 .. N - 1
           /\ Dist(t, h) = 0 <=> t = h
BY NAssumption DEF Index, Dist

(* Moving tail one slot lengthens the distance by one unless that slot is   *)
(* head, the check rewsr_spsc_produce makes.                                *)
LEMMA DistTail ==
    ASSUME NEW t \in Index, NEW h \in Index, Succ(t) # h
    PROVE  Dist(Succ(t), h) = Dist(t, h) + 1
BY NAssumption DEF Index, Dist, Succ

(* Moving head one slot shortens every distance that was not 0 by one.      *)
LEMMA DistHead ==
    ASSUME NEW t \in Index, NEW h \in Index, t # h
    PROVE  Dist(t, Succ(h)) = Dist(t, h) - 1
BY NAssumption DEF Index, Dist, Succ

(* Two indices at the same distance from a third one are equal.             *)
LEMMA DistInjective ==
    ASSUME NEW s \in Index, NEW t \in Index, NEW h \in Index, Dist(s, h) = Dist(t, h)
    PROVE  s = t
BY NAssumption DEF Index, Dist

(* The ring is well typed in its initial state.                             *)
LEMMA RingInit == Init => RingInv
<1> SUFFICES ASSUME Init PROVE RingInv
  OBVIOUS
<1>1. TypeOK
  BY NAssumption DEF Init, TypeOK, Index, Blank
<1>2. Live = 0
  BY NAssumption DEF Init, Live, Dist
<1>3. Consumed = 0
  BY DEF Init, Consumed
<1>4. \A i \in Index : ~(Dist(i, head) < Live)
  BY <1>1, <1>2, DistFacts DEF TypeOK
<1>5. ExactlyOnceInOrder
  BY DEF Init, ExactlyOnceInOrder
<1>6. ppc = "idle" /\ cpc = "idle" /\ sent = 0
  BY DEF Init
<1> QED
  BY <1>1, <1>2, <1>3, <1>4, <1>5, <1>6 DEF RingInv

(* Each step of the producer keeps the invariant.                           *)
LEMMA ProduceKeeps == RingInv /\ Produce => RingInv'
<1> SUFFICES ASSUME RingInv, Produce PROVE RingInv'
  OBVIOUS
<1> USE NAssumption DEF RingInv, TypeOK, consumerVars, indices, slots
<1>1. Consumed' = Consumed /\ head' = head /\ delivered' = delivered
  BY DEF Produce, ProduceLoad, ProduceFull, ProduceCopyLo, ProduceCopyHi, ProducePublish, Consumed, vars
<1>2. Consumed \in Int
  BY LenProperties DEF Consumed
<1>3. ExactlyOnceInOrder'
  BY <1>1 DEF ExactlyOnceInOrder
<1>4. CASE ProduceFull
  BY <1>1, <1>3, <1>4 DEF ProduceFull, vars, Live, Item
<1>5. CASE ProduceLoad
  BY <1>1, <1>3, <1>5 DEF ProduceLoad, Live, Item
<1>6. CASE ProduceCopyLo
  <2>1. \A i \in Index : Dist(i, head) < Live => i # tail
    BY DistFacts DEF Live
  <2>2. \A i \in Index : Dist(i, head) < Live => slotLo'[i] = slotLo[i]
    BY <1>6, <2>1 DEF ProduceCopyLo
  <2>3. slotLo'[tail] = Item /\ slotLo' \in [Index -> Nat]
    BY <1>6 DEF ProduceCopyLo, Item
  <2> QED
    BY <1>1, <1>3, <1>6, <2>2, <2>3 DEF ProduceCopyLo, Live, Item
<1>7. CASE ProduceCopyHi
  <2>1. \A i \in Index : Dist(i, head) < Live => i # tail
    BY DistFacts DEF Live
  <2>2. \A i \in Index : Dist(i, head) < Live => slotHi'[i] = slotHi[i]
    BY <1>7, <2>1 DEF ProduceCopyHi
  <2>3. slotHi'[tail] = Item /\ slotHi' \in [Index -> Nat]
    BY <1>7 DEF ProduceCopyHi, Item
  <2> QED
    BY <1>1, <1>3, <1>7, <2>2, <2>3 DEF ProduceCopyHi, Live, Item
<1>8. CASE ProducePublish
  <2>1. tail' \in Index /\ Live' = Live + 1 /\ sent' = sent + 1
    BY <1>1, <1>8, SuccFacts, DistTail DEF ProducePublish, Live
  <2>2. \A i \in Index : Dist(i, head) < Live' => i = tail \/ Dist(i, head) < Live
    <3> SUFFICES ASSUME NEW i \in Index, Dist(i, head) < Live', i # tail
                 PROVE  Dist(i, head) < Live
      OBVIOUS
    <3>1. Dist(i, head) # Live
      BY DistInjective DEF Live
    <3>2. Dist(i, head) \in Int /\ Live \in Int
      BY DistFacts DEF Live
    <3> QED
      BY <2>1, <3>1, <3>2
  <2>3. Item = Consumed + Dist(tail, head) + 1
    BY <1>2, DistFacts DEF Item, Live
  <2>4. \A i \in Index : Dist(i, head) < Live' =>
           /\ slotLo[i] = Consumed + Dist(i, head) + 1
           /\ slotHi[i] = Consumed + Dist(i, head) + 1
    BY <1>8, <2>2, <2>3 DEF ProducePublish
  <2>5. cpc' # "idle" => head' # tail'
    BY <1>1, <1>8 DEF ProducePublish
  <2>6. Live' = sent' - Consumed'
    BY <1>1, <1>2, <2>1, DistFacts DEF Live
  <2> QED
    BY <1>1, <1>3, <1>8, <2>1, <2>4, <2>5, <2>6, SMTT(40) DEF ProducePublish
<1> QED
  BY <1>4, <1>5, <1>6, <1>7, <1>8 DEF Produce

(* Each step of the consumer keeps the invariant.                           *)
LEMMA ConsumeKeeps == RingInv /\ Consume => RingInv'
<1> SUFFICES ASSUME RingInv, Consume PROVE RingInv'
  OBVIOUS
<1> USE NAssumption DEF RingInv, TypeOK, producerVars, indices, slots
<1>1. /\ ppc' = ppc /\ sent' = sent /\ tail' = tail
      /\ slotLo' = slotLo /\ slotHi' = slotHi
  BY DEF Consume, ConsumeLoad, ConsumeEmpty, ConsumeCopyLo, ConsumeCopyHi, ConsumeRelease, vars
<1>2. Consumed \in Int /\ Len(delivered) \in Nat
  BY LenProperties DEF Consumed
<1>3. CASE ConsumeEmpty
  BY <1>3 DEF ConsumeEmpty, vars, Live, Item, Consumed, ExactlyOnceInOrder
<1>4. CASE ConsumeLoad
  BY <1>1, <1>4 DEF ConsumeLoad, Live, Item, Consumed, ExactlyOnceInOrder
<1>5. cpc # "idle" => slotLo[head] = Consumed + 1 /\ slotHi[head] = Consumed + 1
  <2>1. Dist(head, head) = 0 /\ (cpc # "idle" => Live > 0)
    BY DistFacts DEF Live
  <2> QED
    BY <1>2, <2>1
<1>6. CASE ConsumeCopyLo
  <2>1. Consumed' = Consumed /\ Live' = Live /\ head' = head /\ delivered' = delivered
    BY <1>1, <1>6 DEF ConsumeCopyLo, Consumed, Live
  <2>2. outLo' = Consumed + 1 /\ outLo' \in Nat
    BY <1>5, <1>6 DEF ConsumeCopyLo
  <2> QED
    BY <1>1, <1>6, <2>1, <2>2 DEF ConsumeCopyLo, Item, ExactlyOnceInOrder
<1>7. CASE ConsumeCopyHi
  <2>1. Consumed = Len(delivered)
    BY <1>7 DEF ConsumeCopyHi, Consumed
  <2>2. delivered' = Append(delivered, <<Len(delivered) + 1, Len(delivered) + 1>>)
    BY <1>5, <1>7, <2>1 DEF ConsumeCopyHi
  <2>3. /\ delivered' \in Seq(Nat \X Nat)
        /\ Len(delivered') = Len(delivered) + 1
        /\ \A k \in 1 .. Len(delivered) : delivered'[k] = delivered[k]
        /\ delivered'[Len(delivered) + 1] = <<Len(delivered) + 1, Len(delivered) + 1>>
    BY <1>2, <2>2, AppendProperties
  <2>4. ExactlyOnceInOrder'
    <3> SUFFICES ASSUME NEW k \in 1 .. Len(delivered') PROVE delivered'[k] = <<k, k>>
      BY DEF ExactlyOnceInOrder
    <3>1. k \in 1 .. Len(delivered) \/ k = Len(delivered) + 1
      BY <1>2, <2>3
    <3>2. CASE k \in 1 .. Len(delivered)
      BY <2>3, <3>2 DEF ExactlyOnceInOrder
    <3>3. CASE k = Len(delivered) + 1
      BY <2>3, <3>3
    <3> QED
      BY <3>1, <3>2, <3>3
  <2>5. Consumed' = Consumed /\ delivered' # <<>>
    BY <1>2, <1>7, <2>1, <2>3 DEF ConsumeCopyHi, Consumed
  <2>6. Live' = Live /\ head' = head /\ cpc' = "release" /\ outLo' = outLo
    BY <1>1, <1>7 DEF ConsumeCopyHi, Live
  <2> QED
    BY <1>1, <1>7, <2>3, <2>4, <2>5, <2>6 DEF ConsumeCopyHi, Item
<1>8. CASE ConsumeRelease
  <2>1. head' \in Index /\ head' = Succ(head) /\ cpc' = "idle" /\ delivered' = delivered
    BY <1>8, SuccFacts DEF ConsumeRelease
  <2>2. Live' = Live - 1
    BY <1>1, <1>8, <2>1, DistHead DEF ConsumeRelease, Live
  <2>3. Consumed' = Consumed + 1
    BY <1>2, <1>8, <2>1 DEF ConsumeRelease, Consumed
  <2>4. ppc # "idle" => Succ(tail) # head'
    BY <1>8, <2>1, SMTT(40) DEF ConsumeRelease, Succ, Index
  <2>5. \A i \in Index : Dist(i, head') < Live' =>
           /\ i # head
           /\ Dist(i, head') = Dist(i, head) - 1
    <3> SUFFICES ASSUME NEW i \in Index, Dist(i, head') < Live'
                 PROVE  i # head /\ Dist(i, head') = Dist(i, head) - 1
      OBVIOUS
    <3>1. Dist(head, Succ(head)) = N - 1
      BY DEF Dist, Succ, Index
    <3>2. Live \in 0 .. N - 1
      BY DistFacts DEF Live
    <3>3. i # head
      BY <2>1, <2>2, <3>1, <3>2
    <3> QED
      BY <2>1, <3>3, DistHead
  <2>6. \A i \in Index : Dist(i, head') < Live' =>
           /\ slotLo[i] = Consumed' + Dist(i, head') + 1
           /\ slotHi[i] = Consumed' + Dist(i, head') + 1
    <3> SUFFICES ASSUME NEW i \in Index, Dist(i, head') < Live'
                 PROVE  /\ slotLo[i] = Consumed' + Dist(i, head') + 1
                        /\ slotHi[i] = Consumed' + Dist(i, head') + 1
      OBVIOUS
    <3>1. Dist(i, head) \in Int /\ Live \in Int
      BY DistFacts DEF Live
    <3>2. Dist(i, head') = Dist(i, head) - 1
      BY <2>5
    <3>3. Dist(i, head) < Live
      BY <2>2, <3>1, <3>2
    <3> QED
      BY <1>2, <2>3, <3>1, <3>2, <3>3, SMTT(40)
  <2>7. Live' = sent' - Consumed'
    BY <1>1, <1>2, <2>2, <2>3, DistFacts DEF Live
  <2>8. ExactlyOnceInOrder'
    BY <2>1 DEF ExactlyOnceInOrder
  <2> QED
    BY <1>1, <1>8, <2>1, <2>4, <2>6, <2>7, <2>8 DEF ConsumeRelease, Item
<1> QED
  BY <1>3, <1>4, <1>6, <1>7, <1>8 DEF Consume

(* A step that changes nothing keeps the invariant.                         *)
LEMMA StutterKeeps == RingInv /\ UNCHANGED vars => RingInv'
BY DEF RingInv, TypeOK, vars, Live, Consumed, Item, ExactlyOnceInOrder

(* The inductive invariant holds in every reachable state.                  *)
THEOREM RingInvariant == Spec => []RingInv
<1>1. RingInv /\ [Next]_vars => RingInv'
  BY ProduceKeeps, ConsumeKeeps, StutterKeeps DEF Next
<1> QED
  BY RingInit, <1>1, PTL DEF Spec

(* Every variable of the ring keeps its type: indices stay below the slot   *)
(* count whatever the two threads do.                                       *)
THEOREM TypeCorrect == Spec => []TypeOK
<1>1. RingInv => TypeOK
  BY DEF RingInv
<1> QED
  BY RingInvariant, <1>1, PTL

(* For every ring size, rewsr_spsc_consume hands out exactly the items      *)
(* rewsr_spsc_produce took, whole, once each and in order.                  *)
THEOREM FifoCorrect == Spec => []ExactlyOnceInOrder
<1>1. RingInv => ExactlyOnceInOrder
  BY DEF RingInv
<1> QED
  BY RingInvariant, <1>1, PTL

(* The masked difference of the indices is the number of items in the ring, *)
(* and the reserved slot stays empty.                                       *)
THEOREM CountCorrect == Spec => []IndicesCountItems
<1>1. RingInv => IndicesCountItems
  BY NAssumption, DistFacts DEF RingInv, TypeOK, IndicesCountItems, Live, Capacity
<1> QED
  BY RingInvariant, <1>1, PTL

(* Producer and consumer are never in a memcpy of the same slot.            *)
THEOREM RaceFree == Spec => []NoSharedSlot
<1>1. RingInv => NoSharedSlot
  BY DEF RingInv, NoSharedSlot
<1> QED
  BY RingInvariant, <1>1, PTL

(* No step touches the bytes of a published slot before it is released.     *)
THEOREM PublishedStable == Spec => LiveSlotsStable
<1>1. RingInv /\ [Next]_vars =>
        [\A i \in Index :
           Dist(i, head) < Live => slotLo'[i] = slotLo[i] /\ slotHi'[i] = slotHi[i]]_vars
  <2> SUFFICES ASSUME RingInv, Next, NEW i \in Index, Dist(i, head) < Live
               PROVE  slotLo'[i] = slotLo[i] /\ slotHi'[i] = slotHi[i]
    OBVIOUS
  <2>1. i # tail
    BY DistFacts DEF RingInv, TypeOK, Live
  <2>2. CASE Produce
    BY <2>1, <2>2 DEF Produce, ProduceLoad, ProduceFull, ProduceCopyLo, ProduceCopyHi,
                      ProducePublish, vars, slots, RingInv, TypeOK
  <2>3. CASE Consume
    BY <2>3 DEF Consume, ConsumeLoad, ConsumeEmpty, ConsumeCopyLo, ConsumeCopyHi,
                ConsumeRelease, vars, slots
  <2> QED
    BY <2>2, <2>3 DEF Next
<1> QED
  BY RingInvariant, <1>1, PTL DEF Spec, LiveSlotsStable

-----------------------------------------------------------------------------
(* The ring implements a bounded queue.                                     *)

(* The abstract queue: the slots from head to tail.                         *)
Queue == [j \in 1 .. Live |->
            LET i == (head + j - 1) % N
            IN  IF slotLo[i] = slotHi[i] THEN slotLo[i] ELSE Blank]

(* The j-th slot from head is at distance j - 1.                            *)
LEMMA SlotAt ==
    ASSUME NEW h \in Index, NEW j \in 1 .. N - 1
    PROVE  (h + j - 1) % N \in Index /\ Dist((h + j - 1) % N, h) = j - 1
<1> DEFINE a == h + j - 1
           i == a % N
<1>1. N \in Nat \ {0} /\ a \in Int /\ a >= h /\ a < h + N
  BY NAssumption DEF Index
<1>2. CASE a < N
  <2>1. a \in 0 .. N - 1 /\ a = 0 * N + a
    BY <1>1, <1>2 DEF Index
  <2>2. (0 * N + a) % N = a
    <3> HIDE DEF a
    <3> QED
      BY <1>1, <2>1, OffsetRemainder
  <2>3. i = a
    BY <2>1, <2>2
  <2> HIDE DEF i
  <2>4. i \in Index /\ Dist(i, h) = j - 1
    BY <1>1, <2>1, <2>3 DEF Index, Dist
  <2> QED
    BY <2>4 DEF i
<1>3. CASE a >= N
  <2> DEFINE o == a - N
  <2>1. o \in 0 .. N - 1 /\ a = 1 * N + o /\ o < h
    BY <1>1, <1>3 DEF Index
  <2> HIDE DEF o
  <2>2. (1 * N + o) % N = o
    BY <1>1, <2>1, OffsetRemainder
  <2>3. i = o
    BY <2>1, <2>2
  <2>4. i \in Index /\ Dist(i, h) = j - 1
    <3> HIDE DEF i
    <3>1. o = h + j - 1 - N /\ j \in Int /\ h \in Int /\ N \in Int
      BY <1>1 DEF o, Index
    <3> QED
      BY <2>1, <2>3, <3>1 DEF Index, Dist
  <2> QED
    BY <2>4
<1> QED
  BY <1>1, <1>2, <1>3

(* Under the invariant the queue holds the items that were published and    *)
(* not yet given back, in order.                                            *)
LEMMA QueueIs ==
    ASSUME RingInv
    PROVE  /\ Live \in 0 .. N - 1 /\ Consumed \in Nat /\ sent = Consumed + Live
           /\ Queue = [j \in 1 .. Live |-> Consumed + j]
<1>1. head \in Index /\ tail \in Index /\ Live \in 0 .. N - 1
  BY DistFacts DEF RingInv, TypeOK, Live
<1>2. Consumed \in Nat
  <2>1. Len(delivered) \in Nat /\ (delivered # <<>> => Len(delivered) # 0)
    BY LenProperties, EmptySeq DEF RingInv, TypeOK
  <2> QED
    BY <2>1 DEF RingInv, Consumed
<1>3. sent = Consumed + Live
  BY <1>1, <1>2 DEF RingInv, TypeOK
<1>4. ASSUME NEW j \in 1 .. Live
      PROVE  LET i == (head + j - 1) % N
             IN  (IF slotLo[i] = slotHi[i] THEN slotLo[i] ELSE Blank) = Consumed + j
  <2> DEFINE i == (head + j - 1) % N
  <2>1. j \in 1 .. N - 1 /\ j - 1 < Live /\ j \in Int
    BY <1>1, NAssumption
  <2>2. i \in Index /\ Dist(i, head) = j - 1
    BY <1>1, <2>1, SlotAt
  <2> HIDE DEF i
  <2>3. slotLo[i] = Consumed + (j - 1) + 1 /\ slotHi[i] = Consumed + (j - 1) + 1
    BY <2>1, <2>2 DEF RingInv
  <2>4. Consumed + (j - 1) + 1 = Consumed + j
    BY <1>2, <2>1
  <2> QED
    BY <2>3, <2>4 DEF i
<1> QED
  BY <1>1, <1>2, <1>3, <1>4 DEF Queue

(* An item is being written only when the producer has one left to offer.   *)
LEMMA ItemLeft == Spec => [](ppc # "idle" => sent < MaxItems)
<1> DEFINE Left == ppc # "idle" => sent < MaxItems
<1>1. Init => Left
  BY DEF Init
<1>2. Left /\ [Next]_vars => Left'
  BY DEF Next, Produce, ProduceLoad, ProduceFull, ProduceCopyLo, ProduceCopyHi, ProducePublish,
         Consume, ConsumeLoad, ConsumeEmpty, ConsumeCopyLo, ConsumeCopyHi, ConsumeRelease,
         producerVars, vars
<1> QED
  BY <1>1, <1>2, PTL DEF Spec

(* What a step does to the indices: the producer publishes one item, the    *)
(* consumer gives one back, or nothing changes.                             *)
LEMMA IndexSteps ==
    ASSUME RingInv, [Next]_vars
    PROVE  \/ /\ ppc = "publish" /\ Live' = Live + 1 /\ Consumed' = Consumed /\ sent' = sent + 1
           \/ /\ Live > 0 /\ Live' = Live - 1 /\ Consumed' = Consumed + 1 /\ sent' = sent
           \/ UNCHANGED <<Live, Consumed, sent>>
<1> USE DEF indices, slots, producerVars, consumerVars, vars
<1>1. CASE ProducePublish
  BY <1>1, DistTail DEF ProducePublish, RingInv, TypeOK, Live, Consumed
<1>2. CASE ConsumeRelease
  <2>1. head # tail /\ head' = Succ(head) /\ tail' = tail /\ delivered' = delivered /\ sent' = sent
        /\ cpc = "release" /\ cpc' = "idle"
    BY <1>2 DEF ConsumeRelease, RingInv
  <2>2. Live' = Live - 1 /\ Live \in 0 .. N - 1 /\ Live # 0
    BY <2>1, DistHead, DistFacts DEF RingInv, TypeOK, Live
  <2>3. Len(delivered) \in Nat
    BY LenProperties DEF RingInv, TypeOK
  <2>4. Consumed' = Consumed + 1
    BY <2>1, <2>3 DEF Consumed
  <2> QED
    BY <2>1, <2>2, <2>4
<1>3. CASE ConsumeCopyHi
  <2>1. /\ cpc = "copying" /\ cpc' = "release" /\ head' = head /\ tail' = tail /\ sent' = sent
        /\ delivered' = Append(delivered, <<outLo, slotHi[head]>>)
    BY <1>3 DEF ConsumeCopyHi
  <2>2. delivered \in Seq(Nat \X Nat) /\ <<outLo, slotHi[head]>> \in Nat \X Nat
    BY DEF RingInv, TypeOK
  <2>3. Len(delivered) \in Nat /\ Len(delivered') = Len(delivered) + 1
    BY <2>1, <2>2, LenProperties, AppendProperties
  <2> QED
    BY <2>1, <2>3 DEF Live, Consumed
<1>4. CASE Produce /\ ~ProducePublish
  BY <1>4 DEF Produce, ProduceLoad, ProduceFull, ProduceCopyLo, ProduceCopyHi, Live, Consumed
<1>5. CASE Consume /\ ~ConsumeRelease /\ ~ConsumeCopyHi
  BY <1>5 DEF Consume, ConsumeLoad, ConsumeEmpty, ConsumeCopyLo, Live, Consumed
<1>6. CASE UNCHANGED vars
  BY <1>6 DEF Live, Consumed
<1> QED
  BY <1>1, <1>2, <1>3, <1>4, <1>5, <1>6 DEF Next

(* For every ring size the two threads, step by step, are a bounded queue:  *)
(* the store of tail puts an item at the back, the store of head takes one  *)
(* from the front, and no other access to shared memory shows.              *)
THEOREM RingIsQueue == Spec => ImplementsFifo
<1>1. Init => Fifo!Init
  <2> SUFFICES ASSUME Init PROVE Queue = <<>> /\ sent = 0
    BY DEF Fifo!Init, Queue
  <2>1. Live = 0 /\ sent = 0
    BY NAssumption DEF Init, Live, Dist
  <2> QED
    BY <2>1 DEF Queue
<1>2. RingInv /\ RingInv' /\ (ppc # "idle" => sent < MaxItems) /\ [Next]_vars
        => [Fifo!Next]_(Fifo!fifoVars)
  <2> SUFFICES ASSUME RingInv, RingInv', ppc # "idle" => sent < MaxItems, [Next]_vars
               PROVE  \/ \E n \in 1 .. Capacity :
                           \/ /\ Len(Queue) + n <= Capacity /\ sent + n <= MaxItems
                              /\ Queue' = Queue \o [k \in 1 .. n |-> sent + k]
                              /\ sent' = sent + n
                           \/ /\ n <= Len(Queue)
                              /\ Queue' = SubSeq(Queue, n + 1, Len(Queue))
                              /\ sent' = sent
                      \/ Queue' = Queue /\ sent' = sent
    BY DEF Fifo!Next, Fifo!fifoVars, Fifo!Put, Fifo!Take, Queue
  <2> DEFINE c == Consumed
             n == Live
             q == [j \in 1 .. n |-> c + j]
  <2>1. n \in 0 .. N - 1 /\ c \in Nat /\ sent = c + n /\ Queue = q
    BY QueueIs
  <2>2. Live' \in 0 .. N - 1 /\ Queue' = [j \in 1 .. Live' |-> Consumed' + j]
    <3>1. (Live \in 0 .. N - 1 /\ Queue = [j \in 1 .. Live |-> Consumed + j])'
      BY QueueIs, PTL
    <3> QED
      BY <3>1
  <2>3. /\ Len(q) = n
        /\ [j \in 1 .. n + 1 |-> c + j] = q \o [k \in 1 .. 1 |-> (c + n) + k]
        /\ n > 0 => [j \in 1 .. n - 1 |-> (c + 1) + j] = SubSeq(q, 1 + 1, Len(q))
    <3>1. c \in Nat /\ n \in Nat
      BY <2>1
    <3> HIDE DEF c, n
    <3> QED
      BY <3>1, ConsecutiveQueue
  <2>4. Capacity = N - 1 /\ 1 \in 1 .. Capacity
    BY NAssumption DEF Capacity
  <2>5. CASE ppc = "publish" /\ Live' = n + 1 /\ Consumed' = c /\ sent' = sent + 1
    <3>1. Len(Queue) + 1 <= Capacity /\ sent + 1 <= MaxItems
      BY <2>1, <2>2, <2>3, <2>4, <2>5, MaxItemsAssumption
    <3>2. Queue' = Queue \o [k \in 1 .. 1 |-> sent + k]
      BY <2>1, <2>2, <2>3, <2>5
    <3> QED
      BY <2>4, <2>5, <3>1, <3>2
  <2>6. CASE n > 0 /\ Live' = n - 1 /\ Consumed' = c + 1 /\ sent' = sent
    <3>1. 1 <= Len(Queue)
      BY <2>1, <2>3, <2>6
    <3>2. Queue' = SubSeq(Queue, 1 + 1, Len(Queue))
      BY <2>1, <2>2, <2>3, <2>6
    <3> QED
      BY <2>4, <2>6, <3>1, <3>2
  <2>7. CASE UNCHANGED <<Live, Consumed, sent>>
    BY <2>1, <2>2, <2>7
  <2> QED
    BY <2>5, <2>6, <2>7, IndexSteps
<1> QED
  BY <1>1, <1>2, RingInvariant, ItemLeft, PTL DEF Spec, ImplementsFifo, Fifo!Spec

-----------------------------------------------------------------------------
(* rewsr_spsc_count.                                                        *)

(* A call by the producer finds tail where it was, so that the two loads    *)
(* give the present count; a call by the consumer finds head where it was,  *)
(* so that they give the count of the moment tail was loaded.               *)
GaugeInv ==
    /\ caller \in {"none", "producer", "consumer"}
    /\ caller = "producer" => gtail = tail /\ Live \in seen
    /\ caller = "consumer" => Dist(gtail, head) \in seen
    /\ CountIsSnapshot

(* Counting does not move the ring: beside rewsr_spsc_count it behaves as   *)
(* it does alone, so that every theorem about it holds there too.           *)
THEOREM GaugeIsRing == GaugeSpec => Spec
<1>1. GaugeInit => Init
  BY DEF GaugeInit
<1>2. [GaugeNext]_allVars => [Next]_vars
  BY DEF GaugeNext, CountLoadTail, CountLoadHead, ProducerStep, ConsumerStep, Next, allVars
<1> QED
  BY <1>1, <1>2, PTL DEF GaugeSpec, Spec

(* The steps of each thread leave the other thread's index alone.           *)
LEMMA OwnIndexOnly ==
    /\ Produce => head' = head
    /\ Consume => tail' = tail
BY DEF Produce, ProduceLoad, ProduceFull, ProduceCopyLo, ProduceCopyHi, ProducePublish,
       Consume, ConsumeLoad, ConsumeEmpty, ConsumeCopyLo, ConsumeCopyHi, ConsumeRelease,
       indices, vars

(* The count a producer or a consumer gets is one the ring had during the   *)
(* call.  A third thread is excluded: for it TLC finds a count the ring     *)
(* never had.                                                               *)
THEOREM CountSnapshot == "other" \notin Callers => (GaugeSpec => []CountIsSnapshot)
<1> SUFFICES ASSUME "other" \notin Callers PROVE GaugeSpec => []CountIsSnapshot
  OBVIOUS
<1>1. GaugeInit => GaugeInv
  BY DEF GaugeInit, GaugeInv, CountIsSnapshot
<1>2. GaugeInv /\ [GaugeNext]_allVars => GaugeInv'
  <2> SUFFICES ASSUME GaugeInv, [GaugeNext]_allVars PROVE GaugeInv'
    OBVIOUS
  <2>1. ASSUME NEW c \in Callers, CountLoadTail(c) PROVE GaugeInv'
    <3>1. c \in {"producer", "consumer"}
      BY CallersAssumption
    <3>2. /\ caller' = c /\ gtail' = tail /\ seen' = {Live} /\ tail' = tail /\ head' = head
      BY <2>1 DEF CountLoadTail, vars
    <3> QED
      BY <3>1, <3>2 DEF GaugeInv, CountIsSnapshot, Live
  <2>2. CASE CountLoadHead
    <3>1. /\ caller # "none" /\ caller' = "none" /\ count' = Dist(gtail, head) /\ seen' = seen
      BY <2>2 DEF CountLoadHead
    <3>2. Dist(gtail, head) \in seen
      BY <3>1 DEF GaugeInv, Live
    <3> QED
      BY <3>1, <3>2 DEF GaugeInv, CountIsSnapshot
  <2>3. CASE ProducerStep
    <3>1. /\ caller # "producer" /\ head' = head /\ UNCHANGED <<caller, gtail, count>>
          /\ seen' = IF caller = "none" THEN seen ELSE seen \cup {Live'}
      BY <2>3, OwnIndexOnly DEF ProducerStep, Noted
    <3> QED
      BY <3>1 DEF GaugeInv, CountIsSnapshot
  <2>4. CASE ConsumerStep
    <3>1. /\ caller # "consumer" /\ tail' = tail /\ UNCHANGED <<caller, gtail, count>>
          /\ seen' = IF caller = "none" THEN seen ELSE seen \cup {Live'}
      BY <2>4, OwnIndexOnly DEF ConsumerStep, Noted
    <3> QED
      BY <3>1 DEF GaugeInv, CountIsSnapshot
  <2>5. CASE UNCHANGED allVars
    BY <2>5 DEF allVars, gaugeVars, vars, GaugeInv, CountIsSnapshot, Live
  <2> QED
    BY <2>1, <2>2, <2>3, <2>4, <2>5 DEF GaugeNext
<1>3. GaugeInv => CountIsSnapshot
  BY DEF GaugeInv
<1> QED
  BY <1>1, <1>2, <1>3, PTL DEF GaugeSpec
=============================================================================
