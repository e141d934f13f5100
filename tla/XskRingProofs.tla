---------------------------- MODULE XskRingProofs ---------------------------
(* Safety of the AF_XDP ring for every ring size, every width of the        *)
(* free-running counters and every mix of batch sizes.                      *)
EXTENDS XskRing, RemainderLemmas, SequenceTheorems, TLAPS

-----------------------------------------------------------------------------
(* Arithmetic                                                               *)

(* A ring never spans half of the counter range.                            *)
LEMMA WrapFacts == Wrap \in Nat /\ Size \in Nat /\ Size >= 1 /\ 2 * Size <= Wrap
<1>1. PICK k \in 2 .. Wrap : Wrap = k * Size
  BY WrapAssumption
<1>2. (k - 2) * Size >= 0
  BY <1>1, SizeAssumption, WrapAssumption
<1> QED
  BY <1>1, <1>2, SizeAssumption, WrapAssumption

(* Sums and differences of counters are counters.                           *)
LEMMA CounterClosed ==
    ASSUME NEW a \in Counter, NEW b \in Counter
    PROVE  Add(a, b) \in Counter /\ Sub(a, b) \in Counter
BY WrapFacts DEF Counter, Add, Sub

(* Advancing the left end of a distance lengthens it.                       *)
LEMMA SubAddLeft ==
    ASSUME NEW a \in Counter, NEW b \in Counter, NEW n \in Nat, Sub(a, b) + n < Wrap
    PROVE  Add(a, n) \in Counter /\ Sub(Add(a, n), b) = Sub(a, b) + n
BY WrapFacts DEF Counter, Add, Sub

(* Advancing the right end of a distance shortens it.                       *)
LEMMA SubAddRight ==
    ASSUME NEW a \in Counter, NEW b \in Counter, NEW n \in Nat, n <= Sub(a, b)
    PROVE  Add(b, n) \in Counter /\ Sub(a, Add(b, n)) = Sub(a, b) - n
BY WrapFacts DEF Counter, Add, Sub

(* Distances from a common origin subtract.                                 *)
LEMMA SubSub ==
    ASSUME NEW a \in Counter, NEW b \in Counter, NEW c \in Counter, Sub(a, c) <= Sub(b, c)
    PROVE  Sub(b, a) = Sub(b, c) - Sub(a, c)
BY WrapFacts DEF Counter, Sub

(* A counter is its distance from another one, added to it.                 *)
LEMMA AddSub ==
    ASSUME NEW a \in Counter, NEW b \in Counter
    PROVE  Add(b, Sub(a, b)) = a
BY WrapFacts DEF Counter, Add, Sub

(* Advancing twice is advancing once by the sum.                            *)
LEMMA AddAdd ==
    ASSUME NEW a \in Counter, NEW m \in Nat, NEW n \in Nat, m + n < Wrap
    PROVE  Add(Add(a, m), n) = Add(a, m + n)
BY WrapFacts DEF Counter, Add

(* The slots of Size consecutive counter values are all different.          *)
LEMMA SlotInjective ==
    ASSUME NEW a \in Counter, NEW i \in 0 .. Size - 1, NEW j \in 0 .. Size - 1,
           Slot(Add(a, i)) = Slot(Add(a, j))
    PROVE  i = j
<1>1. PICK k \in 2 .. Wrap : Wrap = k * Size
  BY WrapAssumption
<1>2. Add(a, i) \in Int /\ Add(a, j) \in Int
  BY WrapFacts DEF Add, Counter
<1>3. i - j < Size /\ i - j > -Size
  BY WrapFacts
<1>4. \/ Add(a, i) - Add(a, j) = (i - j) + 0 * Size
      \/ Add(a, i) - Add(a, j) = (i - j) + k * Size
      \/ Add(a, i) - Add(a, j) = (i - j) + (-k) * Size
  BY <1>1, WrapFacts DEF Add, Counter
<1>5. \E m \in Int : Add(a, i) - Add(a, j) = (i - j) + m * Size
  BY <1>4
<1>6. Add(a, i) % Size = Add(a, j) % Size
  BY DEF Slot
<1>7. i - j = 0
  BY <1>2, <1>3, <1>5, <1>6, SameRemainder, WrapFacts
<1> QED
  BY <1>7, WrapFacts

(* A slot is an index of the descriptor array.                              *)
LEMMA SlotType == ASSUME NEW c \in Counter PROVE Slot(c) \in Slots
BY WrapFacts DEF Counter, Slot, Slots

-----------------------------------------------------------------------------
(* The invariant                                                            *)

(* The freshly initialised handles satisfy the invariant.                   *)
LEMMA RingInit == Init => RingInv
<1> SUFFICES ASSUME Init PROVE RingInv
  OBVIOUS
<1>1. TypeOK
  BY WrapFacts DEF Init, TypeOK
<1>2. /\ Ahead(cachedProdC) = 0 /\ Ahead(producer) = 0 /\ Ahead(next) = 0
      /\ Ahead(cachedProdP) = 0 /\ Sub(cachedProdP, cachedConsP) = 0
  BY WrapFacts DEF Init, Ahead, Sub, Counter
<1>3. CountersOrdered
  BY <1>2, WrapFacts DEF Init, CountersOrdered
<1>4. Len(delivered) = 0 /\ granted = 0 /\ nread = 0 /\ written = 0 /\ cachedConsC = consumer
  BY DEF Init
<1>5. ExactlyOnceInOrder
  BY <1>4 DEF ExactlyOnceInOrder
<1>6. \A j \in 0 .. Size - 1 : ~(j < Ahead(next))
  BY <1>2, WrapFacts
<1> QED
  BY <1>1, <1>2, <1>3, <1>4, <1>5, <1>6 DEF RingInv

(* What the invariant says of the distances, as numbers.                    *)
LEMMA Distances ==
    RingInv => /\ Ahead(cachedProdC) \in 0 .. Size
               /\ Ahead(producer) \in 0 .. Size
               /\ Ahead(next) \in 0 .. Size
               /\ Ahead(cachedProdP) \in 0 .. Size
               /\ Sub(cachedProdP, cachedConsP) \in 0 .. Size
               /\ granted \in 0 .. Size /\ nread \in 0 .. Size
               /\ Len(delivered) \in Nat
<1> SUFFICES ASSUME RingInv
             PROVE  /\ Ahead(cachedProdC) \in 0 .. Size
                    /\ Ahead(producer) \in 0 .. Size
                    /\ Ahead(next) \in 0 .. Size
                    /\ Ahead(cachedProdP) \in 0 .. Size
                    /\ Sub(cachedProdP, cachedConsP) \in 0 .. Size
                    /\ granted \in 0 .. Size /\ nread \in 0 .. Size
                    /\ Len(delivered) \in Nat
  OBVIOUS
<1>1. /\ Ahead(cachedProdC) \in Counter /\ Ahead(producer) \in Counter
      /\ Ahead(next) \in Counter /\ Ahead(cachedProdP) \in Counter
      /\ Sub(cachedProdP, cachedConsP) \in Counter
  BY CounterClosed DEF RingInv, TypeOK, Ahead
<1>2. Len(delivered) \in Nat
  BY LenProperties DEF RingInv, TypeOK
<1> QED
  BY <1>1, <1>2, WrapFacts, SMTT(40) DEF RingInv, TypeOK, CountersOrdered, Counter

(* A refreshed or kept cache of the consumer counter is a safe one.         *)
LEMMA ReserveFacts ==
    ASSUME RingInv, NEW nb \in Batch
    PROVE  /\ ReserveCons(nb) \in Counter
           /\ Ahead(cachedProdP) <= Sub(cachedProdP, ReserveCons(nb))
           /\ Sub(cachedProdP, ReserveCons(nb)) \in 0 .. Size
           /\ FreeSlots(ReserveCons(nb)) = Size - Sub(cachedProdP, ReserveCons(nb))
<1>1. ReserveCons(nb) = consumer \/ ReserveCons(nb) = cachedConsP
  BY DEF ReserveCons
<1>2. /\ ReserveCons(nb) \in Counter
      /\ Ahead(cachedProdP) <= Sub(cachedProdP, ReserveCons(nb))
      /\ Sub(cachedProdP, ReserveCons(nb)) \in 0 .. Size
  BY <1>1, Distances DEF RingInv, TypeOK, CountersOrdered, Ahead
<1>3. FreeSlots(ReserveCons(nb)) = Size - Sub(cachedProdP, ReserveCons(nb))
  BY <1>2, WrapFacts DEF FreeSlots, Sub
<1> QED
  BY <1>2, <1>3

(* Every call and access of the producing side keeps the invariant.         *)
LEMMA ProduceKeeps == RingInv /\ Produce => RingInv'
<1> SUFFICES ASSUME RingInv, Produce PROVE RingInv'
  OBVIOUS
<1> USE DEF RingInv, TypeOK, consumerVars, producerVars
<1>1. /\ consumer' = consumer /\ granted' = granted /\ nread' = nread
      /\ cachedProdC' = cachedProdC /\ cachedConsC' = cachedConsC /\ delivered' = delivered
  BY DEF Produce, ProdReserve, ProdReserveFails, ProdSubmit, ProdFree, WriteDesc
<1>2. ExactlyOnceInOrder'
  BY <1>1 DEF ExactlyOnceInOrder
<1>3. ASSUME NEW nb \in Batch, ProdReserve(nb) PROVE RingInv'
  <2>1. /\ cachedConsP' = ReserveCons(nb) /\ cachedProdP' = Add(cachedProdP, nb)
        /\ producer' = producer /\ ring' = ring /\ next' = next /\ written' = written
    BY <1>3 DEF ProdReserve
  <2>2. nb \in Nat /\ Sub(cachedProdP, ReserveCons(nb)) + nb <= Size
    BY <1>3, ReserveFacts, WrapFacts, BoundsAssumption DEF ProdReserve, Batch
  <2>3. /\ cachedProdP' \in Counter
        /\ Sub(cachedProdP', cachedConsP') = Sub(cachedProdP, ReserveCons(nb)) + nb
    BY <2>1, <2>2, ReserveFacts, SubAddLeft, WrapFacts
  <2>4. Ahead(cachedProdP)' = Ahead(cachedProdP) + nb
    BY <1>1, <2>1, <2>2, ReserveFacts, Distances, SubAddLeft, WrapFacts, SMTT(40) DEF Ahead
  <2>5. /\ Ahead(next)' = Ahead(next) /\ Ahead(producer)' = Ahead(producer)
        /\ Ahead(cachedProdC)' = Ahead(cachedProdC)
    BY <1>1, <2>1 DEF Ahead
  <2>6. CountersOrdered'
    BY <1>1, <2>1, <2>2, <2>3, <2>4, <2>5, ReserveFacts, Distances, WrapFacts, SMTT(40) DEF CountersOrdered
  <2> QED
    BY <1>1, <1>2, <2>1, <2>3, <2>5, <2>6, ReserveFacts
<1>4. ASSUME NEW nb \in Batch, ProdReserveFails(nb) PROVE RingInv'
  <2>1. /\ cachedConsP' = ReserveCons(nb) /\ cachedProdP' = cachedProdP
        /\ producer' = producer /\ ring' = ring /\ next' = next /\ written' = written
    BY <1>4 DEF ProdReserveFails
  <2>2. /\ Ahead(next)' = Ahead(next) /\ Ahead(producer)' = Ahead(producer)
        /\ Ahead(cachedProdC)' = Ahead(cachedProdC) /\ Ahead(cachedProdP)' = Ahead(cachedProdP)
    BY <1>1, <2>1 DEF Ahead
  <2>3. CountersOrdered'
    BY <1>1, <2>1, <2>2, ReserveFacts, Distances, WrapFacts DEF CountersOrdered
  <2> QED
    BY <1>1, <1>2, <2>1, <2>2, <2>3, ReserveFacts
<1>5. CASE ProdFree
  <2>1. /\ cachedConsP' = consumer /\ cachedProdP' = cachedProdP
        /\ producer' = producer /\ ring' = ring /\ next' = next /\ written' = written
    BY <1>5 DEF ProdFree
  <2>2. /\ Ahead(next)' = Ahead(next) /\ Ahead(producer)' = Ahead(producer)
        /\ Ahead(cachedProdC)' = Ahead(cachedProdC) /\ Ahead(cachedProdP)' = Ahead(cachedProdP)
        /\ Sub(cachedProdP', cachedConsP') = Ahead(cachedProdP)
    BY <1>1, <2>1 DEF Ahead
  <2>3. CountersOrdered'
    BY <1>1, <2>1, <2>2, Distances, WrapFacts DEF CountersOrdered
  <2> QED
    BY <1>1, <1>2, <2>1, <2>2, <2>3
<1>6. CASE WriteDesc
  <2>1. /\ next # cachedProdP /\ ring' = [ring EXCEPT ![Slot(next)] = written + 1]
        /\ next' = Add(next, 1) /\ written' = written + 1
        /\ producer' = producer /\ cachedProdP' = cachedProdP /\ cachedConsP' = cachedConsP
    BY <1>6 DEF WriteDesc
  <2>2. next = Add(consumer, Ahead(next)) /\ cachedProdP = Add(consumer, Ahead(cachedProdP))
    BY AddSub DEF Ahead
  <2>3. Ahead(next) < Ahead(cachedProdP) /\ Ahead(next) \in 0 .. Size - 1
    <3>1. Ahead(next) # Ahead(cachedProdP)
      BY <2>1, <2>2
    <3> QED
      BY <3>1, Distances, WrapFacts DEF CountersOrdered
  <2>4. next' \in Counter /\ Ahead(next)' = Ahead(next) + 1
    BY <1>1, <2>1, <2>3, SubAddLeft, WrapFacts DEF Ahead
  <2>5. /\ Ahead(producer)' = Ahead(producer) /\ Ahead(cachedProdC)' = Ahead(cachedProdC)
        /\ Ahead(cachedProdP)' = Ahead(cachedProdP)
    BY <1>1, <2>1 DEF Ahead
  <2>6. CountersOrdered'
    BY <1>1, <2>1, <2>3, <2>4, <2>5, Distances, WrapFacts, SMTT(40) DEF CountersOrdered
  <2>7. ring' \in [Slots -> Nat] /\ ring'[Slot(next)] = written + 1
    BY <2>1, SlotType
  <2>8. ASSUME NEW j \in 0 .. Size - 1, j < Ahead(next)'
        PROVE  ring'[Slot(Add(consumer, j))] = Len(delivered) - nread + j + 1
    <3>1. CASE j = Ahead(next)
      BY <2>2, <2>7, <3>1, Distances
    <3>2. CASE j # Ahead(next)
      <4>1. j < Ahead(next)
        BY <2>3, <2>4, <2>8, <3>2, WrapFacts
      <4>2. Slot(Add(consumer, j)) # Slot(next)
        BY <2>2, <2>3, <3>2, SlotInjective
      <4>3. j \in Counter
        BY WrapFacts DEF Counter
      <4>4. Slot(Add(consumer, j)) \in Slots
        BY <4>3, CounterClosed, SlotType
      <4>5. ring'[Slot(Add(consumer, j))] = ring[Slot(Add(consumer, j))]
        BY <2>1, <4>2, <4>4
      <4> QED
        BY <4>1, <4>5
    <3> QED
      BY <3>1, <3>2
  <2>9. written' = Len(delivered) - nread + Ahead(next)'
    BY <2>1, <2>4, Distances
  <2> QED
    BY <1>1, <1>2, <2>1, <2>4, <2>6, <2>7, <2>8, <2>9
<1>7. ASSUME NEW nb \in Batch, ProdSubmit(nb) PROVE RingInv'
  <2>1. /\ nb <= Sub(next, producer) /\ producer' = Add(producer, nb)
        /\ cachedConsP' = cachedConsP /\ cachedProdP' = cachedProdP
        /\ ring' = ring /\ next' = next /\ written' = written
    BY <1>7 DEF ProdSubmit
  <2>2. nb \in Nat /\ nb <= Ahead(next) - Ahead(producer)
    BY <2>1, SubSub, BoundsAssumption DEF Ahead, CountersOrdered, Batch
  <2>3. producer' \in Counter /\ Ahead(producer)' = Ahead(producer) + nb
    BY <1>1, <2>1, <2>2, Distances, SubAddLeft, WrapFacts, SMTT(40) DEF Ahead
  <2>4. /\ Ahead(next)' = Ahead(next) /\ Ahead(cachedProdP)' = Ahead(cachedProdP)
        /\ Ahead(cachedProdC)' = Ahead(cachedProdC)
    BY <1>1, <2>1 DEF Ahead
  <2>5. CountersOrdered'
    BY <1>1, <2>1, <2>2, <2>3, <2>4, Distances, WrapFacts, SMTT(40) DEF CountersOrdered
  <2> QED
    BY <1>1, <1>2, <2>1, <2>3, <2>4, <2>5
<1> QED
  BY <1>3, <1>4, <1>5, <1>6, <1>7 DEF Produce

(* Every call and access of the consuming side keeps the invariant.         *)
LEMMA ConsumeKeeps == RingInv /\ Consume => RingInv'
<1> SUFFICES ASSUME RingInv, Consume PROVE RingInv'
  OBVIOUS
<1> USE DEF RingInv, TypeOK, consumerVars, producerVars
<1>1. /\ producer' = producer /\ ring' = ring /\ next' = next /\ written' = written
      /\ cachedProdP' = cachedProdP /\ cachedConsP' = cachedConsP
  BY DEF Consume, ConsPeek, ConsRelease, ConsAvailable, ReadDesc
<1>2. ASSUME NEW nb \in Batch, ConsPeek(nb) PROVE RingInv'
  <2>1. /\ granted = 0 /\ cachedProdC' = PeekProd(nb) /\ consumer' = consumer
        /\ cachedConsC' = cachedConsC /\ nread' = nread /\ delivered' = delivered
    BY <1>2 DEF ConsPeek
  <2>2. PeekProd(nb) = producer \/ PeekProd(nb) = cachedProdC
    BY DEF PeekProd
  <2>3. /\ cachedProdC' \in Counter /\ Ahead(cachedProdC)' \in 0 .. Size
        /\ Ahead(cachedProdC)' <= Ahead(producer)
    BY <2>1, <2>2, Distances, WrapFacts DEF Ahead, CountersOrdered
  <2>4. nb \in Nat /\ granted' \in 0 .. Size /\ granted' <= Ahead(cachedProdC)'
    <3>1. Sub(PeekProd(nb), cachedConsC) = Ahead(cachedProdC)'
      BY <2>1 DEF Ahead
    <3> QED
      BY <1>2, <2>3, <3>1, BoundsAssumption, WrapFacts DEF ConsPeek, Batch
  <2>5. /\ Ahead(next)' = Ahead(next) /\ Ahead(producer)' = Ahead(producer)
        /\ Ahead(cachedProdP)' = Ahead(cachedProdP)
    BY <1>1, <2>1 DEF Ahead
  <2>6. CountersOrdered'
    BY <1>1, <2>1, <2>3, <2>4, <2>5 DEF CountersOrdered
  <2>7. nread' <= granted' /\ ExactlyOnceInOrder'
    BY <2>1, <2>4, Distances, WrapFacts DEF ExactlyOnceInOrder
  <2> QED
    BY <1>1, <2>1, <2>3, <2>4, <2>5, <2>6, <2>7
<1>3. CASE ConsAvailable
  <2>1. /\ cachedProdC' = producer /\ consumer' = consumer /\ cachedConsC' = cachedConsC
        /\ granted' = granted /\ nread' = nread /\ delivered' = delivered
    BY <1>3 DEF ConsAvailable
  <2>2. /\ Ahead(next)' = Ahead(next) /\ Ahead(producer)' = Ahead(producer)
        /\ Ahead(cachedProdP)' = Ahead(cachedProdP) /\ Ahead(cachedProdC)' = Ahead(producer)
    BY <1>1, <2>1 DEF Ahead
  <2>3. CountersOrdered'
    BY <1>1, <2>1, <2>2, Distances, WrapFacts DEF CountersOrdered
  <2> QED
    BY <1>1, <2>1, <2>2, <2>3 DEF ExactlyOnceInOrder
<1>4. CASE ReadDesc
  <2>1. /\ nread < granted /\ nread' = nread + 1 /\ granted' = granted /\ consumer' = consumer
        /\ cachedProdC' = cachedProdC /\ cachedConsC' = cachedConsC
        /\ delivered' = Append(delivered, ring[Slot(Add(consumer, nread))])
    BY <1>4 DEF ReadDesc
  <2>2. nread \in 0 .. Size - 1 /\ nread < Ahead(next)
    BY <2>1, Distances, WrapFacts, SMTT(40) DEF CountersOrdered
  <2>3. ring[Slot(Add(consumer, nread))] = Len(delivered) + 1
    BY <2>2, Distances, WrapFacts
  <2>4. /\ delivered' \in Seq(Nat)
        /\ Len(delivered') = Len(delivered) + 1
        /\ \A k \in 1 .. Len(delivered) : delivered'[k] = delivered[k]
        /\ delivered'[Len(delivered) + 1] = Len(delivered) + 1
    BY <2>1, <2>3, Distances, AppendProperties
  <2>5. ExactlyOnceInOrder'
    <3> SUFFICES ASSUME NEW k \in 1 .. Len(delivered') PROVE delivered'[k] = k
      BY DEF ExactlyOnceInOrder
    <3>1. k \in 1 .. Len(delivered) \/ k = Len(delivered) + 1
      BY <2>4, Distances
    <3> QED
      BY <2>4, <3>1 DEF ExactlyOnceInOrder
  <2>6. /\ Ahead(next)' = Ahead(next) /\ Ahead(producer)' = Ahead(producer)
        /\ Ahead(cachedProdP)' = Ahead(cachedProdP) /\ Ahead(cachedProdC)' = Ahead(cachedProdC)
    BY <1>1, <2>1 DEF Ahead
  <2>7. CountersOrdered'
    BY <1>1, <2>1, <2>6 DEF CountersOrdered
  <2>8. Len(delivered') - nread' = Len(delivered) - nread /\ nread' \in 0 .. Size /\ nread' <= granted'
    BY <2>1, <2>2, <2>4, Distances, WrapFacts
  <2> QED
    BY <1>1, <2>1, <2>4, <2>5, <2>6, <2>7, <2>8
<1>5. ASSUME NEW nb \in Batch, ConsRelease(nb) PROVE RingInv'
  <2>1. /\ nb <= nread /\ consumer' = Add(consumer, nb) /\ cachedConsC' = consumer'
        /\ granted' = granted - nb /\ nread' = nread - nb
        /\ cachedProdC' = cachedProdC /\ delivered' = delivered
    BY <1>5 DEF ConsRelease
  <2>2. /\ nb \in Nat /\ nb <= Ahead(cachedProdC) /\ nb <= Ahead(producer)
        /\ nb <= Ahead(next) /\ nb <= Ahead(cachedProdP)
    BY <2>1, Distances, WrapFacts, BoundsAssumption DEF CountersOrdered, Batch
  <2>3. /\ consumer' \in Counter
        /\ Ahead(next)' = Ahead(next) - nb
        /\ Ahead(producer)' = Ahead(producer) - nb
        /\ Ahead(cachedProdC)' = Ahead(cachedProdC) - nb
        /\ Ahead(cachedProdP)' = Ahead(cachedProdP) - nb
    BY <1>1, <2>1, <2>2, SubAddRight DEF Ahead
  <2>4. CountersOrdered'
    BY <1>1, <2>1, <2>2, <2>3, Distances, WrapFacts, SMTT(40) DEF CountersOrdered
  <2>5. ASSUME NEW j \in 0 .. Size - 1, j < Ahead(next)'
        PROVE  ring[Slot(Add(consumer', j))] = Len(delivered) - nread' + j + 1
    <3>1. nb + j \in 0 .. Size - 1 /\ nb + j < Ahead(next) /\ nb + j < Wrap
      BY <2>2, <2>3, <2>5, Distances, WrapFacts, SMTT(40)
    <3>2. Add(consumer', j) = Add(consumer, nb + j)
      BY <2>1, <2>2, <3>1, AddAdd, WrapFacts
    <3>3. ring[Slot(Add(consumer, nb + j))] = Len(delivered) - nread + (nb + j) + 1
      BY <3>1
    <3> QED
      BY <2>1, <2>2, <3>2, <3>3, Distances, WrapFacts
  <2>6. written' = Len(delivered') - nread' + Ahead(next)'
    BY <1>1, <2>1, <2>2, <2>3, Distances
  <2>7. granted' \in 0 .. Size /\ nread' \in 0 .. Size /\ nread' <= granted'
    BY <2>1, <2>2, Distances, WrapFacts
  <2> QED
    BY <1>1, <2>1, <2>3, <2>4, <2>5, <2>6, <2>7 DEF ExactlyOnceInOrder
<1> QED
  BY <1>2, <1>3, <1>4, <1>5 DEF Consume

(* A step that changes nothing keeps the invariant.                         *)
LEMMA StutterKeeps == RingInv /\ UNCHANGED vars => RingInv'
BY DEF RingInv, TypeOK, vars, Ahead, CountersOrdered, ExactlyOnceInOrder

-----------------------------------------------------------------------------
(* The inductive invariant holds in every reachable state.                  *)
THEOREM RingInvariant == Spec => []RingInv
<1>1. RingInv /\ [Next]_vars => RingInv'
  BY ProduceKeeps, ConsumeKeeps, StutterKeeps DEF Next
<1> QED
  BY RingInit, <1>1, PTL DEF Spec

(* Counters, caches and the callers' positions keep their types.            *)
THEOREM TypeCorrect == Spec => []TypeOK
<1>1. RingInv => TypeOK
  BY DEF RingInv
<1> QED
  BY RingInvariant, <1>1, PTL

(* For every ring size and counter width, peek and release hand out the     *)
(* submitted descriptors once each and in order, across every wrap.         *)
THEOREM FifoCorrect == Spec => []ExactlyOnceInOrder
<1>1. RingInv => ExactlyOnceInOrder
  BY DEF RingInv
<1> QED
  BY RingInvariant, <1>1, PTL

(* The in-flight count never exceeds size and no cache runs ahead of the    *)
(* counter it caches: the premise of the modulo arithmetic in reserve.      *)
THEOREM InFlightBounded == Spec => []CountersOrdered
<1>1. RingInv => CountersOrdered
  BY DEF RingInv
<1> QED
  BY RingInvariant, <1>1, PTL

(* No step overwrites a submitted descriptor before it is released.         *)
THEOREM SubmittedStable == Spec => InFlightStable
<1>1. RingInv /\ [Next]_vars =>
        [\A j \in 0 .. Size - 1 : j < Ahead(producer) =>
           ring'[Slot(Add(consumer, j))] = ring[Slot(Add(consumer, j))]]_vars
  <2> SUFFICES ASSUME RingInv, Next, NEW j \in 0 .. Size - 1, j < Ahead(producer)
               PROVE  ring'[Slot(Add(consumer, j))] = ring[Slot(Add(consumer, j))]
    OBVIOUS
  <2>1. CASE WriteDesc
    <3>1. next = Add(consumer, Ahead(next)) /\ cachedProdP = Add(consumer, Ahead(cachedProdP))
      BY AddSub DEF Ahead, RingInv, TypeOK
    <3>2. Ahead(next) \in 0 .. Size - 1 /\ j # Ahead(next)
      <4>1. Ahead(next) # Ahead(cachedProdP)
        BY <2>1, <3>1 DEF WriteDesc
      <4> QED
        BY <4>1, Distances, WrapFacts, SMTT(40) DEF RingInv, CountersOrdered
    <3>3. Slot(Add(consumer, j)) # Slot(next)
      BY <3>1, <3>2, SlotInjective DEF RingInv, TypeOK
    <3>4. j \in Counter
      BY WrapFacts DEF Counter
    <3>5. Slot(Add(consumer, j)) \in Slots
      BY <3>4, CounterClosed, SlotType DEF RingInv, TypeOK
    <3> QED
      BY <2>1, <3>3, <3>5 DEF WriteDesc, RingInv, TypeOK
  <2>2. CASE ~WriteDesc
    <3>1. ring' = ring
      BY <2>2 DEF Next, Produce, Consume, ProdReserve, ProdReserveFails, ProdSubmit, ProdFree,
                  ConsPeek, ConsRelease, ConsAvailable, ReadDesc
    <3> QED
      BY <3>1
  <2> QED
    BY <2>1, <2>2
<1> QED
  BY RingInvariant, <1>1, PTL DEF Spec, InFlightStable

-----------------------------------------------------------------------------
(* The ring implements a bounded queue, in batches.                         *)

(* Descriptors released so far, and the abstract queue: the descriptors     *)
(* between the two shared counters.                                         *)
Released == Len(delivered) - nread
Queue == [j \in 1 .. Ahead(producer) |-> ring[Slot(Add(consumer, j - 1))]]
Submitted == written - Sub(next, producer)

(* The consuming caller has not released more than it read, the producing   *)
(* one writes what it has.                                                  *)
CallerInv == nread <= Len(delivered) /\ written <= MaxItems

(* Both hold throughout.                                                    *)
LEMMA CallerSafe == Spec => []CallerInv
<1>1. Init => CallerInv
  BY BoundsAssumption DEF Init, CallerInv
<1>2. RingInv /\ CallerInv /\ [Next]_vars => CallerInv'
  <2> SUFFICES ASSUME RingInv, CallerInv, [Next]_vars PROVE CallerInv'
    OBVIOUS
  <2> USE DEF producerVars, consumerVars, vars
  <2>1. nread \in Nat /\ Len(delivered) \in Nat /\ written \in Nat /\ MaxItems \in Nat
    BY BoundsAssumption, Distances DEF RingInv, TypeOK
  <2>2. CASE WriteDesc
    BY <2>1, <2>2 DEF WriteDesc, CallerInv
  <2>3. CASE ReadDesc
    <3> DEFINE x == ring[Slot(Add(cachedConsC, nread))]
    <3>1. nread' = nread + 1 /\ written' = written /\ delivered' = Append(delivered, x)
      BY <2>3 DEF ReadDesc
    <3> HIDE DEF x
    <3>2. Len(Append(delivered, x)) = Len(delivered) + 1
      BY DEF RingInv, TypeOK
    <3> QED
      BY <2>1, <3>1, <3>2 DEF CallerInv
  <2>4. ASSUME NEW nb \in Batch, ConsRelease(nb) PROVE CallerInv'
    <3>1. nb \in Nat /\ nread' = nread - nb /\ written' = written /\ delivered' = delivered
      BY <2>4, BoundsAssumption DEF ConsRelease, Batch
    <3> QED
      BY <2>1, <3>1 DEF CallerInv
  <2>5. CASE ConsAvailable \/ (\E nb \in Batch : ConsPeek(nb))
    BY <2>5 DEF ConsAvailable, ConsPeek, CallerInv
  <2>6. CASE Produce /\ ~WriteDesc
    BY <2>6 DEF Produce, ProdReserve, ProdReserveFails, ProdSubmit, ProdFree, CallerInv
  <2>7. CASE UNCHANGED vars
    BY <2>7 DEF CallerInv
  <2> QED
    BY <2>2, <2>3, <2>4, <2>5, <2>6, <2>7 DEF Next, Consume
<1> QED
  BY <1>1, <1>2, RingInvariant, PTL DEF Spec

(* Under the invariant the queue holds the descriptors submitted and not    *)
(* yet released, in order.                                                  *)
LEMMA QueueIs ==
    ASSUME RingInv, CallerInv
    PROVE  /\ Ahead(producer) \in 0 .. Size /\ Released \in Nat
           /\ Submitted = Released + Ahead(producer) /\ Submitted <= written
           /\ Queue = [j \in 1 .. Ahead(producer) |-> Released + j]
<1> DEFINE a == Ahead(producer)
           b == Ahead(next)
           c == Released
<1>1. /\ a \in 0 .. Size /\ b \in 0 .. Size /\ a <= b /\ b <= Size
      /\ Len(delivered) \in Nat /\ nread \in 0 .. Size
  BY Distances DEF RingInv, CountersOrdered
<1>2. c \in Int /\ written = c + b /\ written \in Nat
  BY <1>1 DEF RingInv, TypeOK, Released
<1>3. c \in Nat
  <2>1. nread <= Len(delivered)
    BY DEF CallerInv
  <2> QED
    BY <1>1, <2>1 DEF Released
<1>4. Sub(next, producer) = b - a
  BY <1>1, SubSub DEF RingInv, TypeOK, Ahead
<1>5. Submitted = c + a /\ Submitted <= written
  <2> HIDE DEF a, b, c
  <2> QED
    BY <1>1, <1>2, <1>4 DEF Submitted
<1>6. ASSUME NEW j \in 1 .. a
      PROVE  ring[Slot(Add(consumer, j - 1))] = c + j
  <2>1. j - 1 \in 0 .. Size - 1 /\ j - 1 < b
    BY <1>1, WrapFacts
  <2>2. ring[Slot(Add(consumer, j - 1))] = Len(delivered) - nread + (j - 1) + 1
    BY <2>1 DEF RingInv
  <2> QED
    BY <1>1, <2>1, <2>2 DEF Released
<1> QED
  BY <1>1, <1>3, <1>5, <1>6 DEF Queue

(* What a step does to the queue: a batch is submitted, a batch is          *)
(* released, or nothing changes.                                            *)
LEMMA QueueSteps ==
    ASSUME RingInv, [Next]_vars
    PROVE  \/ \E nb \in 1 .. Size :
                Ahead(producer)' = Ahead(producer) + nb /\ Released' = Released
           \/ \E nb \in 1 .. Size :
                /\ nb <= Ahead(producer)
                /\ Ahead(producer)' = Ahead(producer) - nb /\ Released' = Released + nb
           \/ UNCHANGED <<Ahead(producer), Released>>
<1> USE DEF producerVars, consumerVars, vars
<1>1. /\ producer \in Counter /\ consumer \in Counter /\ next \in Counter
      /\ Ahead(producer) \in 0 .. Size /\ Ahead(next) \in 0 .. Size
      /\ Ahead(producer) <= Ahead(next) /\ nread <= Ahead(producer) /\ nread \in 0 .. Size
      /\ Len(delivered) \in Nat
  <2>1. nread <= granted /\ granted <= Ahead(cachedProdC) /\ Ahead(cachedProdC) <= Ahead(producer)
    BY DEF RingInv, CountersOrdered
  <2>2. /\ nread \in 0 .. Size /\ granted \in 0 .. Size /\ Ahead(cachedProdC) \in 0 .. Size
        /\ Ahead(producer) \in 0 .. Size /\ Ahead(next) \in 0 .. Size /\ Len(delivered) \in Nat
    BY Distances
  <2>3. nread <= Ahead(producer)
    BY <2>1, <2>2
  <2> QED
    BY <2>2, <2>3 DEF RingInv, TypeOK, CountersOrdered
<1>2. ASSUME NEW nb \in Batch, ProdSubmit(nb)
      PROVE  /\ nb \in 1 .. Size /\ Ahead(producer)' = Ahead(producer) + nb
             /\ Released' = Released
  <2>1. /\ nb \in Nat /\ nb >= 1 /\ nb <= Sub(next, producer)
        /\ producer' = Add(producer, nb) /\ consumer' = consumer
        /\ delivered' = delivered /\ nread' = nread
    BY <1>2, BoundsAssumption DEF ProdSubmit, Batch
  <2>2. Sub(next, producer) = Ahead(next) - Ahead(producer)
    BY <1>1, SubSub DEF Ahead
  <2>3. nb \in 1 .. Size /\ Sub(producer, consumer) + nb < Wrap
    BY <1>1, <2>1, <2>2, WrapFacts DEF Ahead
  <2>4. Sub(Add(producer, nb), consumer) = Sub(producer, consumer) + nb
    BY <1>1, <2>1, <2>3, SubAddLeft
  <2> QED
    BY <2>1, <2>3, <2>4 DEF Ahead, Released
<1>3. ASSUME NEW nb \in Batch, ConsRelease(nb)
      PROVE  /\ nb \in 1 .. Size /\ nb <= Ahead(producer)
             /\ Ahead(producer)' = Ahead(producer) - nb /\ Released' = Released + nb
  <2>1. /\ nb \in Nat /\ nb >= 1 /\ nb <= nread
        /\ consumer' = Add(consumer, nb) /\ producer' = producer
        /\ delivered' = delivered /\ nread' = nread - nb
    BY <1>3, BoundsAssumption DEF ConsRelease, Batch
  <2>2. nb \in 1 .. Size /\ nb <= Ahead(producer)
    <3> DEFINE a == Ahead(producer)
    <3>1. a \in 0 .. Size /\ nread \in 0 .. Size /\ nread <= a /\ Size \in Nat
      BY <1>1, WrapFacts
    <3> HIDE DEF a
    <3>2. nb \in 1 .. Size /\ nb <= a
      BY <2>1, <3>1
    <3> QED
      BY <3>2 DEF a
  <2>3. Sub(producer, Add(consumer, nb)) = Sub(producer, consumer) - nb
    BY <1>1, <2>1, <2>2, SubAddRight DEF Ahead
  <2>4. Released' = Released + nb
    BY <1>1, <2>1 DEF Released
  <2> QED
    BY <2>1, <2>2, <2>3, <2>4 DEF Ahead
<1>4. CASE ReadDesc
  <2> DEFINE x == ring[Slot(Add(cachedConsC, nread))]
  <2>1. /\ nread' = nread + 1 /\ delivered' = Append(delivered, x)
        /\ producer' = producer /\ consumer' = consumer
    BY <1>4 DEF ReadDesc
  <2> HIDE DEF x
  <2>2. Len(Append(delivered, x)) = Len(delivered) + 1
    BY DEF RingInv, TypeOK
  <2>3. Released' = Released
    BY <1>1, <2>1, <2>2 DEF Released
  <2> QED
    BY <2>1, <2>3 DEF Ahead
<1>5. CASE ConsAvailable \/ (\E nb \in Batch : ConsPeek(nb))
  BY <1>5 DEF ConsAvailable, ConsPeek, Ahead, Released
<1>6. CASE \/ ProdFree \/ WriteDesc
           \/ \E nb \in Batch : ProdReserve(nb) \/ ProdReserveFails(nb)
  BY <1>6 DEF ProdReserve, ProdReserveFails, WriteDesc, ProdFree, Ahead, Released
<1>7. CASE UNCHANGED vars
  BY <1>7 DEF Ahead, Released
<1> QED
  BY <1>2, <1>3, <1>4, <1>5, <1>6, <1>7 DEF Next, Produce, Consume

(* For every ring size, counter width and batch size the two sides, call by *)
(* call, are a bounded queue: submit puts a batch at the back, release      *)
(* takes one from the front, and neither reserve, peek, the refresh of a    *)
(* cache nor a wrap of the counters shows.                                  *)
THEOREM RingIsQueue == Spec => ImplementsFifo
<1>1. Init => Fifo!Init
  <2> SUFFICES ASSUME Init PROVE Queue = <<>> /\ Submitted = 0
    BY DEF Fifo!Init, Queue, Submitted
  <2>1. Sub(producer, producer) = 0
    BY WrapFacts DEF Init, Sub, Counter
  <2>2. Ahead(producer) = 0 /\ Submitted = 0
    BY <2>1 DEF Init, Ahead, Submitted
  <2> QED
    BY <2>2 DEF Queue
<1>2. /\ RingInv /\ RingInv' /\ CallerInv /\ CallerInv' /\ [Next]_vars
      => [Fifo!Next]_(Fifo!fifoVars)
  <2> SUFFICES ASSUME RingInv, RingInv', CallerInv, CallerInv', [Next]_vars
               PROVE  \/ \E m \in 1 .. Size :
                           \/ /\ Len(Queue) + m <= Size /\ Submitted + m <= MaxItems
                              /\ Queue' = Queue \o [k \in 1 .. m |-> Submitted + k]
                              /\ Submitted' = Submitted + m
                           \/ /\ m <= Len(Queue)
                              /\ Queue' = SubSeq(Queue, m + 1, Len(Queue))
                              /\ Submitted' = Submitted
                      \/ Queue' = Queue /\ Submitted' = Submitted
    BY DEF Fifo!Next, Fifo!fifoVars, Fifo!Put, Fifo!Take, Queue, Submitted
  <2> DEFINE c == Released
             n == Ahead(producer)
             q == [j \in 1 .. n |-> c + j]
  <2>1. n \in 0 .. Size /\ c \in Nat /\ Submitted = c + n /\ Queue = q
    BY QueueIs
  <2>2. /\ n' \in 0 .. Size /\ c' \in Nat /\ Submitted' = c' + n' /\ Submitted' <= MaxItems
        /\ Queue' = [j \in 1 .. n' |-> c' + j]
    <3>1. (/\ Ahead(producer) \in 0 .. Size /\ Released \in Nat
           /\ Submitted = Released + Ahead(producer) /\ Submitted <= written
           /\ Queue = [j \in 1 .. Ahead(producer) |-> Released + j])'
      BY QueueIs, PTL
    <3>2. written' <= MaxItems /\ written' \in Nat /\ MaxItems \in Nat
      BY BoundsAssumption DEF CallerInv, RingInv, TypeOK
    <3>3. Submitted' <= MaxItems
      BY <3>1, <3>2
    <3> QED
      BY <3>1, <3>3
  <2>3. ASSUME NEW m \in Nat
        PROVE  /\ Len(q) = n
               /\ [j \in 1 .. n + m |-> c + j] = q \o [k \in 1 .. m |-> (c + n) + k]
               /\ m <= n => [j \in 1 .. n - m |-> (c + m) + j] = SubSeq(q, m + 1, Len(q))
    <3>1. c \in Nat /\ n \in Nat
      BY <2>1
    <3> HIDE DEF c, n
    <3> QED
      BY <3>1, ConsecutiveQueue
  <2>4. ASSUME NEW m \in 1 .. Size, n' = n + m, c' = c
        PROVE  /\ Len(Queue) + m <= Size /\ Submitted + m <= MaxItems
               /\ Queue' = Queue \o [k \in 1 .. m |-> Submitted + k]
               /\ Submitted' = Submitted + m
    <3>1. Submitted' = Submitted + m /\ n + m <= Size
      BY <2>1, <2>2, <2>4
    <3>2. Len(Queue) = n /\ Queue' = Queue \o [k \in 1 .. m |-> Submitted + k]
      <4>1. [j \in 1 .. n + m |-> c + j] = q \o [k \in 1 .. m |-> (c + n) + k] /\ Len(q) = n
        <5>1. m \in Nat
          OBVIOUS
        <5> HIDE DEF c, n, q
        <5> QED
          BY <2>3, <5>1
      <4>2. Queue' = [j \in 1 .. n + m |-> c + j]
        BY <2>2, <2>4
      <4> HIDE DEF c, n, q
      <4> QED
        BY <2>1, <4>1, <4>2
    <3> QED
      BY <2>2, <3>1, <3>2
  <2>5. ASSUME NEW m \in 1 .. Size, m <= n, n' = n - m, c' = c + m
        PROVE  /\ m <= Len(Queue) /\ Queue' = SubSeq(Queue, m + 1, Len(Queue))
               /\ Submitted' = Submitted
    <3>1. Submitted' = Submitted
      BY <2>1, <2>2, <2>5
    <3>2. Len(Queue) = n /\ Queue' = SubSeq(Queue, m + 1, Len(Queue))
      BY <2>1, <2>2, <2>3, <2>5
    <3> QED
      BY <2>5, <3>1, <3>2
  <2>6. CASE n' = n /\ c' = c
    BY <2>1, <2>2, <2>6
  <2>7. \/ \E m \in 1 .. Size : n' = n + m /\ c' = c
        \/ \E m \in 1 .. Size : m <= n /\ n' = n - m /\ c' = c + m
        \/ n' = n /\ c' = c
    BY QueueSteps
  <2> HIDE DEF c, n
  <2> QED
    BY <2>4, <2>5, <2>6, <2>7
<1> QED
  BY <1>1, <1>2, RingInvariant, CallerSafe, PTL DEF Spec, ImplementsFifo, Fifo!Spec
=============================================================================
