------------------------------- MODULE XskRing ------------------------------
(***************************************************************************)
(* The AF_XDP ring of csrc/ring/xsk_ring.c: two free-running counters in    *)
(* shared memory and, on each side, a handle (struct rewsr_xsk_ring) with   *)
(* cached copies of both.  One side reserves, writes and submits; the other *)
(* peeks, reads and releases.  A step is one call of the library or one     *)
(* access to a descriptor, so the sides interleave between any two of them. *)
(*                                                                          *)
(* The producing caller follows the protocol of xsk_ring.h: it writes the   *)
(* slots it reserved in order and submits only slots it has written.  It    *)
(* may reserve again before it has submitted, and submit in parts.  The     *)
(* consuming caller releases only what it has read and peeks again when it  *)
(* has released everything.  The n-th descriptor written is the number n.   *)
(***************************************************************************)
EXTENDS Integers, Sequences

CONSTANTS
    Size,      \* descriptors in the ring
    Wrap,      \* counters are taken modulo this: 2^32 in the code
    MaxNb,     \* bound: the largest batch a caller asks for
    MaxItems   \* bound: descriptors ever written

ASSUME SizeAssumption == Size \in Nat \ {0}
\* Size is a power of two that a uint32_t can hold, so it divides 2^32 and is
\* at most half of it.
ASSUME WrapAssumption == Wrap \in Nat /\ \E k \in 2 .. Wrap : Wrap = k * Size
ASSUME BoundsAssumption == MaxNb \in Nat \ {0} /\ MaxItems \in Nat

VARIABLES
    producer, consumer,    \* the shared counters
    ring,                  \* the descriptors
    cachedProdP, cachedConsP,   \* cached_prod, cached_cons of the producing handle
    cachedProdC, cachedConsC,   \* cached_prod, cached_cons of the consuming handle
    next,                  \* producing caller: counter value it writes next
    granted,               \* consuming caller: peeked entries not yet released
    nread,                 \* consuming caller: how many of those it has read
    written,               \* descriptors written so far
    delivered              \* descriptors read, oldest first

producerVars == <<cachedProdP, cachedConsP, next, written>>
consumerVars == <<cachedProdC, cachedConsC, granted, nread, delivered>>
vars == <<producer, consumer, ring, cachedProdP, cachedConsP, cachedProdC,
          cachedConsC, next, granted, nread, written, delivered>>

Counter == 0 .. Wrap - 1
Slots == 0 .. Size - 1

\* uint32_t addition and subtraction; b is at most one lap.
Add(a, b) == IF a + b >= Wrap THEN a + b - Wrap ELSE a + b
Sub(a, b) == IF a >= b THEN a - b ELSE a - b + Wrap

\* Mutation of Slot: the ring wraps one descriptor early
SlotShort(idx) == idx % (Size - 1)

\* rewsr_xsk_ring_desc: idx & mask
Slot(idx) == idx % Size

TypeOK ==
    /\ producer \in Counter /\ consumer \in Counter
    /\ ring \in [Slots -> Nat]
    /\ cachedProdP \in Counter /\ cachedConsP \in Counter
    /\ cachedProdC \in Counter /\ cachedConsC \in Counter
    /\ next \in Counter
    /\ granted \in 0 .. Size
    /\ nread \in 0 .. Size
    /\ written \in Nat
    /\ delivered \in Seq(Nat)

\* rewsr_xsk_ring_init on both sides: the counters are not reset, the caches
\* start from them, whatever value they have.
Init ==
    /\ producer \in Counter
    /\ consumer = producer
    /\ ring = [s \in Slots |-> 0]
    /\ cachedProdP = producer /\ cachedConsP = consumer
    /\ cachedProdC = producer /\ cachedConsC = consumer
    /\ next = producer
    /\ granted = 0 /\ nread = 0
    /\ written = 0
    /\ delivered = <<>>

-----------------------------------------------------------------------------
(* The producing side.                                                      *)

\* Mutation of FreeSlots: off by one
FreeSlotsOffByOne(cons) == Sub(Size + 1, Sub(cachedProdP, cons))

\* size - (cached_prod - cons), an unsigned difference
FreeSlots(cons) == Sub(Size, Sub(cachedProdP, cons))

\* Mutation of ReserveCons: the cache is never refreshed
ReserveConsStale(nb) == cachedConsP

\* rewsr_xsk_prod_reserve: the cached consumer counter is refreshed only when
\* it does not leave room for nb; what the refresh found stays in the cache.
ReserveCons(nb) == IF FreeSlots(cachedConsP) < nb THEN consumer ELSE cachedConsP

ProdReserve(nb) ==
    /\ FreeSlots(ReserveCons(nb)) >= nb
    /\ cachedConsP' = ReserveCons(nb)
    /\ cachedProdP' = Add(cachedProdP, nb)
    /\ UNCHANGED <<producer, consumer, ring, next, written, consumerVars>>

\* return 0: only the cache changes
ProdReserveFails(nb) ==
    /\ FreeSlots(ReserveCons(nb)) < nb
    /\ cachedConsP' = ReserveCons(nb)
    /\ UNCHANGED <<producer, consumer, ring, cachedProdP, next, written, consumerVars>>

\* rewsr_xsk_prod_free
ProdFree ==
    /\ cachedConsP' = consumer
    /\ UNCHANGED <<producer, consumer, ring, cachedProdP, next, written, consumerVars>>

\* The caller fills the next reserved descriptor.
WriteDesc ==
    /\ next # cachedProdP
    /\ written < MaxItems
    /\ ring' = [ring EXCEPT ![Slot(next)] = written + 1]
    /\ next' = Add(next, 1)
    /\ written' = written + 1
    /\ UNCHANGED <<producer, consumer, cachedProdP, cachedConsP, consumerVars>>

\* Mutation of ProdSubmit: publishes what is reserved, written or not
ProdSubmitReserved(nb) ==
    /\ nb <= Sub(next, producer)
    /\ producer' = cachedProdP
    /\ UNCHANGED <<consumer, ring, producerVars, consumerVars>>

\* rewsr_xsk_prod_submit
ProdSubmit(nb) ==
    /\ nb <= Sub(next, producer)
    /\ producer' = Add(producer, nb)
    /\ UNCHANGED <<consumer, ring, producerVars, consumerVars>>

-----------------------------------------------------------------------------
(* The consuming side.                                                      *)

\* rewsr_xsk_cons_peek
PeekProd(nb) == IF Sub(cachedProdC, cachedConsC) < nb THEN producer ELSE cachedProdC

ConsPeek(nb) ==
    /\ granted = 0
    /\ LET avail == Sub(PeekProd(nb), cachedConsC)
       IN  granted' = IF avail > nb THEN nb ELSE avail
    /\ cachedProdC' = PeekProd(nb)
    /\ UNCHANGED <<producer, consumer, ring, producerVars, cachedConsC, nread, delivered>>

\* rewsr_xsk_cons_available
ConsAvailable ==
    /\ cachedProdC' = producer
    /\ UNCHANGED <<producer, consumer, ring, producerVars, cachedConsC, granted, nread, delivered>>

\* The caller reads the next peeked descriptor.
ReadDesc ==
    /\ nread < granted
    /\ delivered' = Append(delivered, ring[Slot(Add(cachedConsC, nread))])
    /\ nread' = nread + 1
    /\ UNCHANGED <<producer, consumer, ring, producerVars, cachedProdC, cachedConsC, granted>>

\* Mutation of ConsRelease: the handle's own counter stays behind
ConsReleaseUncached(nb) ==
    /\ nb <= nread
    /\ consumer' = Add(consumer, nb)
    /\ granted' = granted - nb
    /\ nread' = nread - nb
    /\ UNCHANGED <<producer, ring, producerVars, cachedProdC, cachedConsC, delivered>>

\* rewsr_xsk_cons_release of entries that have been read
ConsRelease(nb) ==
    /\ nb <= nread
    /\ consumer' = Add(consumer, nb)
    /\ cachedConsC' = Add(cachedConsC, nb)
    /\ granted' = granted - nb
    /\ nread' = nread - nb
    /\ UNCHANGED <<producer, ring, producerVars, cachedProdC, delivered>>

-----------------------------------------------------------------------------
Batch == 1 .. MaxNb

Produce ==
    \/ \E nb \in Batch : ProdReserve(nb) \/ ProdReserveFails(nb) \/ ProdSubmit(nb)
    \/ ProdFree
    \/ WriteDesc

Consume ==
    \/ \E nb \in Batch : ConsPeek(nb) \/ ConsRelease(nb)
    \/ ConsAvailable
    \/ ReadDesc

Next == Produce \/ Consume

Spec == Init /\ [][Next]_vars

(* The callers of test_xsk_ring.c loop: the producer reserves one slot at   *)
(* least whenever it has nothing reserved, writes what it reserved and      *)
(* submits what it wrote; the consumer peeks, reads what it peeked and      *)
(* releases what it read.  Neither thread is stopped for ever.              *)
FairSpec ==
    /\ Spec
    /\ WF_vars(next = cachedProdP /\ ProdReserve(1))
    /\ WF_vars(WriteDesc)
    /\ WF_vars(ProdSubmit(1))
    /\ WF_vars(ConsPeek(MaxNb))
    /\ WF_vars(ReadDesc)
    /\ WF_vars(ConsRelease(1))

-----------------------------------------------------------------------------
(* Distances ahead of the shared consumer counter.                          *)
Ahead(c) == Sub(c, consumer)

(* The consuming side reads the descriptors written, once each and in       *)
(* order, across every wrap of the counters (test_xsk_ring.c).              *)
ExactlyOnceInOrder == \A k \in 1 .. Len(delivered) : delivered[k] = k

(* "the in-flight count never exceeds size" (xsk_ring.c:31-33), which is    *)
(* what makes subtraction modulo 2^32 meaningful: the counters of both      *)
(* sides stand in this order around the ring, caches behind what they cache.*)
CountersOrdered ==
    /\ granted <= Ahead(cachedProdC)
    /\ Ahead(cachedProdC) <= Ahead(producer)
    /\ Ahead(producer) <= Ahead(next)
    /\ Ahead(next) <= Ahead(cachedProdP)
    /\ Ahead(cachedProdP) <= Sub(cachedProdP, cachedConsP)
    /\ Sub(cachedProdP, cachedConsP) <= Size

(* A descriptor that was submitted keeps its contents until it is released. *)
InFlightStable ==
    [][\A j \in 0 .. Size - 1 : j < Ahead(producer) =>
          ring'[Slot(Add(consumer, j))] = ring[Slot(Add(consumer, j))]]_vars

(* The strengthening that makes them inductive: what the written part of    *)
(* the ring holds.  Delivered but unreleased descriptors are still there.   *)
RingInv ==
    /\ TypeOK
    /\ CountersOrdered
    /\ cachedConsC = consumer
    /\ nread <= granted
    /\ written = Len(delivered) - nread + Ahead(next)
    /\ \A j \in 0 .. Size - 1 : j < Ahead(next) =>
          ring[Slot(Add(consumer, j))] = Len(delivered) - nread + j + 1
    /\ ExactlyOnceInOrder

(* Everything the producer has is eventually written, submitted and read:   *)
(* the counters never drift apart, so the ring never jams.                  *)
EverythingDelivered == <>(Len(delivered) = MaxItems)

(* The ring is a bounded queue of the submitted, unreleased descriptors.    *)
Fifo == INSTANCE BoundedFifo WITH
    Limit <- Size, MaxPut <- MaxItems,
    queue <- [j \in 1 .. Ahead(producer) |-> ring[Slot(Add(consumer, j - 1))]],
    put <- written - Sub(next, producer)

ImplementsFifo == Fifo!Spec
=============================================================================
