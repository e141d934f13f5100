--------------------------------- MODULE Xsk --------------------------------
(***************************************************************************)
(* The UMEM and the socket of csrc/xdp/xsk.c: the frame pool, the fill and  *)
(* TX rings userspace produces into, the RX and completion rings it         *)
(* consumes from, and the kernel on the far side of all four.               *)
(*                                                                          *)
(* The fill and TX rings keep their descriptor arrays and the counters of   *)
(* xsk_ring.c, because xsk.c does not always submit what it reserved.  The  *)
(* RX and completion rings are used by the protocol of XskRing, which       *)
(* implements a bounded queue; they are queues here.  A cached counter of   *)
(* the far side never changes the outcome of a call (XskRing), so a call    *)
(* reads the shared counter.                                                *)
(*                                                                          *)
(* One userspace thread makes the calls.  The kernel sees a call only       *)
(* through the counter it publishes last, so a call is one step, except     *)
(* that rx_burst publishes twice: it is the burst and the refill after it.  *)
(***************************************************************************)
EXTENDS FramePool, SequencesExt

CONSTANTS
    FillSize, TxSize, RxSize, CompSize,   \* ring sizes
    MaxNb,          \* bound: the largest burst a caller asks for
    Headroom,       \* offset at which the kernel places a received packet
    CallbackSkips   \* TRUE if the TX callback may return 0 for a frame

ASSUME SizesAssumption == {FillSize, TxSize, RxSize, CompSize, MaxNb} \subseteq Nat \ {0}
ASSUME HeadroomAssumption == Headroom \in 0 .. ChunkSize - 1
ASSUME CallbackAssumption == CallbackSkips \in BOOLEAN

VARIABLES
    pool,        \* umem->pool
    fill, tx,    \* the produced rings
    rx, comp,    \* the consumed rings: addresses, oldest first
    inTx,        \* frames the kernel took from TX and has not completed
    owed         \* frames rx_burst has recycled and not yet refilled

vars == <<pool, fill, tx, rx, comp, inTx, owed>>

-----------------------------------------------------------------------------
(* A produced ring of the given size, as its producing side sees it: the    *)
(* descriptors, the shared counters and cached_prod.  Counters wrap at a    *)
(* multiple of the size.                                                    *)

Wrap(size) == 2 * size
Plus(size, c, n) == (c + n) % Wrap(size)
Minus(size, c, d) == (c - d + Wrap(size)) % Wrap(size)

\* map_ring: the kernel hands out zeroed memory, so an unwritten descriptor
\* names frame 0.
EmptyRing(size) ==
    [desc |-> [s \in 0 .. size - 1 |-> 0], prod |-> 0, cons |-> 0, cached_prod |-> 0]

\* rewsr_xsk_prod_free
RingFree(r, size) == size - Minus(size, r.cached_prod, r.cons)

\* Entries the kernel may take.
RingFilled(r, size) == Minus(size, r.prod, r.cons)

\* Reserve nb descriptors, write the sequence s from the first of them on,
\* submit Len(s) of them.
Posted(r, size, nb, s) ==
    [desc |-> [c \in 0 .. size - 1 |->
                 LET k == (c - r.cached_prod) % size
                 IN  IF k < Len(s) THEN s[k + 1] ELSE r.desc[c]],
     prod |-> Plus(size, r.prod, Len(s)),
     cons |-> r.cons,
     cached_prod |-> Plus(size, r.cached_prod, nb)]

\* What the kernel finds at its end of the ring, and the ring after it.
RingHead(r, size) == r.desc[r.cons % size]
RingTaken(r, size) == [r EXCEPT !.cons = Plus(size, @, 1)]

\* The submitted descriptors, oldest first.
Window(r, size) == [k \in 1 .. RingFilled(r, size) |-> r.desc[(r.cons + k - 1) % size]]

Least(a, b) == IF a < b THEN a ELSE b

\* The n frames that n allocations from p return, in that order.
Allocated(p, n) == [k \in 1 .. n |-> p[Len(p) - k + 1]]

-----------------------------------------------------------------------------
Addrs == 0 .. NumFrames * ChunkSize - 1

RingType(size) ==
    [desc : [0 .. size - 1 -> Addrs], prod : 0 .. Wrap(size) - 1,
     cons : 0 .. Wrap(size) - 1, cached_prod : 0 .. Wrap(size) - 1]

TypeOK ==
    /\ pool \in Seq(Frames) /\ Len(pool) <= NumFrames
    /\ fill \in RingType(FillSize)
    /\ tx \in RingType(TxSize)
    /\ rx \in Seq(Addrs) /\ Len(rx) <= RxSize
    /\ comp \in Seq(Addrs) /\ Len(comp) <= CompSize
    /\ inTx \in Seq(Addrs)
    /\ owed \in 0 .. FillSize + MaxNb

\* rewsr_xsk_umem_create and rewsr_xsk_socket_create, then the startup
\* refill of the whole fill ring that rewsr_dp_worker_init asks for
Init ==
    /\ pool = PoolSeed
    /\ fill = EmptyRing(FillSize)
    /\ tx = EmptyRing(TxSize)
    /\ rx = <<>>
    /\ comp = <<>>
    /\ inTx = <<>>
    /\ owed = FillSize

-----------------------------------------------------------------------------
(* Userspace                                                                *)

\* rewsr_xsk_fill_refill(umem, owed): reserves as many as are owed and free,
\* posts as many of those as the pool can back.
FillRefill ==
    /\ owed > 0
    /\ LET nb == Least(owed, RingFree(fill, FillSize))
           posted == Least(nb, Len(pool))
       IN  /\ fill' = Posted(fill, FillSize, nb, Allocated(pool, posted))
           /\ pool' = Popped(pool, posted)
    /\ owed' = 0
    /\ UNCHANGED <<tx, rx, comp, inTx>>

\* Mutations of RxBurst: the frames are recycled but not released; the fill
\* ring is not topped up
RxBurstUnreleased(nb) ==
    /\ owed = 0
    /\ LET got == Least(nb, Len(rx))
       IN  /\ pool' = PoolFreeAll(pool, SubSeq(rx, 1, got))
           /\ owed' = got
    /\ UNCHANGED <<fill, tx, rx, comp, inTx>>

RxBurstNoRefill(nb) ==
    /\ owed = 0
    /\ LET got == Least(nb, Len(rx))
       IN  /\ pool' = PoolFreeAll(pool, SubSeq(rx, 1, got))
           /\ rx' = SubSeq(rx, got + 1, Len(rx))
    /\ UNCHANGED <<fill, tx, comp, inTx, owed>>

\* rewsr_xsk_rx_burst up to its refill
RxBurst(nb) ==
    /\ owed = 0
    /\ LET got == Least(nb, Len(rx))
       IN  /\ pool' = PoolFreeAll(pool, SubSeq(rx, 1, got))
           /\ rx' = SubSeq(rx, got + 1, Len(rx))
           /\ owed' = got
    /\ UNCHANGED <<fill, tx, comp, inTx>>

\* How many of nb frames the TX callback fills.
Fills(nb) == IF CallbackSkips THEN 0 .. nb ELSE {nb}

\* rewsr_xsk_tx_burst: reserves all nb or returns 0.  A frame the callback
\* skips goes back on top of the pool and is the next one allocated, so the
\* frames queued are the top ones of the pool, until it is empty.
TxBurst(nb) ==
    /\ owed = 0
    /\ RingFree(tx, TxSize) >= nb
    /\ \E filled \in Fills(nb) :
         LET queued == Least(filled, Len(pool))
         IN  /\ tx' = Posted(tx, TxSize, nb, Allocated(pool, queued))
             /\ pool' = Popped(pool, queued)
    /\ UNCHANGED <<fill, rx, comp, inTx, owed>>

\* return 0: the reservation failed
TxBurstFull(nb) ==
    /\ owed = 0
    /\ RingFree(tx, TxSize) < nb
    /\ UNCHANGED vars

\* Mutations of TxComplete: completed frames are not given back to the pool; or they
\* are, but the completion ring is not told
TxCompleteLeak(nb) ==
    /\ owed = 0
    /\ comp' = SubSeq(comp, Least(nb, Len(comp)) + 1, Len(comp))
    /\ UNCHANGED <<pool, fill, tx, rx, inTx, owed>>

TxCompleteUnreleased(nb) ==
    /\ owed = 0
    /\ pool' = PoolFreeAll(pool, SubSeq(comp, 1, Least(nb, Len(comp))))
    /\ UNCHANGED <<fill, tx, rx, comp, inTx, owed>>

\* rewsr_xsk_tx_complete
TxComplete(nb) ==
    /\ owed = 0
    /\ LET got == Least(nb, Len(comp))
       IN  /\ pool' = PoolFreeAll(pool, SubSeq(comp, 1, got))
           /\ comp' = SubSeq(comp, got + 1, Len(comp))
    /\ UNCHANGED <<fill, tx, rx, inTx, owed>>

-----------------------------------------------------------------------------
(* The kernel (external): it takes descriptors in order, and takes one from *)
(* TX only when the completion ring has room for it in the end.             *)

KernelReceive ==
    /\ RingFilled(fill, FillSize) > 0
    /\ Len(rx) < RxSize
    /\ rx' = Append(rx, RingHead(fill, FillSize) + Headroom)
    /\ fill' = RingTaken(fill, FillSize)
    /\ UNCHANGED <<pool, tx, comp, inTx, owed>>

KernelTake ==
    /\ RingFilled(tx, TxSize) > 0
    /\ Len(inTx) + Len(comp) < CompSize
    /\ inTx' = Append(inTx, RingHead(tx, TxSize))
    /\ tx' = RingTaken(tx, TxSize)
    /\ UNCHANGED <<pool, fill, rx, comp, owed>>

KernelComplete ==
    /\ \E i \in DOMAIN inTx :
         /\ comp' = Append(comp, inTx[i])
         /\ inTx' = RemoveAt(inTx, i)
    /\ UNCHANGED <<pool, fill, tx, rx, owed>>

-----------------------------------------------------------------------------
Kernel == KernelReceive \/ KernelTake \/ KernelComplete

Next ==
    \/ FillRefill
    \/ \E nb \in 1 .. MaxNb : RxBurst(nb) \/ TxBurst(nb) \/ TxBurstFull(nb) \/ TxComplete(nb)
    \/ Kernel

Spec == Init /\ [][Next]_vars

-----------------------------------------------------------------------------
\* Every address anywhere, by chunk: free, posted, received, queued, in
\* transmission, completed.
Everywhere ==
    pool \o Window(fill, FillSize) \o [i \in DOMAIN rx |-> ChunkBase(rx[i])]
         \o Window(tx, TxSize) \o inTx \o comp

(* "at any moment a chunk is either owned by the kernel (posted on the fill *)
(* ring or sitting in an RX/TX descriptor) or free for userspace to hand    *)
(* out" (frame_pool.h:7-10): every chunk is in exactly one place, so no two *)
(* packets ever share memory and no memory is lost.                         *)
FramesConserved ==
    /\ Len(Everywhere) = NumFrames
    /\ ToSet(Everywhere) = Frames

(* Receive credit never leaks: fill descriptors the kernel has, received    *)
(* frames userspace has not recycled and frames it owes the fill ring add   *)
(* up to the whole fill ring, whatever transmission takes from the pool.    *)
FillCreditConserved ==
    RingFilled(fill, FillSize) + Len(rx) + owed = FillSize

(* What is reserved on a produced ring is submitted by the same call, the   *)
(* protocol XskRing needs of its callers.                                   *)
ReservedIsSubmitted ==
    /\ fill.cached_prod = fill.prod
    /\ tx.cached_prod = tx.prod
=============================================================================
