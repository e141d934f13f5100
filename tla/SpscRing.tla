------------------------------ MODULE SpscRing ------------------------------
(***************************************************************************)
(* The single-producer single-consumer ring of csrc/ring/spsc_ring.c.      *)
(*                                                                         *)
(* Two threads share the indices head and tail and an array of slots.  A   *)
(* step is one access to shared memory: the load of the far index, the     *)
(* first and the second half of a memcpy, the store of the own index.  A   *)
(* slot is two halves, so that a copy that overlaps another one shows as   *)
(* an item whose halves differ.  The n-th item produced is the number n.   *)
(*                                                                         *)
(* The release stores and acquire loads of the code make every execution   *)
(* equivalent to an interleaving of these steps, which is what is modelled.*)
(***************************************************************************)
EXTENDS Integers, Sequences

CONSTANTS
    N,         \* slots in the array: mask + 1, a power of two, at least 2
    MaxItems   \* bound: items the producer offers

ASSUME NAssumption == N \in Nat /\ N >= 2
ASSUME MaxItemsAssumption == MaxItems \in Nat

VARIABLES
    head, tail,        \* the shared indices
    slotLo, slotHi,    \* first and second half of every slot's bytes
    ppc,               \* where the producer is in rewsr_spsc_produce
    cpc,               \* where the consumer is in rewsr_spsc_consume
    outLo,             \* first half of the consumer's output buffer
    sent,              \* items whose tail has been published
    delivered          \* items copied out, oldest first, as <<half, half>>

indices == <<head, tail>>
slots == <<slotLo, slotHi>>
producerVars == <<ppc, sent>>
consumerVars == <<cpc, outLo, delivered>>
vars == <<head, tail, slotLo, slotHi, ppc, cpc, outLo, sent, delivered>>

Index == 0 .. N - 1

\* A slot nobody has written yet.
Blank == 0

\* (i + 1) & mask
Succ(i) == IF i = N - 1 THEN 0 ELSE i + 1

\* (t - h) & mask: how far t is ahead of h around the ring
Dist(t, h) == IF t >= h THEN t - h ELSE t - h + N

\* rewsr_spsc_capacity
Capacity == N - 1

TypeOK ==
    /\ head \in Index
    /\ tail \in Index
    /\ slotLo \in [Index -> Nat]
    /\ slotHi \in [Index -> Nat]
    /\ ppc \in {"idle", "copy", "copying", "publish"}
    /\ cpc \in {"idle", "copy", "copying", "release"}
    /\ outLo \in Nat
    /\ sent \in Nat
    /\ delivered \in Seq(Nat \X Nat)

\* rewsr_spsc_init
Init ==
    /\ head = 0
    /\ tail = 0
    /\ slotLo = [i \in Index |-> Blank]
    /\ slotHi = [i \in Index |-> Blank]
    /\ ppc = "idle"
    /\ cpc = "idle"
    /\ outLo = Blank
    /\ sent = 0
    /\ delivered = <<>>

-----------------------------------------------------------------------------
(* rewsr_spsc_produce: tail is the producer's own, so reading it and the    *)
(* far head is one step.                                                    *)

Item == sent + 1

\* Mutation of ProduceLoad: the full test dropped
ProduceLoadUnchecked ==
    /\ ppc = "idle"
    /\ sent < MaxItems
    /\ ppc' = "copy"
    /\ UNCHANGED <<indices, slots, sent, consumerVars>>

ProduceLoad ==
    /\ ppc = "idle"
    /\ sent < MaxItems
    /\ Succ(tail) # head
    /\ ppc' = "copy"
    /\ UNCHANGED <<indices, slots, sent, consumerVars>>

\* return 0: no free slot
ProduceFull ==
    /\ ppc = "idle"
    /\ Succ(tail) = head
    /\ UNCHANGED vars

\* Mutation of ProduceCopyLo: copies into the slot of the wrong index
ProduceCopyLoAtHead ==
    /\ ppc = "copy"
    /\ slotLo' = [slotLo EXCEPT ![head] = Item]
    /\ ppc' = "copying"
    /\ UNCHANGED <<indices, slotHi, sent, consumerVars>>

ProduceCopyLo ==
    /\ ppc = "copy"
    /\ slotLo' = [slotLo EXCEPT ![tail] = Item]
    /\ ppc' = "copying"
    /\ UNCHANGED <<indices, slotHi, sent, consumerVars>>

ProduceCopyHi ==
    /\ ppc = "copying"
    /\ slotHi' = [slotHi EXCEPT ![tail] = Item]
    /\ ppc' = "publish"
    /\ UNCHANGED <<indices, slotLo, sent, consumerVars>>

\* Mutation of ProducePublish: the new tail may be seen before the copy ends
ProducePublishEarly ==
    /\ ppc \in {"copying", "publish"}
    /\ tail' = Succ(tail)
    /\ sent' = sent + 1
    /\ ppc' = "idle"
    /\ UNCHANGED <<head, slots, consumerVars>>

ProducePublish ==
    /\ ppc = "publish"
    /\ tail' = Succ(tail)
    /\ sent' = sent + 1
    /\ ppc' = "idle"
    /\ UNCHANGED <<head, slots, consumerVars>>

-----------------------------------------------------------------------------
(* rewsr_spsc_consume                                                       *)

\* Mutations of ConsumeLoad: the empty test dropped; the empty test off by one
ConsumeLoadUnchecked ==
    /\ cpc = "idle"
    /\ cpc' = "copy"
    /\ UNCHANGED <<indices, slots, producerVars, outLo, delivered>>

ConsumeLoadOffByOne ==
    /\ cpc = "idle"
    /\ head # tail /\ Succ(head) # tail
    /\ cpc' = "copy"
    /\ UNCHANGED <<indices, slots, producerVars, outLo, delivered>>

ConsumeLoad ==
    /\ cpc = "idle"
    /\ head # tail
    /\ cpc' = "copy"
    /\ UNCHANGED <<indices, slots, producerVars, outLo, delivered>>

\* return 0: nothing published
ConsumeEmpty ==
    /\ cpc = "idle"
    /\ head = tail
    /\ UNCHANGED vars

ConsumeCopyLo ==
    /\ cpc = "copy"
    /\ outLo' = slotLo[head]
    /\ cpc' = "copying"
    /\ UNCHANGED <<indices, slots, producerVars, delivered>>

ConsumeCopyHi ==
    /\ cpc = "copying"
    /\ delivered' = Append(delivered, <<outLo, slotHi[head]>>)
    /\ cpc' = "release"
    /\ UNCHANGED <<indices, slots, producerVars, outLo>>

ConsumeRelease ==
    /\ cpc = "release"
    /\ head' = Succ(head)
    /\ cpc' = "idle"
    /\ UNCHANGED <<tail, slots, producerVars, outLo, delivered>>

-----------------------------------------------------------------------------
Produce == ProduceLoad \/ ProduceFull \/ ProduceCopyLo \/ ProduceCopyHi \/ ProducePublish
Consume == ConsumeLoad \/ ConsumeEmpty \/ ConsumeCopyLo \/ ConsumeCopyHi \/ ConsumeRelease

Next == Produce \/ Consume

Spec == Init /\ [][Next]_vars

-----------------------------------------------------------------------------
\* Items whose slot the consumer has given back to the producer.
Consumed == IF cpc = "release" THEN Len(delivered) - 1 ELSE Len(delivered)

\* rewsr_spsc_count with nobody moving
Live == Dist(tail, head)

(* Every item the consumer copies out is whole and is the next one in the   *)
(* order of production: nothing is lost, repeated, reordered or torn        *)
(* (spsc_ring.h:10-13; the concurrent test of test_spsc.c).                 *)
ExactlyOnceInOrder ==
    \A k \in 1 .. Len(delivered) : delivered[k] = <<k, k>>

(* The indices account for every item: what lies between head and tail is   *)
(* exactly what was published and not yet given back, and the reserved      *)
(* empty slot is never used (spsc_ring.c:35-39).                            *)
IndicesCountItems ==
    /\ Live = sent - Consumed
    /\ Live <= Capacity

(* The two threads are never inside a memcpy of the same slot, the data     *)
(* race the acquire and release pairs are there to exclude.                 *)
NoSharedSlot ==
    ~ /\ ppc \in {"copy", "copying", "publish"}
      /\ cpc \in {"copy", "copying", "release"}
      /\ head = tail

(* A step that writes bytes of a slot leaves every slot between head and    *)
(* tail alone, so a published item stays as it is until it is released.     *)
LiveSlotsStable ==
    [][\A i \in Index :
          Dist(i, head) < Live => slotLo'[i] = slotLo[i] /\ slotHi'[i] = slotHi[i]]_vars

(* The strengthening that makes the safety properties inductive: what each  *)
(* program counter knows about the indices, what the slots between head and *)
(* tail hold, and what the two half-done copies have written so far.        *)
RingInv ==
    /\ TypeOK
    /\ ppc # "idle" => Succ(tail) # head
    /\ cpc # "idle" => head # tail
    /\ cpc = "release" => delivered # <<>>
    /\ Live = sent - Consumed
    /\ \A i \in Index : Dist(i, head) < Live =>
          /\ slotLo[i] = Consumed + Dist(i, head) + 1
          /\ slotHi[i] = Consumed + Dist(i, head) + 1
    /\ ppc \in {"copying", "publish"} => slotLo[tail] = Item
    /\ ppc = "publish" => slotHi[tail] = Item
    /\ cpc = "copying" => outLo = Consumed + 1
    /\ ExactlyOnceInOrder

(* The ring is a bounded queue of the published, unreleased items.  An item *)
(* whose halves differ would map to Blank, which no queue entry is.         *)
Fifo == INSTANCE BoundedFifo WITH
    Limit <- Capacity, MaxPut <- MaxItems, put <- sent,
    queue <- [j \in 1 .. Live |->
                LET i == (head + j - 1) % N
                IN  IF slotLo[i] = slotHi[i] THEN slotLo[i] ELSE Blank]

ImplementsFifo == Fifo!Spec

(* Everything the producer has is eventually produced and consumed: neither *)
(* thread can lock the other out, and the indices never drift so that full  *)
(* and empty are confused.                                                  *)
EverythingDelivered == <>(Consumed = MaxItems)
=============================================================================
