---------------------------- MODULE BoundedFifo -----------------------------
(***************************************************************************)
(* What a ring promises its two sides: a queue of at most Limit entries,    *)
(* filled in batches at the back and emptied in batches at the front, in    *)
(* which the n-th entry put is the number n.  SpscRing and XskRing          *)
(* implement it; Xsk relies on it for its receive and completion rings.     *)
(***************************************************************************)
EXTENDS Integers, Sequences

CONSTANTS
    Limit,   \* entries the queue can hold
    MaxPut   \* bound: entries ever put

VARIABLES queue, put

fifoVars == <<queue, put>>

Init == queue = <<>> /\ put = 0

Put(n) ==
    /\ Len(queue) + n <= Limit
    /\ put + n <= MaxPut
    /\ queue' = queue \o [k \in 1 .. n |-> put + k]
    /\ put' = put + n

Take(n) ==
    /\ n <= Len(queue)
    /\ queue' = SubSeq(queue, n + 1, Len(queue))
    /\ UNCHANGED put

Next == \E n \in 1 .. Limit : Put(n) \/ Take(n)

Spec == Init /\ [][Next]_fifoVars
=============================================================================
