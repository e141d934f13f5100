------------------------------- MODULE Worker -------------------------------
(***************************************************************************)
(* The data-plane loop of csrc/dataplane/worker.c over the socket of Xsk.   *)
(* One iteration polls stop, receives (SINK, ECHO), transmits, kicks and    *)
(* reclaims (SOURCE, ECHO), and compares the counters with max_packets.     *)
(* Another thread sets stop; the kernel runs all the time.                  *)
(***************************************************************************)
EXTENDS Xsk

CONSTANTS
    Roles,        \* the roles cfg.role may name: "SOURCE", "SINK", "ECHO"
    Batch,        \* cfg.batch
    MaxPackets,   \* cfg.max_packets, 0 for unlimited (finitely many states only for a SINK)
    NeedsKick,    \* TRUE: the kernel looks at the TX ring only after a kick
    MaxArrivals,  \* bound: packets that arrive from the network
    DropCap       \* bound: tx_drops is not followed beyond it

ASSUME RolesAssumption == Roles \subseteq {"SOURCE", "SINK", "ECHO"}
ASSUME BatchAssumption == Batch \in 1 .. MaxNb
ASSUME WorkerAssumption ==
    /\ {MaxPackets, MaxArrivals, DropCap} \subseteq Nat
    /\ NeedsKick \in BOOLEAN
VARIABLES
    role,          \* w->cfg.role
    wpc,           \* where rewsr_dp_worker_run is
    stop,          \* w->stop
    rx_packets, parse_errors, tx_packets, tx_drops,   \* w->stats
    service,       \* the kernel is working on the TX ring
    arrived,       \* packets the kernel has put on the RX ring
    taken          \* descriptors the kernel has taken from the TX ring

stats == <<rx_packets, parse_errors, tx_packets, tx_drops>>
workerVars == <<role, wpc, stop, stats, service, arrived, taken>>
allVars == <<vars, role, wpc, stop, rx_packets, parse_errors, tx_packets, tx_drops,
             service, arrived, taken>>

Receives == role \in {"SINK", "ECHO"}
Transmits == role \in {"SOURCE", "ECHO"}

WorkerTypeOK ==
    /\ TypeOK
    /\ role \in Roles
    /\ wpc \in {"prime", "loop", "rx", "refill", "tx", "kick", "complete", "check", "done"}
    /\ stop \in BOOLEAN /\ service \in BOOLEAN
    /\ rx_packets \in 0 .. MaxArrivals /\ parse_errors \in 0 .. MaxArrivals
    /\ arrived \in 0 .. MaxArrivals
    /\ tx_packets \in Nat /\ taken \in Nat
    /\ tx_drops \in 0 .. DropCap

WorkerInit ==
    /\ Init
    /\ role \in Roles
    /\ wpc = "prime"
    /\ stop = FALSE
    /\ rx_packets = 0 /\ parse_errors = 0 /\ tx_packets = 0 /\ tx_drops = 0
    /\ service = FALSE
    /\ arrived = 0
    /\ taken = 0

-----------------------------------------------------------------------------
Goto(from, to) == wpc = from /\ wpc' = to /\ UNCHANGED role

AfterRx == IF Transmits THEN "tx" ELSE "check"

\* The refill of rewsr_dp_worker_init.
Prime ==
    /\ Goto("prime", "loop")
    /\ FillRefill
    /\ UNCHANGED <<stop, stats, service, arrived, taken>>

\* Mutation of Loop: stop is read once, before the loop
LoopHoisted ==
    /\ Goto("loop", IF Receives THEN "rx" ELSE "tx")
    /\ UNCHANGED <<vars, stop, stats, service, arrived, taken>>

\* while (!w->stop)
Loop ==
    /\ ~stop
    /\ Goto("loop", IF Receives THEN "rx" ELSE "tx")
    /\ UNCHANGED <<vars, stop, stats, service, arrived, taken>>

LoopStopped ==
    /\ stop
    /\ Goto("loop", "done")
    /\ UNCHANGED <<vars, stop, stats, service, arrived, taken>>

\* rx_burst with rx_count: every frame is counted as a packet or an error.
Receive ==
    /\ RxBurst(Batch)
    /\ Goto("rx", IF owed' > 0 THEN "refill" ELSE AfterRx)
    /\ \E good \in 0 .. owed' :
         /\ rx_packets' = rx_packets + good
         /\ parse_errors' = parse_errors + (owed' - good)
    /\ UNCHANGED <<stop, tx_packets, tx_drops, service, arrived, taken>>

\* Mutation of Refill: what was received is not replaced on the fill ring
RefillOmitted ==
    /\ Goto("refill", AfterRx)
    /\ owed' = 0
    /\ UNCHANGED <<pool, fill, tx, rx, comp, inTx, stop, stats, service, arrived, taken>>

\* The refill at the end of rx_burst.
Refill ==
    /\ Goto("refill", AfterRx)
    /\ FillRefill
    /\ UNCHANGED <<stop, stats, service, arrived, taken>>

\* Mutation of Transmit: counts the frames asked for, not those queued
TransmitCountsBatch ==
    /\ TxBurst(Batch) \/ TxBurstFull(Batch)
    /\ Goto("tx", "kick")
    /\ tx_packets' = tx_packets + Batch
    /\ UNCHANGED <<stop, rx_packets, parse_errors, tx_drops, service, arrived, taken>>

\* tx_burst: what it queued is what the published counter moved by.
Transmit ==
    /\ TxBurst(Batch) \/ TxBurstFull(Batch)
    /\ LET sent == Minus(TxSize, tx'.prod, tx.prod)
       IN  /\ Goto("tx", IF sent > 0 THEN "kick" ELSE "complete")
           /\ tx_packets' = tx_packets + sent
           /\ tx_drops' = IF sent > 0 THEN tx_drops ELSE Least(tx_drops + Batch, DropCap)
    /\ UNCHANGED <<stop, rx_packets, parse_errors, service, arrived, taken>>

\* rewsr_xsk_kick; the worker ignores its result
KickAccepted ==
    /\ Goto("kick", "complete")
    /\ service' = TRUE
    /\ UNCHANGED <<vars, stop, stats, arrived, taken>>

\* sendto fails: ENOBUFS, EAGAIN or EBUSY
KickRefused ==
    /\ Goto("kick", "complete")
    /\ UNCHANGED <<vars, stop, stats, service, arrived, taken>>

Reclaim ==
    /\ Goto("complete", "check")
    /\ TxComplete(Batch)
    /\ UNCHANGED <<stop, stats, service, arrived, taken>>

LimitReached == MaxPackets > 0 /\ rx_packets + tx_packets >= MaxPackets

\* Mutation of Check: stops early rather than overshoot
CheckEarly ==
    /\ Goto("check", IF MaxPackets > 0 /\ rx_packets + tx_packets + Batch > MaxPackets
                     THEN "done" ELSE "loop")
    /\ UNCHANGED <<vars, stop, stats, service, arrived, taken>>

Check ==
    /\ Goto("check", IF LimitReached THEN "done" ELSE "loop")
    /\ UNCHANGED <<vars, stop, stats, service, arrived, taken>>

Worker ==
    \/ Prime \/ Loop \/ LoopStopped \/ Receive \/ Refill \/ Transmit
    \/ KickAccepted \/ KickRefused \/ Reclaim \/ Check

\* Another thread sets w->stop.
SetStop ==
    /\ ~stop
    /\ stop' = TRUE
    /\ UNCHANGED <<vars, role, wpc, stats, service, arrived, taken>>

-----------------------------------------------------------------------------
(* The kernel (external).                                                   *)

Arrive ==
    /\ arrived < MaxArrivals
    /\ KernelReceive
    /\ arrived' = arrived + 1
    /\ UNCHANGED <<role, wpc, stop, stats, service, taken>>

\* Once asked, the kernel serves the TX ring until it finds it empty.
TakeTx ==
    /\ NeedsKick => service
    /\ KernelTake
    /\ taken' = taken + 1
    /\ service' = (service /\ RingFilled(tx', TxSize) > 0)
    /\ UNCHANGED <<role, wpc, stop, stats, arrived>>

CompleteTx ==
    /\ KernelComplete
    /\ UNCHANGED workerVars

\* The worker has returned: the caller may do what it likes.
Returned ==
    /\ wpc = "done"
    /\ UNCHANGED allVars

WorkerNext == Worker \/ SetStop \/ Arrive \/ TakeTx \/ CompleteTx \/ Returned

WorkerSpec == WorkerInit /\ [][WorkerNext]_allVars

(* The worker is a running thread; a kernel that has work on the TX ring    *)
(* and may do it does it; a kick that is repeated is not refused for ever.  *)
(* Nothing forces packets to arrive or stop to be set.                      *)
WorkerFairSpec ==
    /\ WorkerSpec
    /\ WF_allVars(Worker)
    /\ SF_allVars(KickAccepted)
    /\ WF_allVars(TakeTx)
    /\ WF_allVars(CompleteTx)

-----------------------------------------------------------------------------
(* The counters of w->stats account for every frame: what was received is   *)
(* counted once, as a packet or as an error, and what was counted as sent   *)
(* is on the TX ring or with the kernel.                                    *)
StatsAccountForFrames ==
    /\ rx_packets + parse_errors + Len(rx) = arrived
    /\ tx_packets = taken + RingFilled(tx, TxSize)

(* "drives the loop until stop is set or max_packets is reached"            *)
(* (worker.h): it never returns for another reason, and max_packets is      *)
(* overshot by less than one receive and one transmit burst.                *)
ReturnsWhenTold ==
    /\ wpc = "done" => stop \/ LimitReached
    /\ LimitReached => rx_packets + tx_packets < MaxPackets + 2 * Batch

(* Setting stop ends the loop, wherever it is.                              *)
StopEndsLoop == stop ~> (wpc = "done")

(* Reception goes on whatever becomes of transmission, jammed TX ring and   *)
(* dry pool included: a receiving worker takes every frame the kernel has   *)
(* put on the RX ring, and gives the kernel another to receive into.        *)
ReceptionGoesOn ==
    /\ Receives /\ rx # <<>> ~> (rx = <<>> \/ wpc = "done")
    /\ Receives ~> (RingFilled(fill, FillSize) > 0 \/ wpc = "done")

(* "stop after this many" (worker.h:42), "until ... max_packets is reached" *)
(* (worker.h:68): a transmitting worker with a limit gets there.            *)
LimitEndsLoop == (MaxPackets > 0 /\ Transmits) ~> (wpc = "done")

(* "The caller must ensure the TX ring and completion ring are serviced"    *)
(* (xsk.h:108-110): while the worker runs, a queued descriptor is           *)
(* eventually taken by the kernel.                                          *)
TxServiced ==
    \A c \in 0 .. Wrap(TxSize) - 1 :
        (tx.cons = c /\ RingFilled(tx, TxSize) > 0) ~> (tx.cons # c \/ wpc = "done")

(* An ECHO worker will "receive, then transmit back" (worker.h:26): it      *)
(* sends nothing it has not received.                                       *)
EchoAnswersOnly == role = "ECHO" => tx_packets <= rx_packets
=============================================================================
