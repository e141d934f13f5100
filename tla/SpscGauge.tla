----------------------------- MODULE SpscGauge ------------------------------
(***************************************************************************)
(* rewsr_spsc_count running beside the producer and the consumer.  It loads *)
(* tail, then head, in two steps; the ring moves in between.  The call is   *)
(* made by the producer thread or by the consumer thread (which then does   *)
(* nothing else meanwhile) or by a third thread, the gauge of the header.   *)
(***************************************************************************)
EXTENDS SpscRing

CONSTANT Callers   \* the threads that call rewsr_spsc_count

ASSUME CallersAssumption == Callers \subseteq {"producer", "consumer", "other"}

VARIABLES
    caller,   \* the thread inside rewsr_spsc_count, or "none"
    gtail,    \* the tail it loaded
    count,    \* the value the last call returned
    seen      \* the live counts the ring has gone through during that call

gaugeVars == <<caller, gtail, count, seen>>
allVars == <<vars, gaugeVars>>

GaugeTypeOK ==
    /\ TypeOK
    /\ caller \in Callers \cup {"none"}
    /\ gtail \in Index
    /\ count \in Index
    /\ seen \subseteq Index

GaugeInit ==
    /\ Init
    /\ caller = "none"
    /\ gtail = 0
    /\ count = 0
    /\ seen = {0}

\* A thread is in one function at a time.
Free(c) ==
    /\ c = "producer" => ppc = "idle"
    /\ c = "consumer" => cpc = "idle"

CountLoadTail(c) ==
    /\ caller = "none"
    /\ Free(c)
    /\ caller' = c
    /\ gtail' = tail
    /\ seen' = {Live}
    /\ UNCHANGED <<vars, count>>

\* Mutation of CountLoadHead: the operands swapped
CountLoadHeadSwapped ==
    /\ caller # "none"
    /\ count' = Dist(head, gtail)
    /\ caller' = "none"
    /\ UNCHANGED <<vars, gtail, seen>>

CountLoadHead ==
    /\ caller # "none"
    /\ count' = Dist(gtail, head)
    /\ caller' = "none"
    /\ UNCHANGED <<vars, gtail, seen>>

\* The ring moves; the history notes the live count the step leads to.
Noted ==
    /\ seen' = IF caller = "none" THEN seen ELSE seen \cup {Live'}
    /\ UNCHANGED <<caller, gtail, count>>

ProducerStep == caller # "producer" /\ Produce /\ Noted
ConsumerStep == caller # "consumer" /\ Consume /\ Noted

GaugeNext ==
    \/ \E c \in Callers : CountLoadTail(c)
    \/ CountLoadHead
    \/ ProducerStep
    \/ ConsumerStep

GaugeSpec == GaugeInit /\ [][GaugeNext]_allVars

\* Both threads poll: a caller that got 0 calls again, and the scheduler does
\* not stop a thread for ever.  A thread that asks for the count now and then
\* still gets to its own loop, hence strong fairness.
GaugeFairSpec ==
    /\ GaugeSpec
    /\ SF_allVars(ProducerStep)
    /\ SF_allVars(ConsumerStep)
    /\ WF_allVars(CountLoadHead)

-----------------------------------------------------------------------------
(* What rewsr_spsc_count returned is a number of entries the ring really    *)
(* held at some moment of the call: "otherwise a consistent snapshot        *)
(* suitable for gauges" (spsc_ring.h:50-52).                                *)
CountIsSnapshot == caller = "none" => count \in seen
=============================================================================
