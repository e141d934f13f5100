------------------------------ MODULE UdpBench ------------------------------
(***************************************************************************)
(* The loopback UDP benchmark in its two implementations: the C one          *)
(* (rewsr_udp_bench_run) and its counterpart in Go (BenchmarkUDPLoopback).   *)
(* A latency leg exchanges pings with an echo server that runs beside the    *)
(* client, a throughput leg sends a burst to a sink.  Datagrams are numbers; *)
(* any of them may be lost, every wait may time out, every call may fail.    *)
(***************************************************************************)
EXTENDS Integers, Sequences, FiniteSets

CONSTANTS
    Langs,          \* the implementations, a subset of {"C", "Go"}
    Sizes,          \* the ping_count and burst_packets a caller may ask for
    DefaultSize,    \* 200 pings and 2000 packets in the code
    Room            \* datagrams a socket buffer holds

ASSUME BenchAssumption ==
    /\ Langs \subseteq {"C", "Go"}
    /\ Sizes \subseteq Int
    /\ DefaultSize \in Nat \ {0} /\ Room \in Nat \ {0}

VARIABLES
    lang, pings, burst,        \* which implementation runs, ping_count, burst_packets
    pc, rc,                    \* the client: where it is, what it returns
    held,                      \* descriptors and memory the benchmark holds
    echo, taken, stop,         \* the echo server, its datagram, its stop flag
    inbox, replies,            \* receive queues of the echo server and the client
    ping, samples, skipped,    \* the ping under way, the samples, the pings given up
    sent, sink,                \* burst: sent, waiting at the sink,
    dropped, overflowed,       \* lost on the way, lost to a full receive buffer
    count, counter, channel, lost  \* the sink's count, Go's counting goroutine and
                               \* its channel, the loss reported

echoVars == <<echo, taken, inbox>>
latencyVars == <<ping, samples, skipped>>
burstVars == <<sent, sink, dropped, overflowed, count, counter, channel, lost>>
callVars == <<lang, pings, burst>>
benchVars == <<callVars, pc, rc, held, stop, replies, echoVars, latencyVars, burstVars>>

None == -1
Return(code) == pc' = "returned" /\ rc' = code

\* A datagram reaches a queue with room, or is lost.
Delivered(queue, m) == {queue} \cup (IF Len(queue) < Room THEN {Append(queue, m)} ELSE {})

\* A size that is not positive means the default.
Sized(n) == IF n <= 0 THEN DefaultSize ELSE n

BenchInit(l, start, n) ==
    /\ lang = l /\ pings = Sized(n) /\ burst = Sized(n)
    /\ pc = start /\ rc = 0
    /\ held = {}
    /\ echo = "none" /\ taken = None /\ stop = FALSE
    /\ inbox = <<>> /\ replies = <<>>
    /\ ping = 0 /\ samples = <<>> /\ skipped = {}
    /\ sent = 0 /\ sink = 0 /\ dropped = 0 /\ overflowed = 0
    /\ count = 0 /\ counter = "none" /\ channel = None /\ lost = 0

-----------------------------------------------------------------------------
(* The echo server: a thread in C, a goroutine in Go.  Its 100 ms receive    *)
(* timeout lets it look at the stop flag again.                              *)

EchoCheck ==
    /\ echo = "check"
    /\ echo' = IF stop THEN "done" ELSE "recv"
    /\ UNCHANGED <<callVars, pc, rc, held, taken, stop, inbox, replies, latencyVars, burstVars>>

EchoReceive ==
    /\ echo = "recv" /\ "echo_fd" \in held /\ inbox # <<>>
    /\ taken' = Head(inbox) /\ inbox' = Tail(inbox)
    /\ echo' = "send"
    /\ UNCHANGED <<callVars, pc, rc, held, stop, replies, latencyVars, burstVars>>

\* Mutation of EchoTimeout: the receive blocks for ever
EchoTimeoutNever == FALSE /\ UNCHANGED benchVars

\* Nothing arrived in time or, in Go, the deadline passed first or the socket
\* has been closed.
EchoTimeout ==
    /\ echo = "recv"
    /\ lang = "C" => inbox = <<>>
    /\ echo' = "check"
    /\ UNCHANGED <<callVars, pc, rc, held, taken, stop, inbox, replies, latencyVars, burstVars>>

EchoSend ==
    /\ echo = "send"
    /\ replies' \in IF {"echo_fd", "fd"} \subseteq held
                    THEN Delivered(replies, taken) ELSE {replies}
    /\ echo' = "check" /\ taken' = None
    /\ UNCHANGED <<callVars, pc, rc, held, stop, inbox, latencyVars, burstVars>>

Echo == EchoCheck \/ EchoReceive \/ EchoTimeout \/ EchoSend

-----------------------------------------------------------------------------
(* The ping loop, the same in both.  A sample remembers which ping it is for *)
(* and which echo ended it.                                                  *)

SendPing ==
    /\ pc = "send" /\ ping < pings
    /\ inbox' \in Delivered(inbox, ping)
    /\ pc' = "recv"
    /\ UNCHANGED <<callVars, rc, held, echo, taken, stop, replies, latencyVars, burstVars>>

ReceiveEcho ==
    /\ pc = "recv" /\ replies # <<>>
    /\ samples' = Append(samples, [ping |-> ping, echo |-> Head(replies)])
    /\ replies' = Tail(replies)
    /\ ping' = ping + 1
    /\ pc' = "send"
    /\ UNCHANGED <<callVars, rc, held, echoVars, stop, skipped, burstVars>>

\* Mutation of PingTimeout: the ping is repeated instead of skipped
PingTimeoutRepeats ==
    /\ pc = "recv"
    /\ lang = "C" => replies = <<>>
    /\ pc' = "send"
    /\ UNCHANGED <<callVars, rc, held, echoVars, stop, replies, latencyVars, burstVars>>

\* Go's deadline runs from before the write and wins over a waiting datagram.
PingTimeout ==
    /\ pc = "recv"
    /\ lang = "C" => replies = <<>>
    /\ skipped' = skipped \cup {ping}
    /\ ping' = ping + 1
    /\ pc' = "send"
    /\ UNCHANGED <<callVars, rc, held, echoVars, stop, replies, samples, burstVars>>

-----------------------------------------------------------------------------
(* rewsr_udp_bench_latency                                                   *)

OpenEcho ==
    /\ lang = "C" /\ pc = "open_echo"
    /\ \/ Return(-1) /\ UNCHANGED held
       \/ pc' = "spawn" /\ held' = {"echo_fd"} /\ UNCHANGED rc
    /\ UNCHANGED <<callVars, stop, replies, echoVars, latencyVars, burstVars>>

SpawnEcho ==
    /\ pc = "spawn"
    /\ \/ Return(-2) /\ held' = {} /\ UNCHANGED echo
       \/ pc' = "open_client" /\ echo' = "check" /\ UNCHANGED <<rc, held>>
    /\ UNCHANGED <<callVars, stop, taken, inbox, replies, latencyVars, burstVars>>

\* Mutation of OpenClient: the failure path returns without joining
OpenClientNoJoin ==
    /\ pc = "open_client"
    /\ \/ Return(-3) /\ stop' = TRUE /\ held' = held \ {"echo_fd"}
       \/ pc' = "alloc_samples" /\ held' = held \cup {"fd"} /\ UNCHANGED <<rc, stop>>
    /\ UNCHANGED <<callVars, replies, echoVars, latencyVars, burstVars>>

\* arg.stop = 1 and pthread_join
OpenClient ==
    /\ pc = "open_client"
    /\ \/ pc' = "join" /\ rc' = -3 /\ stop' = TRUE /\ UNCHANGED held
       \/ pc' = "alloc_samples" /\ held' = held \cup {"fd"} /\ UNCHANGED <<rc, stop>>
    /\ UNCHANGED <<callVars, replies, echoVars, latencyVars, burstVars>>

AllocSamples ==
    /\ pc = "alloc_samples"
    /\ \/ pc' = "join" /\ rc' = -4 /\ stop' = TRUE /\ held' = held \ {"fd"}
       \/ pc' = "send" /\ held' = held \cup {"samples"} /\ UNCHANGED <<rc, stop>>
    /\ UNCHANGED <<callVars, replies, echoVars, latencyVars, burstVars>>

\* sendto failed: no sample, on to the next ping
SendPingFails ==
    /\ lang = "C" /\ pc = "send" /\ ping < pings
    /\ ping' = ping + 1
    /\ UNCHANGED <<callVars, pc, rc, held, stop, replies, echoVars, samples, skipped, burstVars>>

EndPings ==
    /\ lang = "C" /\ pc = "send" /\ ping = pings
    /\ held' = held \ {"fd"} /\ stop' = TRUE
    /\ pc' = "join"
    /\ UNCHANGED <<callVars, rc, replies, echoVars, latencyVars, burstVars>>

\* Mutation of JoinEcho: the socket is closed without waiting for the thread
JoinEchoNoWait ==
    /\ pc = "join"
    /\ held' = held \ {"echo_fd", "samples"}
    /\ IF rc = 0 /\ samples = <<>> THEN Return(-5)
       ELSE pc' = (IF rc = 0 THEN "open_sink" ELSE "returned") /\ UNCHANGED rc
    /\ UNCHANGED <<callVars, stop, replies, echoVars, latencyVars, burstVars>>

\* pthread_join returns; the statistics are computed from what was collected.
JoinEcho ==
    /\ pc = "join" /\ echo = "done"
    /\ held' = held \ {"echo_fd", "samples"}
    /\ IF rc = 0 /\ samples = <<>> THEN Return(-5)
       ELSE pc' = (IF rc = 0 THEN "open_sink" ELSE "returned") /\ UNCHANGED rc
    /\ UNCHANGED <<callVars, stop, replies, echoVars, latencyVars, burstVars>>

Latency ==
    \/ OpenEcho \/ SpawnEcho \/ OpenClient \/ AllocSamples
    \/ SendPingFails \/ EndPings \/ JoinEcho

-----------------------------------------------------------------------------
(* rewsr_udp_bench_throughput                                                *)

\* Each call in turn, with what it acquires, and what a failure returns.
ThroughputSetup ==
    [open_sink |-> [gets |-> "sink_fd", fails |-> -1, next |-> "open_sender"],
     open_sender |-> [gets |-> "fd", fails |-> -2, next |-> "alloc_payload"],
     alloc_payload |-> [gets |-> "payload", fails |-> -3, next |-> "burst"]]

SetUpThroughput ==
    /\ lang = "C" /\ pc \in DOMAIN ThroughputSetup
    /\ LET s == ThroughputSetup[pc]
       IN  \/ Return(s.fails) /\ held' = {}
           \/ pc' = s.next /\ held' = held \cup {s.gets} /\ UNCHANGED rc
    /\ UNCHANGED <<callVars, stop, replies, echoVars, latencyVars, burstVars>>

\* The buffer holds Room packets however large a SO_RCVBUF was asked for: the kernel
\* caps the request and the result of setsockopt is not looked at.
SendPacket ==
    /\ pc = "burst" /\ sent < burst
    /\ sent' = sent + 1
    /\ \/ sink < Room /\ sink' = sink + 1 /\ UNCHANGED <<dropped, overflowed>>
       \/ dropped' = dropped + 1 /\ UNCHANGED <<sink, overflowed>>
       \/ sink = Room /\ overflowed' = overflowed + 1 /\ UNCHANGED <<sink, dropped>>
    /\ UNCHANGED <<callVars, pc, rc, held, stop, replies, echoVars, latencyVars, count, counter,
                   channel, lost>>

\* The burst is complete, or a send failed.
EndBurst ==
    /\ pc = "burst"
    /\ pc' = IF lang = "C" THEN "drain" ELSE "await"
    /\ UNCHANGED <<callVars, rc, held, stop, replies, echoVars, latencyVars, burstVars>>

DrainPacket ==
    /\ pc = "drain" /\ count < sent /\ sink > 0
    /\ sink' = sink - 1 /\ count' = count + 1
    /\ UNCHANGED <<callVars, pc, rc, held, stop, replies, echoVars, latencyVars, sent, dropped,
                   overflowed, counter, channel, lost>>

\* Mutation of EndDrain: one packet is left behind
EndDrainEarly ==
    /\ pc = "drain" /\ (count >= sent - 1 \/ sink = 0)
    /\ held' = {} /\ lost' = sent - count
    /\ Return(0)
    /\ UNCHANGED <<callVars, stop, replies, echoVars, latencyVars, sent, sink, dropped,
                   overflowed, count, counter, channel>>

\* Everything has come or 200 ms pass with nothing to receive.
EndDrain ==
    /\ pc = "drain" /\ (count = sent \/ sink = 0)
    /\ held' = {} /\ lost' = sent - count
    /\ Return(0)
    /\ UNCHANGED <<callVars, stop, replies, echoVars, latencyVars, sent, sink, dropped,
                   overflowed, count, counter, channel>>

Throughput == SetUpThroughput \/ DrainPacket \/ EndDrain

-----------------------------------------------------------------------------
(* measureLatency, with its deferred conn.Close and stop.  A return does not *)
(* wait for the goroutine.                                                   *)

startEchoServer ==
    /\ lang = "Go" /\ pc = "open_echo"
    /\ \/ Return(1) /\ UNCHANGED <<held, echo>>
       \/ pc' = "dial" /\ held' = {"echo_fd"} /\ echo' = "check" /\ UNCHANGED rc
    /\ UNCHANGED <<callVars, stop, taken, inbox, replies, latencyVars, burstVars>>

dialEcho ==
    /\ pc = "dial"
    /\ \/ Return(1) /\ stop' = TRUE /\ held' = {}
       \/ pc' = "send" /\ held' = held \cup {"fd"} /\ UNCHANGED <<rc, stop>>
    /\ UNCHANGED <<callVars, replies, echoVars, latencyVars, burstVars>>

\* A write or SetDeadline error ends the measurement, unlike in C.
measureLatencyFails ==
    /\ lang = "Go" /\ pc = "send" /\ ping < pings
    /\ Return(1) /\ stop' = TRUE /\ held' = {}
    /\ UNCHANGED <<callVars, replies, echoVars, latencyVars, burstVars>>

\* Mutation of measureLatencyReturns: the server is not told to stop
measureLatencyReturnsRunning ==
    /\ lang = "Go" /\ pc = "send" /\ ping = pings
    /\ held' = {} /\ UNCHANGED stop
    /\ IF samples = <<>> THEN Return(2) ELSE pc' = "listen_sink" /\ UNCHANGED rc
    /\ UNCHANGED <<callVars, replies, echoVars, latencyVars, burstVars>>

measureLatencyReturns ==
    /\ lang = "Go" /\ pc = "send" /\ ping = pings
    /\ held' = {} /\ stop' = TRUE
    /\ IF samples = <<>> THEN Return(2) ELSE pc' = "listen_sink" /\ UNCHANGED rc
    /\ UNCHANGED <<callVars, replies, echoVars, latencyVars, burstVars>>

measureLatency ==
    startEchoServer \/ dialEcho \/ measureLatencyFails \/ measureLatencyReturns

-----------------------------------------------------------------------------
(* measureThroughput: a goroutine counts while the burst is being sent, for  *)
(* two seconds from its start or until it has seen the whole burst.          *)

listenSink ==
    /\ pc = "listen_sink"
    /\ \/ Return(3) /\ UNCHANGED <<held, counter>>
       \/ pc' = "dial_sink" /\ held' = {"sink_fd"} /\ counter' = "read" /\ UNCHANGED rc
    /\ UNCHANGED <<callVars, stop, replies, echoVars, latencyVars, sent, sink, dropped,
                   overflowed, count, channel, lost>>

\* On failure the deferred sink.Close ends the goroutine's read.
dialSink ==
    /\ pc = "dial_sink"
    /\ \/ Return(3) /\ held' = {}
       \/ pc' = "burst" /\ held' = held \cup {"fd"} /\ UNCHANGED rc
    /\ UNCHANGED <<callVars, stop, replies, echoVars, latencyVars, burstVars>>

CountPacket ==
    /\ counter = "read" /\ "sink_fd" \in held /\ sink > 0
    /\ sink' = sink - 1 /\ count' = count + 1
    /\ counter' = IF count' >= burst THEN "report" ELSE "read"
    /\ UNCHANGED <<callVars, pc, rc, held, stop, replies, echoVars, latencyVars, sent, dropped,
                   overflowed, channel, lost>>

\* The read deadline passes, or the socket is closed.
CountEnds ==
    /\ counter = "read"
    /\ counter' = "report"
    /\ UNCHANGED <<callVars, pc, rc, held, stop, replies, echoVars, latencyVars, sent, sink,
                   dropped, overflowed, count, channel, lost>>

\* Mutation of CountReport: an unbuffered channel needs the client at the other end
CountReportUnbuffered ==
    /\ counter = "report" /\ pc = "await"
    /\ channel' = count
    /\ counter' = "done"
    /\ UNCHANGED <<callVars, pc, rc, held, stop, replies, echoVars, latencyVars, sent, sink,
                   dropped, overflowed, count, lost>>

\* The channel has a buffer of one, so the send never waits.
CountReport ==
    /\ counter = "report"
    /\ channel' = count
    /\ counter' = "done"
    /\ UNCHANGED <<callVars, pc, rc, held, stop, replies, echoVars, latencyVars, sent, sink,
                   dropped, overflowed, count, lost>>

awaitCount ==
    /\ pc = "await" /\ channel # None
    /\ lost' = IF sent - channel < 0 THEN 0 ELSE sent - channel
    /\ held' = {}
    /\ Return(0)
    /\ UNCHANGED <<callVars, stop, replies, echoVars, latencyVars, sent, sink, dropped,
                   overflowed, count, counter, channel>>

measureThroughput == listenSink \/ dialSink \/ awaitCount
Counter == CountPacket \/ CountEnds \/ CountReport

-----------------------------------------------------------------------------
Client ==
    \/ SendPing \/ ReceiveEcho \/ PingTimeout \/ SendPacket \/ EndBurst
    \/ Latency \/ Throughput \/ measureLatency \/ measureThroughput

Init == \E l \in Langs, n \in Sizes : BenchInit(l, "open_echo", n)
Next == Client \/ Echo \/ Counter
Spec == Init /\ [][Next]_benchVars

-----------------------------------------------------------------------------
(* tier0_udp.go:104 "returns one round-trip latency sample ... per ping" and  *)
(* udp_bench.c:131 "dropped ping: skip the sample": a sample is the time from *)
(* a ping to its own echo.                                                    *)
SampleIsOwnEcho == \A k \in DOMAIN samples : samples[k].echo = samples[k].ping

(* What the ping loop does give: no echo is counted twice, none comes before  *)
(* its ping, and a sample is ended by an echo that is at most as many pings   *)
(* too old as pings had been given up before: with no timeout, its own.       *)
OwnEchoUnlessLate ==
    LET sentPings == skipped \cup {samples[k].ping : k \in DOMAIN samples}
    IN  /\ \A j, k \in DOMAIN samples : samples[j].echo = samples[k].echo => j = k
        /\ \A k \in DOMAIN samples :
              LET s == samples[k]
              IN  /\ s.echo <= s.ping
                  /\ Cardinality((s.echo + 1 .. s.ping) \cap sentPings)
                        <= Cardinality({p \in skipped : p < s.ping})

(* Whichever call fails, a return leaves no descriptor open and no memory     *)
(* allocated, and in C no thread that still uses the caller's stack.          *)
NothingLeft ==
    pc = "returned" => held = {} /\ (lang = "C" => echo \in {"none", "done"})

(* The C echo thread never uses the socket after the client has closed it     *)
(* (the number may be another file's by then): pthread_join comes first.      *)
EchoSocketOpen == lang = "C" /\ echo \in {"recv", "send"} => "echo_fd" \in held

(* When the sink's buffer held the burst and Go's was sent to its end, the    *)
(* loss a successful run reports is what the path lost: the C drain does not  *)
(* end with packets still to come.  Go adds what waits at the sink, uncounted,*)
(* when its two seconds are over.  The other cases are the next two.          *)
LossIsReal ==
    pc = "returned" /\ rc = 0 /\ overflowed = 0 /\ (lang = "Go" => sent = burst) =>
        lost = dropped + (IF lang = "Go" THEN sink ELSE 0)

(* tier0_udp.go:186-187 "stop the burst early rather than fail the whole run, *)
(* and count the rest as lost": of the burst, what the sink did not count is  *)
(* lost.                                                                      *)
UnsentIsLost == lang = "Go" /\ pc = "returned" /\ rc = 0 => lost = burst - count

(* udp_bench.c:180-182 "loss reflects the path and not an undersized socket   *)
(* buffer".                                                                   *)
LossIsThePath == lang = "C" /\ pc = "returned" /\ rc = 0 => lost = dropped
=============================================================================
