--------------------------- MODULE SelfTestProofs ---------------------------
(***************************************************************************)
(* Proofs about the self test, for every number of pings and packets, every *)
(* loss, timeout and failing call: of the benchmark, what it leaves behind, *)
(* the loss it reports and whose echo ends a sample; of Preflight, what its *)
(* report says.                                                             *)
(***************************************************************************)
EXTENDS SelfTest, SequenceTheorems, FiniteSetTheorems, TLAPS

-----------------------------------------------------------------------------
(* What the benchmark holds, by place in the client.                        *)

ControlInv ==
    /\ lang \in {"C", "Go"}
    /\ pc \in {"spawn", "open_client", "alloc_samples", "join", "open_sink", "open_sender",
               "alloc_payload", "drain"} => lang = "C"
    /\ pc \in {"dial", "listen_sink", "dial_sink", "await"} => lang = "Go"
    /\ pc \in {"preflight", "open_echo", "open_sink", "listen_sink", "returned"} => held = {}
    /\ pc \in {"spawn", "open_client", "dial"} => held = {"echo_fd"}
    /\ pc = "alloc_samples" => held = {"echo_fd", "fd"}
    /\ pc \in {"send", "recv"} =>
         held = {"echo_fd", "fd"} \cup (IF lang = "C" THEN {"samples"} ELSE {})
    /\ pc = "join" => "echo_fd" \in held /\ held \subseteq {"echo_fd", "samples"}
    /\ lang = "C" /\ pc \notin {"open_client", "alloc_samples", "send", "recv", "join"} =>
         echo \in {"none", "done"}

(* What was sent in the burst is waiting, lost or counted, and the count    *)
(* that reaches the client is final.                                        *)
BurstInv ==
    /\ sent \in Nat /\ sink \in Nat /\ dropped \in Nat /\ overflowed \in Nat /\ count \in Nat
    /\ sent = sink + dropped + overflowed + count
    /\ channel = None \/ (channel = count /\ counter = "done")
    /\ lang = "C" \/ pc \notin {"dial_sink", "burst", "await", "returned"} => counter = "none"
    /\ LossIsReal

(* Both hold before the benchmark starts.                                   *)
LEMMA ControlInit ==
    ASSUME NEW l \in {"C", "Go"}, NEW start \in {"preflight", "open_echo"}, NEW n,
           BenchInit(l, start, n)
    PROVE  ControlInv /\ BurstInv
<1>1. ControlInv
  BY DEF BenchInit, ControlInv
<1>2. BurstInv
  BY DEF BenchInit, BurstInv, LossIsReal, None
<1> QED
  BY <1>1, <1>2

(* The ping loop and the echo server leave what is held alone.              *)
LEMMA PingControl ==
    ASSUME ControlInv, SendPing \/ ReceiveEcho \/ PingTimeout \/ SendPingFails \/ Echo
    PROVE  ControlInv'
<1>1. CASE SendPing \/ ReceiveEcho \/ PingTimeout
  <2>1. /\ lang' = lang /\ held' = held /\ echo' = echo
        /\ pc \in {"send", "recv"} /\ pc' \in {"send", "recv"}
    BY <1>1 DEF SendPing, ReceiveEcho, PingTimeout, callVars, echoVars
  <2> QED
    BY <2>1 DEF ControlInv
<1>2. CASE SendPingFails
  <2>1. lang' = lang /\ held' = held /\ echo' = echo /\ pc' = pc
    BY <1>2 DEF SendPingFails, callVars, echoVars
  <2> QED
    BY <2>1 DEF ControlInv
<1>3. CASE Echo
  <2>1. lang' = lang /\ held' = held /\ pc' = pc /\ echo \in {"check", "recv", "send"}
    BY <1>3 DEF Echo, EchoCheck, EchoReceive, EchoTimeout, EchoSend, callVars
  <2> QED
    BY <2>1 DEF ControlInv
<1> QED
  BY <1>1, <1>2, <1>3

(* Each call of the C benchmark that acquires or releases.                  *)
LEMMA LatencyControl ==
    ASSUME ControlInv,
           OpenEcho \/ SpawnEcho \/ OpenClient \/ AllocSamples \/ EndPings \/ JoinEcho
    PROVE  ControlInv'
<1> USE DEF callVars, echoVars, Return
<1>1. CASE OpenEcho
  BY <1>1 DEF OpenEcho, ControlInv
<1>2. CASE SpawnEcho
  BY <1>2 DEF SpawnEcho, ControlInv
<1>3. CASE OpenClient
  BY <1>3 DEF OpenClient, ControlInv
<1>4. CASE AllocSamples
  BY <1>4 DEF AllocSamples, ControlInv
<1>5. CASE EndPings
  BY <1>5 DEF EndPings, ControlInv
<1>6. CASE JoinEcho
  <2>1. /\ pc = "join" /\ echo = "done" /\ held' = held \ {"echo_fd", "samples"}
        /\ lang' = lang /\ echo' = echo /\ pc' \in {"returned", "open_sink"}
    BY <1>6 DEF JoinEcho
  <2>2. lang = "C" /\ held' = {}
    BY <2>1 DEF ControlInv
  <2> QED
    BY <2>1, <2>2 DEF ControlInv
<1> QED
  BY <1>1, <1>2, <1>3, <1>4, <1>5, <1>6

(* The Go benchmark's latency leg.                                          *)
LEMMA GoLatencyControl ==
    ASSUME ControlInv, measureLatency
    PROVE  ControlInv'
<1> USE DEF callVars, echoVars, Return
<1>1. CASE startEchoServer
  BY <1>1 DEF startEchoServer, ControlInv
<1>2. CASE dialEcho
  BY <1>2 DEF dialEcho, ControlInv
<1>3. CASE measureLatencyFails
  BY <1>3 DEF measureLatencyFails, ControlInv
<1>4. CASE measureLatencyReturns
  BY <1>4 DEF measureLatencyReturns, ControlInv
<1> QED
  BY <1>1, <1>2, <1>3, <1>4 DEF measureLatency

(* The throughput leg of both.                                              *)
LEMMA ThroughputControl ==
    ASSUME ControlInv,
           Throughput \/ measureThroughput \/ SendPacket \/ EndBurst \/ Counter
    PROVE  ControlInv'
<1> USE DEF callVars, echoVars, Return
<1>1. CASE SetUpThroughput
  <2>1. /\ lang = "C" /\ lang' = lang /\ echo' = echo
        /\ pc \in {"open_sink", "open_sender", "alloc_payload"}
        /\ \/ pc' = "returned" /\ held' = {}
           \/ pc' \in {"open_sender", "alloc_payload", "burst"}
    BY <1>1 DEF SetUpThroughput, ThroughputSetup
  <2> QED
    BY <2>1 DEF ControlInv
<1>2. CASE DrainPacket
  BY <1>2 DEF DrainPacket, ControlInv
<1>3. CASE EndDrain
  BY <1>3 DEF EndDrain, ControlInv
<1>4. CASE listenSink
  BY <1>4 DEF listenSink, ControlInv
<1>5. CASE dialSink
  BY <1>5 DEF dialSink, ControlInv
<1>6. CASE awaitCount
  BY <1>6 DEF awaitCount, ControlInv
<1>7. CASE SendPacket
  BY <1>7 DEF SendPacket, ControlInv
<1>8. CASE EndBurst
  BY <1>8 DEF EndBurst, ControlInv
<1>9. CASE Counter
  <2>1. lang' = lang /\ held' = held /\ pc' = pc /\ echo' = echo
    BY <1>9 DEF Counter, CountPacket, CountEnds, CountReport
  <2> QED
    BY <2>1 DEF ControlInv
<1> QED
  BY <1>1, <1>2, <1>3, <1>4, <1>5, <1>6, <1>7, <1>8, <1>9 DEF Throughput, measureThroughput

(* Every step of the benchmark keeps the first invariant.                   *)
LEMMA ControlStep == ControlInv /\ Next => ControlInv'
BY PingControl, LatencyControl, GoLatencyControl, ThroughputControl
   DEF Next, Client, Latency

(* The steps that touch neither the burst nor what is reported of it.       *)
LEMMA BurstUntouched ==
    ASSUME BurstInv, UNCHANGED <<burstVars, lang, burst>>, pc' # "returned" \/ rc' # 0,
           \/ pc \notin {"dial_sink", "burst", "await", "returned"}
           \/ pc' \in {"dial_sink", "burst", "await", "returned"}
           \/ lang = "C"
    PROVE  BurstInv'
BY DEF BurstInv, burstVars, LossIsReal

(* The throughput leg keeps the account of the burst.                       *)
LEMMA BurstStep == ControlInv /\ BurstInv /\ Next => BurstInv'
<1> SUFFICES ASSUME ControlInv, BurstInv, Next PROVE BurstInv'
  OBVIOUS
<1> USE DEF callVars, Return
<1>1. CASE SendPing \/ ReceiveEcho \/ PingTimeout \/ SendPingFails
  BY <1>1, BurstUntouched DEF SendPing, ReceiveEcho, PingTimeout, SendPingFails
<1>2. CASE OpenEcho \/ SpawnEcho \/ OpenClient \/ AllocSamples \/ EndPings
  BY <1>2, BurstUntouched DEF OpenEcho, SpawnEcho, OpenClient, AllocSamples, EndPings
<1>3. CASE JoinEcho
  BY <1>3, BurstUntouched DEF JoinEcho
<1>4. CASE measureLatency
  BY <1>4, BurstUntouched DEF measureLatency, startEchoServer, dialEcho, measureLatencyFails,
                              measureLatencyReturns
<1>5. CASE SetUpThroughput
  <2>1. UNCHANGED <<burstVars, lang, burst>> /\ (pc' # "returned" \/ rc' # 0) /\ lang = "C"
    BY <1>5 DEF SetUpThroughput, ThroughputSetup
  <2> QED
    BY <2>1, BurstUntouched
<1>6. CASE dialSink \/ EndBurst
  BY <1>6, BurstUntouched DEF dialSink, EndBurst
<1>7. CASE Echo
  <2>1. UNCHANGED <<burstVars, lang, burst, pc, rc>>
    BY <1>7 DEF Echo, EchoCheck, EchoReceive, EchoTimeout, EchoSend
  <2> QED
    BY <2>1 DEF BurstInv, burstVars, LossIsReal
<1>8. CASE SendPacket
  BY <1>8 DEF SendPacket, BurstInv, LossIsReal
<1>9. CASE DrainPacket
  BY <1>9 DEF DrainPacket, BurstInv, LossIsReal, ControlInv
<1>10. CASE EndDrain
  BY <1>10 DEF EndDrain, BurstInv, LossIsReal, ControlInv
<1>11. CASE listenSink
  BY <1>11 DEF listenSink, BurstInv, LossIsReal, ControlInv
<1>12. CASE awaitCount
  BY <1>12 DEF awaitCount, BurstInv, LossIsReal, ControlInv, None
<1>13. CASE CountPacket
  BY <1>13 DEF CountPacket, BurstInv, LossIsReal, ControlInv
<1>14. CASE CountEnds \/ CountReport
  BY <1>14 DEF CountEnds, CountReport, BurstInv, LossIsReal
<1> QED
  BY <1>1, <1>2, <1>3, <1>4, <1>5, <1>6, <1>7, <1>8, <1>9, <1>10, <1>11, <1>12, <1>13, <1>14
     DEF Next, Client, Latency, Throughput, measureThroughput, Counter

-----------------------------------------------------------------------------
(* Queues of numbers.                                                       *)

Elems(s) == {s[i] : i \in DOMAIN s}
Ascending(s) == \A i, j \in DOMAIN s : i < j => s[i] < s[j]
Below(A, B) == \A a \in A : \A b \in B : a < b

(* Appending a number to a queue of smaller ones.                           *)
LEMMA Appended ==
    \A s \in Seq(Nat) : \A x \in Nat :
        /\ Append(s, x) \in Seq(Nat)
        /\ Elems(Append(s, x)) = Elems(s) \cup {x}
        /\ Ascending(s) /\ Below(Elems(s), {x}) => Ascending(Append(s, x))
<1> TAKE s \in Seq(Nat), x \in Nat
<1> DEFINE n == Len(s)
           t == Append(s, x)
<1>1. n \in Nat /\ DOMAIN s = 1 .. n
  BY LenProperties
<1>2. /\ t \in Seq(Nat) /\ Len(t) = n + 1 /\ t[n + 1] = x
      /\ \A i \in 1 .. n : t[i] = s[i]
  BY AppendProperties
<1>3. DOMAIN t = 1 .. n + 1
  BY <1>2, LenProperties
<1> HIDE DEF t, n
<1>4. 1 .. n + 1 = (1 .. n) \cup {n + 1}
  BY <1>1
<1>5. Elems(t) = Elems(s) \cup {x}
  BY <1>1, <1>2, <1>3, <1>4 DEF Elems
<1>6. ASSUME Ascending(s), Below(Elems(s), {x}) PROVE Ascending(t)
  <2> SUFFICES ASSUME NEW i \in 1 .. n + 1, NEW j \in 1 .. n + 1, i < j
               PROVE  t[i] < t[j]
    BY <1>3 DEF Ascending
  <2>1. i \in 1 .. n
    BY <1>1
  <2>2. CASE j = n + 1
    <3>1. s[i] \in Elems(s)
      BY <1>1, <2>1 DEF Elems
    <3> QED
      BY <1>2, <1>6, <2>1, <2>2, <3>1 DEF Below
  <2>3. CASE j # n + 1
    <3>1. j \in 1 .. n
      BY <1>1, <2>3
    <3> QED
      BY <1>1, <1>2, <1>6, <2>1, <3>1 DEF Ascending
  <2> QED
    BY <2>2, <2>3
<1> QED
  BY <1>2, <1>5, <1>6 DEF t

(* Taking the first of a queue.                                             *)
LEMMA HeadAndTail ==
    ASSUME NEW s \in Seq(Nat), s # <<>>
    PROVE  /\ Head(s) \in Nat /\ Tail(s) \in Seq(Nat)
           /\ Head(s) \in Elems(s) /\ Elems(Tail(s)) \subseteq Elems(s)
           /\ Ascending(s) => Ascending(Tail(s)) /\ Below({Head(s)}, Elems(Tail(s)))
<1> DEFINE n == Len(s)
           t == Tail(s)
<1>1. n \in Nat /\ DOMAIN s = 1 .. n
  BY LenProperties
<1>2. /\ Head(s) = s[1] /\ Head(s) \in Nat /\ t \in Seq(Nat)
      /\ Len(t) = n - 1 /\ \A i \in 1 .. Len(t) : t[i] = s[i + 1]
  BY HeadTailProperties
<1>3. DOMAIN t = 1 .. n - 1
  BY <1>2, LenProperties
<1>4. n >= 1
  <2>1. n # 0
    BY EmptySeq
  <2> QED
    BY <1>1, <2>1
<1> HIDE DEF t, n
<1>5. \A i \in 1 .. n - 1 : i + 1 \in 1 .. n /\ t[i] = s[i + 1] /\ 1 < i + 1
  BY <1>1, <1>2
<1>6. Head(s) \in Elems(s) /\ 1 \in 1 .. n
  <2>1. 1 \in 1 .. n
    BY <1>1, <1>4
  <2>2. s[1] \in Elems(s)
    BY <1>1, <2>1 DEF Elems
  <2> QED
    BY <1>2, <2>1, <2>2
<1>7. Elems(t) \subseteq Elems(s)
  BY <1>1, <1>3, <1>5 DEF Elems
<1>8. ASSUME Ascending(s) PROVE Ascending(t) /\ Below({Head(s)}, Elems(t))
  <2>0. \A i, j \in 1 .. n : i < j => s[i] < s[j]
    BY <1>1, <1>8 DEF Ascending
  <2>1. Ascending(t)
    <3> SUFFICES ASSUME NEW i \in 1 .. n - 1, NEW j \in 1 .. n - 1, i < j
                 PROVE  t[i] < t[j]
      BY <1>3 DEF Ascending
    <3>1. i + 1 \in 1 .. n /\ j + 1 \in 1 .. n /\ i + 1 < j + 1
      BY <1>1
    <3>2. s[i + 1] < s[j + 1]
      BY <2>0, <3>1
    <3> QED
      BY <1>5, <3>2
  <2>2. Below({Head(s)}, Elems(t))
    <3>1. \A i \in 1 .. n - 1 : s[1] < t[i]
      <4> TAKE i \in 1 .. n - 1
      <4>1. s[1] < s[i + 1]
        BY <1>5, <1>6, <2>0
      <4> QED
        BY <1>5, <4>1
    <3>2. \A b \in Elems(t) : s[1] < b
      BY <1>3, <3>1 DEF Elems
    <3> QED
      BY <1>2, <3>2 DEF Below
  <2> QED
    BY <2>1, <2>2
<1> QED
  BY <1>2, <1>6, <1>7, <1>8 DEF t

(* If as many echoes as pings were counted, and W holds none of the echoes, *)
(* then W holds at most as many numbers as there are pings given up.        *)
LEMMA LateCount ==
    ASSUME NEW Skip, NEW P, NEW E, NEW W,
           IsFiniteSet(Skip), IsFiniteSet(P), IsFiniteSet(E),
           Cardinality(E) = Cardinality(P),
           E \subseteq Skip \cup P, W \subseteq Skip \cup P, W \cap E = {}
    PROVE  Cardinality(W) <= Cardinality(Skip)
<1> DEFINE U == Skip \cup P
<1>1. /\ IsFiniteSet(U)
      /\ Cardinality(U) = Cardinality(Skip) + Cardinality(P) - Cardinality(Skip \cap P)
  BY FS_Union
<1>2. IsFiniteSet(Skip \cap P) /\ IsFiniteSet(W)
  BY <1>1, FS_Intersection, FS_Subset
<1>3. /\ Cardinality(U) \in Nat /\ Cardinality(Skip) \in Nat /\ Cardinality(P) \in Nat
      /\ Cardinality(Skip \cap P) \in Nat /\ Cardinality(W) \in Nat
      /\ Cardinality(E) \in Nat
  BY <1>1, <1>2, FS_CardinalityType
<1>4. ~(Cardinality(W) + Cardinality(E) > Cardinality(U))
  BY <1>1, FS_MajoritiesIntersect
<1> HIDE DEF U
<1> DEFINE u == Cardinality(U)
           k == Cardinality(Skip)
           p == Cardinality(P)
           m == Cardinality(Skip \cap P)
           w == Cardinality(W)
           e == Cardinality(E)
<1>5. /\ u \in Nat /\ k \in Nat /\ p \in Nat /\ m \in Nat /\ w \in Nat /\ e \in Nat
      /\ u = k + p - m /\ ~(w + e > u) /\ e = p
  BY <1>1, <1>3, <1>4
<1> HIDE DEF u, k, p, m, w, e
<1>6. w <= k
  BY <1>5
<1> QED
  BY <1>6 DEF w, k

-----------------------------------------------------------------------------
(* Pings and echoes.                                                        *)

Sampled == {samples[k].ping : k \in DOMAIN samples}
Echoed == {samples[k].echo : k \in DOMAIN samples}
OnTheWay == {taken} \ {None}
SentPings == skipped \cup Sampled \cup (IF pc = "recv" THEN {ping} ELSE {})

(* Numbers, and the sets they form.                                         *)
PingTypes ==
    /\ ping \in Nat
    /\ samples \in Seq([ping : Nat, echo : Nat])
    /\ skipped \subseteq Nat
    /\ inbox \in Seq(Nat) /\ replies \in Seq(Nat) /\ taken \in Nat \cup {None}
    /\ echo = "send" => taken \in Nat
    /\ IsFiniteSet(skipped) /\ IsFiniteSet(Sampled) /\ IsFiniteSet(Echoed)

(* The pings leave in ascending order and pass three queues in that order,  *)
(* so each echo is newer than those counted before it; there are as many    *)
(* pings with a sample as echoes counted.                                   *)
EchoOrder ==
    /\ \A p \in skipped \cup Sampled : p < ping
    /\ Cardinality(Echoed) = Cardinality(Sampled)
    /\ Echoed \subseteq skipped \cup Sampled
    /\ Elems(replies) \cup OnTheWay \cup Elems(inbox) \subseteq SentPings
    /\ Ascending(replies) /\ Ascending(inbox)
    /\ Below(Echoed, Elems(replies)) /\ Below(Echoed, OnTheWay) /\ Below(Echoed, Elems(inbox))
    /\ Below(Elems(replies), OnTheWay) /\ Below(Elems(replies), Elems(inbox))
    /\ Below(OnTheWay, Elems(inbox))

EchoInv == PingTypes /\ EchoOrder /\ OwnEchoUnlessLate

(* No ping has been sent.                                                   *)
LEMMA EchoInit ==
    ASSUME NEW l, NEW start \in {"preflight", "open_echo"}, NEW n, BenchInit(l, start, n)
    PROVE  EchoInv
<1>1. /\ ping = 0 /\ samples = <<>> /\ skipped = {} /\ inbox = <<>> /\ replies = <<>>
      /\ taken = None /\ echo = "none" /\ pc # "recv"
  BY DEF BenchInit
<1>2. /\ Sampled = {} /\ Echoed = {} /\ OnTheWay = {} /\ Elems(replies) = {}
      /\ Elems(inbox) = {}
  BY <1>1 DEF Sampled, Echoed, OnTheWay, Elems
<1>3. PingTypes
  BY <1>1, <1>2, FS_EmptySet, EmptySeq DEF PingTypes
<1>4. EchoOrder
  BY <1>1, <1>2 DEF EchoOrder, Below, Ascending
<1>5. OwnEchoUnlessLate
  BY <1>1 DEF OwnEchoUnlessLate
<1> QED
  BY <1>3, <1>4, <1>5 DEF EchoInv

(* Steps that touch neither a ping nor an echo.                             *)
LEMMA EchoUntouched ==
    ASSUME EchoInv, UNCHANGED <<inbox, replies, taken, latencyVars>>,
           pc = "recv" <=> pc' = "recv", echo' = "send" => echo = "send"
    PROVE  EchoInv'
<1>1. /\ inbox' = inbox /\ replies' = replies /\ taken' = taken /\ ping' = ping
      /\ samples' = samples /\ skipped' = skipped
  BY DEF latencyVars
<1>2. Sampled' = Sampled /\ Echoed' = Echoed /\ OnTheWay' = OnTheWay /\ SentPings' = SentPings
  BY <1>1 DEF Sampled, Echoed, OnTheWay, SentPings
<1>3. PingTypes'
  BY <1>1, <1>2 DEF EchoInv, PingTypes
<1>4. EchoOrder'
  BY <1>1, <1>2 DEF EchoInv, EchoOrder
<1>5. OwnEchoUnlessLate'
  BY <1>1 DEF EchoInv, OwnEchoUnlessLate
<1> QED
  BY <1>3, <1>4, <1>5 DEF EchoInv

(* A ping leaves: it is newer than every ping before it.                    *)
LEMMA SendPingKeeps == EchoInv /\ SendPing => EchoInv'
<1> SUFFICES ASSUME EchoInv, SendPing PROVE EchoInv'
  OBVIOUS
<1>1. /\ pc = "send" /\ pc' = "recv" /\ replies' = replies /\ taken' = taken
      /\ ping' = ping /\ samples' = samples /\ skipped' = skipped /\ echo' = echo
  BY DEF SendPing, latencyVars
<1>2. inbox' = inbox \/ inbox' = Append(inbox, ping)
  BY DEF SendPing, Delivered
<1>3. ping \in Nat /\ inbox \in Seq(Nat)
  BY DEF EchoInv, PingTypes
<1>4. Sampled' = Sampled /\ Echoed' = Echoed /\ OnTheWay' = OnTheWay
  BY <1>1 DEF Sampled, Echoed, OnTheWay
<1>5. SentPings = skipped \cup Sampled /\ SentPings' = skipped \cup Sampled \cup {ping}
  BY <1>1, <1>4 DEF SentPings
<1>6. /\ \A p \in skipped \cup Sampled : p < ping
      /\ Echoed \subseteq skipped \cup Sampled
      /\ Elems(replies) \cup OnTheWay \cup Elems(inbox) \subseteq skipped \cup Sampled
  BY <1>5 DEF EchoInv, EchoOrder
<1>7. /\ inbox' \in Seq(Nat) /\ Elems(inbox') \subseteq Elems(inbox) \cup {ping}
      /\ Ascending(inbox')
  <2>1. Ascending(inbox) /\ Below(Elems(inbox), {ping})
    BY <1>6 DEF EchoInv, EchoOrder, Below
  <2>2. /\ Append(inbox, ping) \in Seq(Nat)
        /\ Elems(Append(inbox, ping)) = Elems(inbox) \cup {ping}
        /\ Ascending(inbox) /\ Below(Elems(inbox), {ping}) => Ascending(Append(inbox, ping))
    BY <1>3, Appended
  <2>3. CASE inbox' = inbox
    BY <1>3, <2>1, <2>3
  <2>4. CASE inbox' = Append(inbox, ping)
    BY <2>1, <2>2, <2>4, Zenon
  <2> QED
    BY <1>2, <2>3, <2>4
<1>8. PingTypes'
  BY <1>1, <1>4, <1>7 DEF EchoInv, PingTypes
<1>9. EchoOrder'
  <2>1. Elems(replies') \cup OnTheWay' \cup Elems(inbox') \subseteq SentPings'
    BY <1>1, <1>4, <1>5, <1>6, <1>7
  <2>2. /\ Below(Echoed, Elems(inbox')) /\ Below(Elems(replies), Elems(inbox'))
        /\ Below(OnTheWay, Elems(inbox'))
    BY <1>6, <1>7 DEF EchoInv, EchoOrder, Below
  <2> QED
    BY <1>1, <1>4, <1>7, <2>1, <2>2 DEF EchoInv, EchoOrder
<1>10. OwnEchoUnlessLate'
  BY <1>1 DEF EchoInv, OwnEchoUnlessLate
<1> QED
  BY <1>8, <1>9, <1>10 DEF EchoInv

(* The echo server takes the oldest ping that waits.                        *)
LEMMA EchoReceiveKeeps == EchoInv /\ EchoReceive => EchoInv'
<1> SUFFICES ASSUME EchoInv, EchoReceive PROVE EchoInv'
  OBVIOUS
<1>1. /\ inbox # <<>> /\ taken' = Head(inbox) /\ inbox' = Tail(inbox) /\ echo' = "send"
      /\ pc' = pc /\ replies' = replies /\ ping' = ping /\ samples' = samples
      /\ skipped' = skipped
  BY DEF EchoReceive, latencyVars
<1>2. /\ inbox' \in Seq(Nat) /\ taken' \in Nat
      /\ taken' \in Elems(inbox) /\ Elems(inbox') \subseteq Elems(inbox)
      /\ Ascending(inbox') /\ Below({taken'}, Elems(inbox'))
  BY <1>1, HeadAndTail DEF EchoInv, PingTypes, EchoOrder
<1>3. Sampled' = Sampled /\ Echoed' = Echoed /\ SentPings' = SentPings
  BY <1>1 DEF Sampled, Echoed, SentPings
<1>4. OnTheWay' \subseteq {taken'}
  BY DEF OnTheWay
<1>5. PingTypes'
  BY <1>1, <1>2, <1>3 DEF EchoInv, PingTypes
<1>6. EchoOrder'
  <2>1. Elems(replies') \cup OnTheWay' \cup Elems(inbox') \subseteq SentPings'
    BY <1>1, <1>2, <1>3, <1>4 DEF EchoInv, EchoOrder
  <2>2. /\ Below(Echoed, OnTheWay') /\ Below(Elems(replies), OnTheWay')
        /\ Below(Echoed, Elems(inbox')) /\ Below(Elems(replies), Elems(inbox'))
        /\ Below(OnTheWay', Elems(inbox'))
    BY <1>2, <1>4 DEF EchoInv, EchoOrder, Below
  <2> QED
    BY <1>1, <1>2, <1>3, <2>1, <2>2 DEF EchoInv, EchoOrder
<1>7. OwnEchoUnlessLate'
  BY <1>1 DEF EchoInv, OwnEchoUnlessLate
<1> QED
  BY <1>5, <1>6, <1>7 DEF EchoInv

(* The echo server answers, or the answer is lost.                          *)
LEMMA EchoSendKeeps == EchoInv /\ EchoSend => EchoInv'
<1> SUFFICES ASSUME EchoInv, EchoSend PROVE EchoInv'
  OBVIOUS
<1>1. /\ echo = "send" /\ echo' = "check" /\ taken' = None /\ inbox' = inbox
      /\ pc' = pc /\ ping' = ping /\ samples' = samples /\ skipped' = skipped
  BY DEF EchoSend, latencyVars
<1>2. replies' = replies \/ replies' = Append(replies, taken)
  BY DEF EchoSend, Delivered
<1>3. taken \in Nat /\ replies \in Seq(Nat) /\ OnTheWay = {taken}
  BY <1>1 DEF EchoInv, PingTypes, OnTheWay, None
<1>4. /\ replies' \in Seq(Nat) /\ Elems(replies') \subseteq Elems(replies) \cup {taken}
      /\ Ascending(replies')
  <2>1. Ascending(replies) /\ Below(Elems(replies), {taken})
    BY <1>3 DEF EchoInv, EchoOrder
  <2>2. /\ Append(replies, taken) \in Seq(Nat)
        /\ Elems(Append(replies, taken)) = Elems(replies) \cup {taken}
        /\ Ascending(replies) /\ Below(Elems(replies), {taken}) => Ascending(Append(replies, taken))
    BY <1>3, Appended
  <2>3. CASE replies' = replies
    BY <1>3, <2>1, <2>3
  <2>4. CASE replies' = Append(replies, taken)
    BY <2>1, <2>2, <2>4, Zenon
  <2> QED
    BY <1>2, <2>3, <2>4
<1>5. Sampled' = Sampled /\ Echoed' = Echoed /\ SentPings' = SentPings /\ OnTheWay' = {}
  BY <1>1 DEF Sampled, Echoed, SentPings, OnTheWay
<1>6. PingTypes'
  BY <1>1, <1>4, <1>5 DEF EchoInv, PingTypes
<1>7. EchoOrder'
  <2>1. Elems(replies') \cup OnTheWay' \cup Elems(inbox') \subseteq SentPings'
    BY <1>1, <1>3, <1>4, <1>5 DEF EchoInv, EchoOrder
  <2>2. Below(Echoed, Elems(replies')) /\ Below(Elems(replies'), Elems(inbox))
    BY <1>3, <1>4 DEF EchoInv, EchoOrder, Below
  <2>3. /\ Below(Echoed, OnTheWay') /\ Below(Elems(replies'), OnTheWay')
        /\ Below(OnTheWay', Elems(inbox))
    BY <1>5 DEF Below
  <2> QED
    BY <1>1, <1>4, <1>5, <2>1, <2>2, <2>3 DEF EchoInv, EchoOrder
<1>8. OwnEchoUnlessLate'
  BY <1>1 DEF EchoInv, OwnEchoUnlessLate
<1> QED
  BY <1>6, <1>7, <1>8 DEF EchoInv

(* What OwnEchoUnlessLate says of one sample.                               *)
SampleBound(sentPings, gaveUp, s) ==
    /\ s.echo <= s.ping
    /\ Cardinality((s.echo + 1 .. s.ping) \cap sentPings)
          <= Cardinality({p \in gaveUp : p < s.ping})

(* A ping newer than a sample does not count for it.                        *)
LEMMA NewerPing ==
    ASSUME NEW A \in SUBSET Nat, NEW q \in Nat, NEW m \in Nat, NEW e \in Nat, m < q
    PROVE  /\ (e + 1 .. m) \cap (A \cup {q}) = (e + 1 .. m) \cap A
           /\ {p \in A \cup {q} : p < m} = {p \in A : p < m}
OBVIOUS

(* The samples and the sets they form.                                      *)
LEMMA SampleSets ==
    ASSUME EchoInv
    PROVE  /\ Len(samples) \in Nat /\ DOMAIN samples = 1 .. Len(samples)
           /\ Sampled \subseteq Nat /\ Echoed \subseteq Nat
           /\ \A k \in DOMAIN samples :
                /\ samples[k].ping \in Nat /\ samples[k].echo \in Nat
                /\ samples[k].ping \in Sampled /\ samples[k].echo \in Echoed
                /\ samples[k].ping < ping
<1>1. samples \in Seq([ping : Nat, echo : Nat])
  BY DEF EchoInv, PingTypes
<1>2. Len(samples) \in Nat /\ DOMAIN samples = 1 .. Len(samples)
  BY <1>1, LenProperties
<1>3. \A k \in DOMAIN samples : samples[k] \in [ping : Nat, echo : Nat]
  BY <1>1, <1>2, ElementOfSeq
<1>4. \A k \in DOMAIN samples : samples[k].ping \in Nat /\ samples[k].echo \in Nat
  BY <1>3
<1>5. \A k \in DOMAIN samples :
        samples[k].ping \in Sampled /\ samples[k].echo \in Echoed
  BY DEF Sampled, Echoed
<1>6. Sampled \subseteq Nat /\ Echoed \subseteq Nat
  BY <1>4 DEF Sampled, Echoed
<1>7. \A p \in Sampled : p < ping
  BY DEF EchoInv, EchoOrder
<1> QED
  BY <1>2, <1>4, <1>5, <1>6, <1>7

(* No echo in time: the ping joins those given up.                          *)
LEMMA PingTimeoutKeeps == EchoInv /\ PingTimeout => EchoInv'
<1> SUFFICES ASSUME EchoInv, PingTimeout PROVE EchoInv'
  OBVIOUS
<1>1. /\ pc = "recv" /\ pc' = "send" /\ skipped' = skipped \cup {ping} /\ ping' = ping + 1
      /\ replies' = replies /\ taken' = taken /\ inbox' = inbox /\ echo' = echo
      /\ samples' = samples
  BY DEF PingTimeout, echoVars
<1>2. /\ ping \in Nat /\ skipped \subseteq Nat /\ IsFiniteSet(skipped)
      /\ \A p \in skipped \cup Sampled : p < ping
  BY DEF EchoInv, PingTypes, EchoOrder
<1>3. Sampled' = Sampled /\ Echoed' = Echoed /\ OnTheWay' = OnTheWay
  BY <1>1 DEF Sampled, Echoed, OnTheWay
<1>4. SentPings' = SentPings
  BY <1>1, <1>3 DEF SentPings
<1>5. IsFiniteSet(skipped') /\ ping' \in Nat /\ skipped' \subseteq Nat
  BY <1>1, <1>2, FS_AddElement
<1>6. PingTypes'
  BY <1>1, <1>3, <1>5 DEF EchoInv, PingTypes
<1>7. EchoOrder'
  <2>1. \A p \in skipped' \cup Sampled' : p < ping'
    <3>1. \A p \in skipped \cup Sampled : p < ping + 1
      BY <1>2, SampleSets
    <3>2. ping < ping + 1
      BY <1>2
    <3> QED
      BY <1>1, <1>3, <3>1, <3>2
  <2>2. Echoed' \subseteq skipped' \cup Sampled'
    BY <1>1, <1>3 DEF EchoInv, EchoOrder
  <2> QED
    BY <1>1, <1>3, <1>4, <2>1, <2>2 DEF EchoInv, EchoOrder
<1>8. OwnEchoUnlessLate'
  <2>1. \A j, k \in DOMAIN samples : samples[j].echo = samples[k].echo => j = k
    BY DEF EchoInv, OwnEchoUnlessLate
  <2>2. ASSUME NEW k \in DOMAIN samples
        PROVE  SampleBound(skipped' \cup Sampled, skipped', samples[k])
    <3> DEFINE m == samples[k].ping
               e == samples[k].echo
               A == skipped \cup Sampled
    <3>1. m \in Nat /\ e \in Nat /\ m < ping /\ A \in SUBSET Nat
      BY <1>2, SampleSets
    <3>2. /\ e <= m
          /\ Cardinality((e + 1 .. m) \cap A) <= Cardinality({p \in skipped : p < m})
      BY DEF EchoInv, OwnEchoUnlessLate, Sampled
    <3>3. skipped' \cup Sampled = A \cup {ping}
      BY <1>1
    <3> HIDE DEF m, e, A
    <3>4. (e + 1 .. m) \cap (skipped' \cup Sampled) = (e + 1 .. m) \cap A
      BY <1>2, <3>1, <3>3, NewerPing
    <3>5. {p \in skipped' : p < m} = {p \in skipped : p < m}
      BY <1>1, <1>2, <3>1, NewerPing
    <3> QED
      BY <3>2, <3>4, <3>5 DEF SampleBound, m, e
  <2>3. \A k \in DOMAIN samples' : SampleBound(skipped' \cup Sampled', skipped', samples'[k])
    BY <1>1, <1>3, <2>2
  <2> QED
    BY <1>1, <2>1, <2>3 DEF OwnEchoUnlessLate, Sampled, SampleBound
<1> QED
  BY <1>6, <1>7, <1>8 DEF EchoInv

(* sendto failed: the ping is neither sent nor given up.                    *)
LEMMA SendPingFailsKeeps == EchoInv /\ SendPingFails => EchoInv'
<1> SUFFICES ASSUME EchoInv, SendPingFails PROVE EchoInv'
  OBVIOUS
<1>1. /\ pc = "send" /\ pc' = pc /\ ping' = ping + 1 /\ skipped' = skipped
      /\ replies' = replies /\ taken' = taken /\ inbox' = inbox /\ echo' = echo
      /\ samples' = samples
  BY DEF SendPingFails, echoVars
<1>2. ping \in Nat /\ skipped \subseteq Nat /\ \A p \in skipped \cup Sampled : p < ping
  BY DEF EchoInv, PingTypes, EchoOrder
<1>3. Sampled' = Sampled /\ Echoed' = Echoed /\ OnTheWay' = OnTheWay
  BY <1>1 DEF Sampled, Echoed, OnTheWay
<1>4. SentPings' = SentPings
  BY <1>1, <1>3 DEF SentPings
<1>5. ping' \in Nat /\ \A p \in skipped \cup Sampled : p < ping'
  BY <1>1, <1>2, SampleSets
<1>6. PingTypes'
  BY <1>1, <1>3, <1>5 DEF EchoInv, PingTypes
<1>7. EchoOrder'
  BY <1>1, <1>3, <1>4, <1>5 DEF EchoInv, EchoOrder
<1>8. OwnEchoUnlessLate'
  BY <1>1 DEF EchoInv, OwnEchoUnlessLate
<1> QED
  BY <1>6, <1>7, <1>8 DEF EchoInv

(* One more sample: the sets grow by its ping and by its echo, and the      *)
(* samples before it stand.                                                 *)
LEMMA OneMoreSample ==
    ASSUME EchoInv, NEW e \in Nat, e \notin Echoed,
           samples' = Append(samples, [ping |-> ping, echo |-> e])
    PROVE  /\ samples' \in Seq([ping : Nat, echo : Nat])
           /\ Sampled' = Sampled \cup {ping} /\ Echoed' = Echoed \cup {e}
           /\ DOMAIN samples' = DOMAIN samples \cup {Len(samples) + 1}
           /\ \A k \in DOMAIN samples : samples'[k] = samples[k]
           /\ samples'[Len(samples) + 1] = [ping |-> ping, echo |-> e]
           /\ \A j, k \in DOMAIN samples' : samples'[j].echo = samples'[k].echo => j = k
<1> DEFINE R == [ping : Nat, echo : Nat]
           x == [ping |-> ping, echo |-> e]
           n == Len(samples)
<1>1. samples \in Seq(R) /\ x \in R
  BY DEF EchoInv, PingTypes
<1>2. n \in Nat /\ DOMAIN samples = 1 .. n
  BY SampleSets
<1>3. /\ samples' \in Seq(R) /\ Len(samples') = n + 1
      /\ \A k \in 1 .. n : samples'[k] = samples[k]
      /\ samples'[n + 1] = x
  <2> HIDE DEF R, x
  <2>1. samples' = Append(samples, x)
    BY DEF x
  <2> QED
    BY <1>1, <2>1, AppendProperties
<1>4. DOMAIN samples' = 1 .. n + 1
  BY <1>3, LenProperties
<1>5. x.ping = ping /\ x.echo = e
  OBVIOUS
<1> HIDE DEF R, x, n
<1>6. DOMAIN samples' = DOMAIN samples \cup {n + 1} /\ n + 1 \notin DOMAIN samples
  BY <1>2, <1>4
<1>7. /\ samples'[n + 1].ping = ping /\ samples'[n + 1].echo = e
      /\ \A k \in DOMAIN samples : samples'[k] = samples[k]
  BY <1>2, <1>3, <1>5
<1>8. Sampled' = Sampled \cup {ping}
  BY <1>6, <1>7 DEF Sampled
<1>9. Echoed' = Echoed \cup {e}
  BY <1>6, <1>7 DEF Echoed
<1>10. \A j, k \in DOMAIN samples' : samples'[j].echo = samples'[k].echo => j = k
  <2>1. \A j, k \in DOMAIN samples : samples[j].echo = samples[k].echo => j = k
    BY DEF EchoInv, OwnEchoUnlessLate
  <2>2. \A k \in DOMAIN samples : samples[k].echo # e
    BY SampleSets
  <2> QED
    BY <1>6, <1>7, <2>1, <2>2
<1> QED
  BY <1>3, <1>6, <1>7, <1>8, <1>9, <1>10 DEF R, x, n

(* An echo ends the ping under way, and is newer than all counted before.   *)
LEMMA ReceiveEchoKeeps == EchoInv /\ ReceiveEcho => EchoInv'
<1> SUFFICES ASSUME EchoInv, ReceiveEcho PROVE EchoInv'
  OBVIOUS
<1> DEFINE e == Head(replies)
           n == Len(samples)
<1>1. /\ pc = "recv" /\ pc' = "send" /\ skipped' = skipped /\ ping' = ping + 1
      /\ replies # <<>> /\ replies' = Tail(replies) /\ taken' = taken /\ inbox' = inbox
      /\ echo' = echo /\ samples' = Append(samples, [ping |-> ping, echo |-> e])
  BY DEF ReceiveEcho, echoVars
<1>2. /\ ping \in Nat /\ skipped \subseteq Nat /\ Sampled \subseteq Nat /\ Echoed \subseteq Nat
      /\ IsFiniteSet(skipped) /\ IsFiniteSet(Sampled) /\ IsFiniteSet(Echoed)
      /\ \A p \in skipped \cup Sampled : p < ping
  BY SampleSets DEF EchoInv, PingTypes, EchoOrder
<1>3. /\ e \in Nat /\ replies' \in Seq(Nat) /\ e \in Elems(replies)
      /\ Elems(replies') \subseteq Elems(replies)
      /\ Ascending(replies') /\ Below({e}, Elems(replies'))
  BY <1>1, HeadAndTail DEF EchoInv, PingTypes, EchoOrder
<1> HIDE DEF e
<1>4. \A x \in Echoed : x < e
  BY <1>3 DEF EchoInv, EchoOrder, Below
<1>5. e \notin Echoed
  BY <1>3, <1>4
<1>6. /\ samples' \in Seq([ping : Nat, echo : Nat])
      /\ Sampled' = Sampled \cup {ping} /\ Echoed' = Echoed \cup {e}
      /\ DOMAIN samples' = DOMAIN samples \cup {n + 1}
      /\ \A k \in DOMAIN samples : samples'[k] = samples[k]
      /\ samples'[n + 1] = [ping |-> ping, echo |-> e]
      /\ \A j, k \in DOMAIN samples' : samples'[j].echo = samples'[k].echo => j = k
  BY <1>1, <1>3, <1>5, OneMoreSample
<1> HIDE DEF n
<1>7. OnTheWay' = OnTheWay /\ SentPings' = SentPings /\ SentPings = skipped \cup Sampled \cup {ping}
  BY <1>1, <1>6 DEF OnTheWay, SentPings
<1>8. e \in skipped \cup Sampled \cup {ping} /\ e <= ping
  <2>1. e \in skipped \cup Sampled \cup {ping}
    BY <1>3, <1>7 DEF EchoInv, EchoOrder
  <2> QED
    BY <1>2, <1>3, <2>1
<1>9. /\ IsFiniteSet(Sampled') /\ Cardinality(Sampled') = Cardinality(Sampled) + 1
      /\ IsFiniteSet(Echoed') /\ Cardinality(Echoed') = Cardinality(Echoed) + 1
  <2>1. ping \notin Sampled
    BY <1>2
  <2> QED
    BY <1>2, <1>5, <1>6, <2>1, FS_AddElement
<1>10. Cardinality(Echoed') = Cardinality(Sampled')
  BY <1>9 DEF EchoInv, EchoOrder
<1>11. Echoed' \subseteq skipped \cup Sampled'
  BY <1>6, <1>8 DEF EchoInv, EchoOrder
<1>12. PingTypes'
  <2>1. ping' \in Nat
    BY <1>1, <1>2
  <2> QED
    BY <1>1, <1>3, <1>6, <1>9, <2>1 DEF EchoInv, PingTypes
<1>13. EchoOrder'
  <2>1. \A p \in skipped' \cup Sampled' : p < ping'
    <3>1. \A p \in skipped \cup Sampled : p < ping + 1
      BY <1>2
    <3>2. ping < ping + 1
      BY <1>2
    <3> QED
      BY <1>1, <1>6, <3>1, <3>2
  <2>2. Elems(replies') \cup OnTheWay' \cup Elems(inbox') \subseteq SentPings'
    BY <1>1, <1>3, <1>7 DEF EchoInv, EchoOrder
  <2>3. /\ Below(Echoed', Elems(replies')) /\ Below(Echoed', OnTheWay)
        /\ Below(Echoed', Elems(inbox))
        /\ Below(Elems(replies'), OnTheWay) /\ Below(Elems(replies'), Elems(inbox))
    BY <1>3, <1>6 DEF EchoInv, EchoOrder, Below
  <2>4. Ascending(inbox) /\ Below(OnTheWay, Elems(inbox))
    BY DEF EchoInv, EchoOrder
  <2> QED
    BY <1>1, <1>3, <1>7, <1>10, <1>11, <2>1, <2>2, <2>3, <2>4 DEF EchoOrder
<1>14. OwnEchoUnlessLate'
  <2>1. ASSUME NEW k \in DOMAIN samples
        PROVE  SampleBound(skipped \cup Sampled', skipped, samples'[k])
    <3> DEFINE m == samples[k].ping
               f == samples[k].echo
               A == skipped \cup Sampled
    <3>1. m \in Nat /\ f \in Nat /\ m < ping /\ A \in SUBSET Nat
      BY <1>2, SampleSets
    <3>2. /\ f <= m
          /\ Cardinality((f + 1 .. m) \cap A) <= Cardinality({p \in skipped : p < m})
      BY DEF EchoInv, OwnEchoUnlessLate, Sampled
    <3>3. skipped \cup Sampled' = A \cup {ping} /\ samples'[k] = samples[k]
      BY <1>6
    <3> HIDE DEF m, f, A
    <3>4. (f + 1 .. m) \cap (skipped \cup Sampled') = (f + 1 .. m) \cap A
      BY <1>2, <3>1, <3>3, NewerPing
    <3> QED
      BY <3>2, <3>3, <3>4 DEF SampleBound, m, f
  <2>2. SampleBound(skipped \cup Sampled', skipped, [ping |-> ping, echo |-> e])
    <3> DEFINE W == (e + 1 .. ping) \cap (skipped \cup Sampled')
    <3>1. W \cap Echoed' = {}
      BY <1>2, <1>3, <1>4, <1>6
    <3>2. W \subseteq skipped \cup Sampled'
      OBVIOUS
    <3>3. {p \in skipped : p < ping} = skipped
      BY <1>2
    <3> HIDE DEF W
    <3>4. Cardinality(W) <= Cardinality(skipped)
      BY <1>2, <1>9, <1>10, <1>11, <3>1, <3>2, LateCount
    <3> QED
      BY <1>8, <3>3, <3>4 DEF SampleBound, W
  <2>3. \A k \in DOMAIN samples' : SampleBound(skipped' \cup Sampled', skipped', samples'[k])
    BY <1>1, <1>6, <2>1, <2>2
  <2> QED
    BY <1>6, <2>3 DEF OwnEchoUnlessLate, Sampled, SampleBound
<1> QED
  BY <1>12, <1>13, <1>14 DEF EchoInv

(* Every step of the benchmark keeps the order of pings and echoes.         *)
LEMMA EchoStep == EchoInv /\ Next => EchoInv'
<1> SUFFICES ASSUME EchoInv, Next PROVE EchoInv'
  OBVIOUS
<1> USE DEF callVars, echoVars, Return
<1>1. CASE SendPing \/ ReceiveEcho \/ PingTimeout \/ SendPingFails \/ EchoReceive \/ EchoSend
  BY <1>1, SendPingKeeps, ReceiveEchoKeeps, PingTimeoutKeeps, SendPingFailsKeeps,
     EchoReceiveKeeps, EchoSendKeeps
<1>2. CASE EchoCheck \/ EchoTimeout
  BY <1>2, EchoUntouched DEF EchoCheck, EchoTimeout
<1>3. CASE OpenEcho \/ SpawnEcho \/ OpenClient \/ AllocSamples \/ EndPings \/ JoinEcho
  BY <1>3, EchoUntouched DEF OpenEcho, SpawnEcho, OpenClient, AllocSamples, EndPings, JoinEcho
<1>4. CASE measureLatency
  BY <1>4, EchoUntouched DEF measureLatency, startEchoServer, dialEcho, measureLatencyFails,
                             measureLatencyReturns
<1>5. CASE SetUpThroughput
  <2>1. /\ UNCHANGED <<inbox, replies, taken, latencyVars, echo>>
        /\ pc \in {"open_sink", "open_sender", "alloc_payload"}
        /\ pc' \in {"returned", "open_sender", "alloc_payload", "burst"}
    BY <1>5 DEF SetUpThroughput, ThroughputSetup
  <2> QED
    BY <2>1, EchoUntouched
<1>6. CASE DrainPacket \/ EndDrain \/ SendPacket \/ EndBurst
  BY <1>6, EchoUntouched DEF DrainPacket, EndDrain, SendPacket, EndBurst
<1>7. CASE measureThroughput
  BY <1>7, EchoUntouched DEF measureThroughput, listenSink, dialSink, awaitCount
<1>8. CASE Counter
  BY <1>8, EchoUntouched DEF Counter, CountPacket, CountEnds, CountReport
<1> QED
  BY <1>1, <1>2, <1>3, <1>4, <1>5, <1>6, <1>7, <1>8
     DEF Next, Client, Latency, Throughput, Echo

-----------------------------------------------------------------------------
(* The benchmark inside the self test.                                      *)

BenchInv == ControlInv /\ BurstInv /\ EchoInv

(* A step of the ladder or of the caller leaves the benchmark alone.        *)
LEMMA BenchUntouched == BenchInv /\ UNCHANGED benchVars => BenchInv'
<1> SUFFICES ASSUME BenchInv, UNCHANGED benchVars PROVE BenchInv'
  OBVIOUS
<1>1. /\ UNCHANGED <<lang, burst, pc, rc, held, echo>>
      /\ UNCHANGED <<burstVars, inbox, replies, taken, latencyVars>>
  BY DEF benchVars, callVars, echoVars
<1>2. ControlInv'
  BY <1>1 DEF BenchInv, ControlInv
<1>3. BurstInv'
  BY <1>1 DEF BenchInv, BurstInv, burstVars, LossIsReal
<1>4. EchoInv'
  BY <1>1, EchoUntouched DEF BenchInv
<1> QED
  BY <1>2, <1>3, <1>4 DEF BenchInv

(* BenchmarkUDPLoopback is called after Preflight has returned.             *)
LEMMA StartKeeps == BenchInv /\ StartBenchmark => BenchInv'
<1> SUFFICES ASSUME BenchInv, StartBenchmark PROVE BenchInv'
  OBVIOUS
<1>1. /\ UNCHANGED <<lang, burst, rc, held, echo>>
      /\ UNCHANGED <<burstVars, inbox, replies, taken, latencyVars>>
      /\ pc = "preflight" /\ pc' = "open_echo"
  BY DEF StartBenchmark, echoVars
<1>2. ControlInv'
  BY <1>1 DEF BenchInv, ControlInv
<1>3. BurstInv'
  BY <1>1 DEF BenchInv, BurstInv, burstVars, LossIsReal
<1>4. EchoInv'
  BY <1>1, EchoUntouched DEF BenchInv
<1> QED
  BY <1>2, <1>3, <1>4 DEF BenchInv

(* The benchmark's inductive invariant holds throughout the self test, and  *)
(* when the benchmark runs alone.                                           *)
THEOREM BenchSafe == SelfTestSpec => []BenchInv
<1>1. SelfTestInit => BenchInv
  <2>1. Init => \E l \in {"C", "Go"}, n \in Sizes : BenchInit(l, "open_echo", n)
    BY BenchAssumption DEF Init
  <2>2. ASSUME NEW l \in {"C", "Go"}, NEW start \in {"preflight", "open_echo"}, NEW n,
               BenchInit(l, start, n)
        PROVE  BenchInv
    BY <2>2, ControlInit, EchoInit DEF BenchInv
  <2> QED
    BY <2>1, <2>2 DEF SelfTestInit
<1>2. BenchInv /\ [SelfTestNext]_selfTestVars => BenchInv'
  <2>1. BenchInv /\ Next => BenchInv'
    BY ControlStep, BurstStep, EchoStep DEF BenchInv
  <2>2. Client \/ Echo \/ Counter => Next
    BY DEF Next
  <2>3. RunPreflight \/ RecordOutcome => UNCHANGED benchVars
    BY DEF RunPreflight, RecordOutcome
  <2>4. UNCHANGED selfTestVars => UNCHANGED benchVars
    BY DEF selfTestVars
  <2> QED
    BY <2>1, <2>2, <2>3, <2>4, BenchUntouched, StartKeeps DEF SelfTestNext, Main
<1> QED
  BY <1>1, <1>2, PTL DEF SelfTestSpec

(* Whichever call of the benchmark fails, its return leaves no descriptor,  *)
(* no memory and, in C, no thread behind.                                   *)
THEOREM LeavesNothing == SelfTestSpec => []NothingLeft
<1>1. BenchInv => NothingLeft
  BY DEF BenchInv, ControlInv, NothingLeft
<1> QED
  BY BenchSafe, <1>1, PTL

(* The C echo thread uses its socket only while it is open: every path      *)
(* joins the thread before the close.                                       *)
THEOREM EchoOnOpenSocket == SelfTestSpec => []EchoSocketOpen
<1>1. BenchInv => EchoSocketOpen
  BY DEF BenchInv, ControlInv, EchoSocketOpen
<1> QED
  BY BenchSafe, <1>1, PTL

(* The loss a successful run reports is what the path lost, for every burst *)
(* that the buffer held and Go sent to its end.                             *)
THEOREM LossCorrect == SelfTestSpec => []LossIsReal
<1>1. BenchInv => LossIsReal
  BY DEF BenchInv, BurstInv
<1> QED
  BY BenchSafe, <1>1, PTL

(* No echo is counted twice or before its ping, and a sample's echo is at   *)
(* most as many pings too old as pings had been given up, for every number  *)
(* of pings and every pattern of losses and timeouts.                       *)
THEOREM EchoBound == SelfTestSpec => []OwnEchoUnlessLate
<1>1. BenchInv => OwnEchoUnlessLate
  BY DEF BenchInv, EchoInv
<1> QED
  BY BenchSafe, <1>1, PTL

-----------------------------------------------------------------------------
(* Preflight.                                                               *)

TierRecords ==
    [pier : {"tier2-privileged", "tier1-afxdp", "tier0-udp"}, detected : BOOLEAN,
     deficits : SUBSET (CapNames \cup {"any of", "memlock unread", "memlock", "root"})]

(* The number of tiers audited, by place in Preflight.                      *)
Audited == IF asked = -1 THEN 0 ELSE IF asked = 4 THEN 3 ELSE asked

(* What the process lacks for a tier.                                       *)
Gaps(t) ==
    LET req == TierRequirementsTable[t]
    IN  IF Trivial(req) THEN {} ELSE Deficit(caps.effective, limits, req)

(* The tiers audited are the first of the ladder; the last one is always    *)
(* detected; and on a steady host each was detected as it would be now.     *)
TiersInv ==
    /\ asked \in -1 .. 4
    /\ tiers \in Seq(TierRecords) /\ Len(tiers) = Audited
    /\ \A i \in 1 .. Audited :
         /\ tiers[i].pier = Tiers[i] /\ tiers[i].deficits = Gaps(Tiers[i])
         /\ i = 3 => tiers[i].detected
         /\ steady => tiers[i].detected = Detect(host, Tiers[i])
    /\ ~caps.supported => caps.effective = {}

(* The first tier detected is the selected one.                             *)
SelectedInv ==
    /\ report = [selected |-> report.selected, skips |-> report.skips]
    /\ IF report.selected = ""
       THEN \A i \in 1 .. Audited : ~tiers[i].detected
       ELSE \E i \in 1 .. Audited :
              /\ report.selected = Tiers[i] /\ tiers[i].detected
              /\ \A j \in 1 .. i - 1 : ~tiers[j].detected

LadderInv == TiersInv /\ SelectedInv /\ ReportConsistent

(* The ladder has three tiers, all different.                               *)
LEMMA TierFacts ==
    /\ Len(Tiers) = 3 /\ DOMAIN Tiers = 1 .. 3
    /\ \A i \in 1 .. 3 : Tiers[i] \in {"tier2-privileged", "tier1-afxdp", "tier0-udp"}
    /\ \A i \in 1 .. 3 : Tiers[i] # ""
    /\ \A i, j \in 1 .. 3 : Tiers[i] = Tiers[j] => i = j
    /\ Tiers[1] = "tier2-privileged" /\ Tiers[2] = "tier1-afxdp" /\ Tiers[3] = "tier0-udp"
<1>1. /\ Len(Tiers) = 3 /\ DOMAIN Tiers = 1 .. 3
      /\ Tiers[1] = "tier2-privileged" /\ Tiers[2] = "tier1-afxdp" /\ Tiers[3] = "tier0-udp"
  BY DEF Tiers
<1>2. \A i \in 1 .. 3 : i = 1 \/ i = 2 \/ i = 3
  OBVIOUS
<1> QED
  BY <1>1, <1>2

(* The two fields of a report, one replaced.                                *)
LEMMA ReportExcept ==
    \A a, b, c :
        /\ [[selected |-> a, skips |-> b] EXCEPT !.selected = c] = [selected |-> c, skips |-> b]
        /\ [[selected |-> a, skips |-> b] EXCEPT !.skips = c] = [selected |-> a, skips |-> c]
OBVIOUS

(* What a detection and a deficit are.                                      *)
LEMMA AuditTypes ==
    ASSUME NEW h, NEW t \in {"tier2-privileged", "tier1-afxdp", "tier0-udp"}
    PROVE  /\ Detect(h, t) \in BOOLEAN
           /\ t = "tier0-udp" => Detect(h, t)
           /\ Gaps(t) \in SUBSET (CapNames \cup {"any of", "memlock unread", "memlock", "root"})
<1>1. Detect(h, t) \in BOOLEAN /\ (t = "tier0-udp" => Detect(h, t))
  BY DEF Detect, rdma_probe, kernelSupportsAFXDP, afxdp_probe
<1>2. TierRequirementsTable[t].capabilities \subseteq CapNames
  BY DEF TierRequirementsTable, CapNames
<1>3. Gaps(t) \in SUBSET (CapNames \cup {"any of", "memlock unread", "memlock", "root"})
  BY <1>2 DEF Gaps, Deficit
<1> QED
  BY <1>1, <1>3

(* Before its last step Preflight has not returned.                         *)
LEMMA NotDone ==
    ASSUME asked' \in 0 .. 3
    PROVE  ~PreflightDone'
<1>1. PreflightDone' <=> asked' > 3
  BY TierFacts, Zenon DEF PreflightDone
<1>2. \A a \in 0 .. 3 : ~(a > 3)
  OBVIOUS
<1> QED
  BY <1>1, <1>2

(* The report is empty at first.                                            *)
LEMMA LadderStarts == LadderInit => LadderInv
<1> SUFFICES ASSUME LadderInit PROVE LadderInv
  OBVIOUS
<1>1. /\ asked = -1 /\ caps = Unread /\ tiers = <<>> /\ report = NoReport
  BY DEF LadderInit
<1>2. TiersInv
  BY <1>1 DEF TiersInv, Audited, Unread
<1>3. SelectedInv
  <2>1. report.selected = "" /\ report = [selected |-> report.selected, skips |-> report.skips]
    BY <1>1 DEF NoReport
  <2>2. \A i \in 1 .. Audited : FALSE
    BY <1>1 DEF Audited
  <2> QED
    BY <2>1, <2>2 DEF SelectedInv
<1>4. ReportConsistent
  <2>1. ~PreflightDone
    <3>1. ~(-1 > 3)
      OBVIOUS
    <3>2. asked = -1 /\ Len(Tiers) = 3
      BY <1>1, TierFacts
    <3> QED
      BY <3>1, <3>2 DEF PreflightDone
  <2> QED
    BY <2>1 DEF ReportConsistent
<1> QED
  BY <1>2, <1>3, <1>4 DEF LadderInv

(* The capabilities are all read, or none is taken as read.                 *)
LEMMA ReadKeeps == LadderInv /\ ReadPrivileges => LadderInv'
<1> SUFFICES ASSUME LadderInv, ReadPrivileges PROVE LadderInv'
  OBVIOUS
<1>1. /\ asked = -1 /\ asked' = 0 /\ tiers' = tiers /\ report' = report
      /\ \E n \in StatusFiles : caps' = ParseStatusCaps(Status(n))
  BY DEF ReadPrivileges
<1>2. Audited = 0 /\ Audited' = 0
  BY <1>1 DEF Audited
<1>3. \A i \in 1 .. 0 : FALSE
  OBVIOUS
<1>4. ~caps'.supported => caps'.effective = {}
  <2>1. PICK n \in StatusFiles : caps' = ParseStatusCaps(Status(n))
    BY <1>1
  <2> DEFINE m == LastMask(Status(n), "CapEff")
  <2>2. caps' = [supported |-> TRUE, effective |-> m] \/ caps' = Unread
    BY <2>1 DEF ParseStatusCaps
  <2> HIDE DEF m
  <2> QED
    BY <2>2 DEF Unread
<1>5. TiersInv'
  <2>1. asked' \in -1 .. 4 /\ tiers' \in Seq(TierRecords) /\ Len(tiers') = Audited'
    BY <1>1, <1>2 DEF LadderInv, TiersInv
  <2> QED
    BY <1>2, <1>3, <1>4, <2>1 DEF TiersInv
<1>6. SelectedInv'
  BY <1>1, <1>2 DEF LadderInv, SelectedInv
<1>7. ReportConsistent'
  <2>1. ~PreflightDone'
    <3>1. asked' \in 0 .. 3
      BY <1>1
    <3> QED
      BY <3>1, NotDone
  <2> QED
    BY <2>1 DEF ReportConsistent
<1> QED
  BY <1>5, <1>6, <1>7 DEF LadderInv

(* Another mount or device: only what depends on a steady host is let go.   *)
LEMMA HostKeeps == LadderInv /\ HostChanges => LadderInv'
<1> SUFFICES ASSUME LadderInv, HostChanges PROVE LadderInv'
  OBVIOUS
<1>1. /\ asked' = asked /\ caps' = caps /\ limits' = limits /\ tiers' = tiers
      /\ report' = report /\ steady' = FALSE
  BY DEF HostChanges
<1>2. Audited' = Audited /\ \A t : Gaps(t)' = Gaps(t)
  BY <1>1 DEF Audited, Gaps
<1>3. TiersInv'
  BY <1>1, <1>2 DEF LadderInv, TiersInv, Gaps
<1>4. SelectedInv'
  BY <1>1, <1>2 DEF LadderInv, SelectedInv
<1>5. ReportConsistent'
  BY <1>1 DEF LadderInv, ReportConsistent, PreflightDone
<1> QED
  BY <1>3, <1>4, <1>5 DEF LadderInv

(* One tier more.                                                           *)
LEMMA AuditKeeps == LadderInv /\ AuditTier => LadderInv'
<1> SUFFICES ASSUME LadderInv, AuditTier PROVE LadderInv'
  OBVIOUS
<1> DEFINE t == Tiers[asked + 1]
           d == Detect(host, t)
           x == [pier |-> t, detected |-> d, deficits |-> Gaps(t)]
           n == asked
<1>0. /\ asked \in 0 .. Len(Tiers) - 1 /\ asked' = asked + 1 /\ tiers' = Append(tiers, x)
      /\ host' = host /\ caps' = caps /\ limits' = limits /\ steady' = steady
      /\ report.selected = "" /\ d => report' = [report EXCEPT !.selected = t]
      /\ ~(report.selected = "" /\ d) => report' = report
  BY Zenon DEF AuditTier, Gaps
<1>1. /\ n \in 0 .. 2 /\ asked' = n + 1 /\ tiers' = Append(tiers, x)
      /\ host' = host /\ caps' = caps /\ limits' = limits /\ steady' = steady
  <2>1. 3 - 1 = 2
    OBVIOUS
  <2> QED
    BY <1>0, <2>1, TierFacts, Zenon
<1>2. Audited = n /\ Audited' = n + 1 /\ n + 1 \in 1 .. 3
  BY <1>1 DEF Audited
<1>3. t = Tiers[n + 1] /\ t \in {"tier2-privileged", "tier1-afxdp", "tier0-udp"}
  BY <1>2, TierFacts
<1>4. d \in BOOLEAN /\ (n + 1 = 3 => d) /\ x \in TierRecords
  <2> HIDE DEF t
  <2>1. d \in BOOLEAN /\ (t = "tier0-udp" => d)
    BY <1>3, AuditTypes
  <2>2. Gaps(t) \in SUBSET (CapNames \cup {"any of", "memlock unread", "memlock", "root"})
    BY <1>3, AuditTypes
  <2>3. n + 1 = 3 => t = "tier0-udp"
    BY <1>3, TierFacts
  <2> HIDE DEF d
  <2> QED
    BY <1>3, <2>1, <2>2, <2>3 DEF TierRecords
<1>5. x.pier = t /\ x.detected = d /\ x.deficits = Gaps(t)
  OBVIOUS
<1>6. d = Detect(host, Tiers[n + 1])
  OBVIOUS
<1> HIDE DEF x, d, t, n
<1>7. /\ tiers' \in Seq(TierRecords) /\ Len(tiers') = n + 1
      /\ \A i \in 1 .. n : tiers'[i] = tiers[i]
      /\ tiers'[n + 1] = x
  <2>1. tiers \in Seq(TierRecords) /\ Len(tiers) = n
    BY <1>2 DEF LadderInv, TiersInv
  <2> QED
    BY <1>1, <1>4, <2>1, AppendProperties
<1>8. \A i \in 1 .. n + 1 : i \in 1 .. n \/ i = n + 1
  BY <1>1
<1>9. \A u : Gaps(u)' = Gaps(u)
  BY <1>1 DEF Gaps
<1>10. \A i \in 1 .. n :
         /\ tiers[i].pier = Tiers[i] /\ tiers[i].deficits = Gaps(Tiers[i])
         /\ i = 3 => tiers[i].detected
         /\ steady => tiers[i].detected = Detect(host, Tiers[i])
  BY <1>2 DEF LadderInv, TiersInv
<1>11. TiersInv'
  <2>1. ASSUME NEW i \in 1 .. n + 1
        PROVE  /\ tiers'[i].pier = Tiers[i] /\ tiers'[i].deficits = Gaps(Tiers[i])
               /\ i = 3 => tiers'[i].detected
               /\ steady => tiers'[i].detected = Detect(host, Tiers[i])
    <3>1. CASE i \in 1 .. n
      BY <1>7, <1>10, <3>1
    <3>2. CASE i = n + 1
      BY <1>3, <1>4, <1>5, <1>6, <1>7, <3>2
    <3> QED
      BY <1>8, <3>1, <3>2
  <2>2. asked' \in -1 .. 4
    BY <1>1
  <2>3. ~caps.supported => caps.effective = {}
    BY DEF LadderInv, TiersInv
  <2>4. \A u : Detect(host, u)' = Detect(host, u)
    BY <1>1 DEF Detect, rdma_probe, kernelSupportsAFXDP, afxdp_probe
  <2> QED
    BY <1>1, <1>2, <1>7, <1>9, <2>1, <2>2, <2>3, <2>4 DEF TiersInv
<1>12. SelectedInv'
  <2>0. report = [selected |-> report.selected, skips |-> report.skips]
    BY DEF LadderInv, SelectedInv
  <2>1. CASE report.selected = "" /\ d
    <3>1. /\ report'.selected = t
          /\ report' = [selected |-> report'.selected, skips |-> report'.skips]
      <4>1. report' = [selected |-> t, skips |-> report.skips]
        BY <1>0, <2>0, <2>1, ReportExcept, Zenon
      <4> QED
        BY <4>1
    <3>2. \A i \in 1 .. n : ~tiers'[i].detected
      BY <1>2, <1>7, <2>1 DEF LadderInv, SelectedInv
    <3>3. (n + 1) - 1 = n /\ n + 1 \in 1 .. n + 1
      BY <1>1
    <3>4. tiers'[n + 1].detected /\ t = Tiers[n + 1] /\ t # ""
      BY <1>2, <1>3, <1>5, <1>7, <2>1, TierFacts
    <3>5. \A j \in 1 .. (n + 1) - 1 : ~tiers'[j].detected
      BY <3>2, <3>3
    <3>6. \E i \in 1 .. n + 1 :
            /\ report'.selected = Tiers[i] /\ tiers'[i].detected
            /\ \A j \in 1 .. i - 1 : ~tiers'[j].detected
      <4>1. n + 1 \in 1 .. n + 1
        BY <3>3
      <4>2. report'.selected = Tiers[n + 1]
        BY <3>1, <3>4
      <4>3. tiers'[n + 1].detected
        BY <3>4
      <4> WITNESS n + 1 \in 1 .. n + 1
      <4> QED
        BY <3>5, <4>2, <4>3
    <3>7. report'.selected # ""
      BY <3>1, <3>4
    <3> QED
      BY <1>2, <3>1, <3>6, <3>7, Zenon DEF SelectedInv
  <2>2. CASE report.selected = "" /\ ~d
    <3>1. report' = report
      BY <1>0, <2>2
    <3>2. \A i \in 1 .. n + 1 : ~tiers'[i].detected
      BY <1>2, <1>5, <1>7, <1>8, <2>2 DEF LadderInv, SelectedInv
    <3> QED
      BY <1>2, <2>0, <2>2, <3>1, <3>2 DEF SelectedInv
  <2>3. CASE report.selected # ""
    <3>1. report' = report
      BY <1>0, <2>3
    <3>2. PICK i \in 1 .. n : /\ report.selected = Tiers[i] /\ tiers[i].detected
                              /\ \A j \in 1 .. i - 1 : ~tiers[j].detected
      BY <1>2, <2>3 DEF LadderInv, SelectedInv
    <3>3. i \in 1 .. n + 1 /\ \A j \in 1 .. i - 1 : j \in 1 .. n
      BY <1>1
    <3>4. tiers'[i].detected /\ \A j \in 1 .. i - 1 : ~tiers'[j].detected
      BY <1>7, <3>2, <3>3
    <3> QED
      BY <1>2, <2>0, <2>3, <3>1, <3>2, <3>3, <3>4 DEF SelectedInv
  <2> QED
    BY <1>4, <2>1, <2>2, <2>3
<1>13. ReportConsistent'
  <2>1. ~PreflightDone'
    <3>1. asked' \in 0 .. 3
      BY <1>1
    <3> QED
      BY <3>1, NotDone
  <2> QED
    BY <2>1 DEF ReportConsistent
<1> QED
  BY <1>11, <1>12, <1>13 DEF LadderInv

(* The second loop stops at the selected tier, so it lists those above it.  *)
LEMMA ReturnKeeps == LadderInv /\ ReturnReport => LadderInv'
<1> SUFFICES ASSUME LadderInv, ReturnReport PROVE LadderInv'
  OBVIOUS
<1>0. /\ asked = Len(Tiers) /\ report' = [report EXCEPT !.skips = Skips]
      /\ asked' = asked + 1 /\ tiers' = tiers
      /\ host' = host /\ caps' = caps /\ limits' = limits /\ steady' = steady
  BY Zenon DEF ReturnReport
<1>1. asked = 3 /\ asked' = 4
  <2>1. 3 + 1 = 4
    OBVIOUS
  <2> QED
    BY <1>0, <2>1, TierFacts, Zenon
<1>2. Audited = 3 /\ Audited' = 3
  BY <1>1 DEF Audited
<1>3. report = [selected |-> report.selected, skips |-> report.skips]
  BY DEF LadderInv, SelectedInv
<1>4. report' = [selected |-> report.selected, skips |-> Skips]
  BY <1>0, <1>3, ReportExcept, Zenon
<1>5. /\ report'.selected = report.selected /\ report'.skips = Skips
      /\ report' = [selected |-> report'.selected, skips |-> report'.skips]
  BY <1>4
<1>6. /\ DOMAIN tiers = 1 .. 3 /\ tiers[3].detected
      /\ \A i \in 1 .. 3 : tiers[i].pier = Tiers[i]
  <2>1. tiers \in Seq(TierRecords) /\ Len(tiers) = 3
    BY <1>2 DEF LadderInv, TiersInv
  <2>2. DOMAIN tiers = 1 .. 3
    BY <2>1, LenProperties
  <2>3. 3 \in 1 .. 3
    OBVIOUS
  <2> QED
    BY <1>2, <2>2, <2>3 DEF LadderInv, TiersInv
<1>7. PICK i \in 1 .. 3 : /\ report.selected = Tiers[i] /\ tiers[i].detected
                          /\ \A j \in 1 .. i - 1 : ~tiers[j].detected
  <2>1. report.selected # ""
    <3>1. 3 \in 1 .. 3
      OBVIOUS
    <3> QED
      BY <1>2, <1>6, <3>1 DEF LadderInv, SelectedInv
  <2> QED
    BY <1>2, <2>1 DEF LadderInv, SelectedInv
<1>8. Skips = [j \in 1 .. i - 1 |-> tiers[j].pier]
  <2> DEFINE before == {k \in DOMAIN tiers :
                          \A j \in 1 .. k : tiers[j].pier # report.selected}
  <2>1. \A k \in 1 .. 3 : tiers[k].pier = report.selected <=> k = i
    <3> TAKE k \in 1 .. 3
    <3>1. Tiers[k] = Tiers[i] => k = i
      BY TierFacts
    <3> QED
      BY <1>6, <1>7, <3>1
  <2>2. before = {k \in 1 .. 3 : \A j \in 1 .. k : j # i}
    <3>1. \A k \in 1 .. 3 : \A j \in 1 .. k : j \in 1 .. 3
      OBVIOUS
    <3> QED
      BY <1>6, <2>1, <3>1
  <2>3. {k \in 1 .. 3 : \A j \in 1 .. k : j # i} = 1 .. i - 1
    <3>1. \A k \in 1 .. 3 : (\A j \in 1 .. k : j # i) <=> k < i
      OBVIOUS
    <3> QED
      BY <3>1
  <2>4. Cardinality(1 .. i - 1) = i - 1
    <3>1. i - 1 \in Int /\ 1 \in Int /\ (1 > i - 1 => i - 1 = 0) /\ i - 1 - 1 + 1 = i - 1
      OBVIOUS
    <3> QED
      BY <3>1, FS_Interval
  <2>5. Cardinality(before) = i - 1
    BY <2>2, <2>3, <2>4
  <2>6. Skips = [j \in 1 .. Cardinality(before) |-> tiers[j].pier]
    BY DEF Skips
  <2> HIDE DEF before
  <2> QED
    BY <2>5, <2>6
<1>9. ReportConsistent'
  BY <1>0, <1>5, <1>6, <1>7, <1>8 DEF ReportConsistent
<1>10. TiersInv'
  <2>1. asked' \in -1 .. 4
    BY <1>1
  <2>2. \A u : Gaps(u)' = Gaps(u)
    BY <1>0 DEF Gaps
  <2>3. /\ tiers \in Seq(TierRecords) /\ Len(tiers) = 3
        /\ \A k \in 1 .. 3 :
             /\ tiers[k].pier = Tiers[k] /\ tiers[k].deficits = Gaps(Tiers[k])
             /\ k = 3 => tiers[k].detected
             /\ steady => tiers[k].detected = Detect(host, Tiers[k])
        /\ ~caps.supported => caps.effective = {}
    BY <1>2 DEF LadderInv, TiersInv
  <2> QED
    BY <1>0, <1>2, <2>1, <2>2, <2>3 DEF TiersInv
<1>11. SelectedInv'
  BY <1>0, <1>2, <1>5 DEF LadderInv, SelectedInv
<1> QED
  BY <1>9, <1>10, <1>11 DEF LadderInv

(* A step of the benchmark leaves the ladder alone.                         *)
LEMMA LadderUntouched == LadderInv /\ UNCHANGED ladderVars => LadderInv'
<1> SUFFICES ASSUME LadderInv, UNCHANGED ladderVars PROVE LadderInv'
  OBVIOUS
<1>1. /\ asked' = asked /\ caps' = caps /\ limits' = limits /\ tiers' = tiers
      /\ report' = report /\ steady' = steady /\ host' = host
  BY DEF ladderVars
<1>2. Audited' = Audited /\ \A u : Gaps(u)' = Gaps(u)
  BY <1>1 DEF Audited, Gaps
<1>3. TiersInv'
  BY <1>1, <1>2 DEF LadderInv, TiersInv
<1>4. SelectedInv'
  BY <1>1, <1>2 DEF LadderInv, SelectedInv
<1>5. ReportConsistent'
  BY <1>1 DEF LadderInv, ReportConsistent, PreflightDone
<1> QED
  BY <1>3, <1>4, <1>5 DEF LadderInv

(* Preflight's inductive invariant holds throughout the self test.          *)
THEOREM LadderSafe == SelfTestSpec => []LadderInv
<1>1. SelfTestInit => LadderInv
  BY LadderStarts DEF SelfTestInit
<1>2. LadderInv /\ [SelfTestNext]_selfTestVars => LadderInv'
  <2>1. LadderInv /\ Preflight => LadderInv'
    BY ReadKeeps, AuditKeeps, ReturnKeeps DEF Preflight
  <2>2. RunPreflight => Preflight
    BY DEF RunPreflight
  <2>3. StartBenchmark \/ RecordOutcome => UNCHANGED ladderVars
    BY DEF StartBenchmark, RecordOutcome
  <2>4. UNCHANGED selfTestVars => UNCHANGED ladderVars
    BY DEF selfTestVars
  <2> QED
    BY <2>1, <2>2, <2>3, <2>4, HostKeeps, LadderUntouched DEF SelfTestNext, Main
<1> QED
  BY <1>1, <1>2, PTL DEF SelfTestSpec

(* However the host changes while Preflight runs, its report agrees with    *)
(* itself.                                                                  *)
THEOREM ReportAgrees == SelfTestSpec => []ReportConsistent
<1>1. LadderInv => ReportConsistent
  BY DEF LadderInv
<1> QED
  BY LadderSafe, <1>1, PTL

(* On a host that holds still, Preflight selects and skips as Select does.  *)
THEOREM PreflightMirrorsSelect == SelfTestSpec => []MirrorsSelect
<1>1. LadderInv => MirrorsSelect
  <2> SUFFICES ASSUME LadderInv, PreflightDone, steady PROVE report = Select(host)
    BY DEF MirrorsSelect
  <2>1. Audited = 3
    <3>1. asked \in -1 .. 4 /\ asked > 3
      BY TierFacts DEF LadderInv, TiersInv, PreflightDone
    <3> QED
      BY <3>1 DEF Audited
  <2>2. /\ DOMAIN tiers = 1 .. 3
        /\ \A i \in 1 .. 3 : /\ tiers[i].pier = Tiers[i]
                             /\ tiers[i].detected = Detect(host, Tiers[i])
    <3>1. tiers \in Seq(TierRecords) /\ Len(tiers) = 3
      BY <2>1 DEF LadderInv, TiersInv
    <3>2. DOMAIN tiers = 1 .. 3
      BY <3>1, LenProperties
    <3> QED
      BY <2>1, <3>2 DEF LadderInv, TiersInv
  <2>3. PICK i \in 1 .. 3 : /\ report.selected = Tiers[i] /\ tiers[i].detected
                            /\ report.skips = [j \in 1 .. i - 1 |-> tiers[j].pier]
                            /\ \A j \in 1 .. i - 1 : ~tiers[j].detected
    BY <2>2 DEF LadderInv, ReportConsistent
  <2> DEFINE First(k) == Detect(host, Tiers[k]) /\ \A j \in 1 .. k - 1 : ~Detect(host, Tiers[j])
  <2>4. \A j \in 1 .. i - 1 : j \in 1 .. 3
    OBVIOUS
  <2>5. First(i)
    BY <2>2, <2>3, <2>4
  <2>6. \A k \in 1 .. 3 : First(k) => k = i
    <3> SUFFICES ASSUME NEW k \in 1 .. 3, First(k), k # i PROVE FALSE
      OBVIOUS
    <3>1. CASE k < i
      <4>1. k \in 1 .. i - 1
        BY <3>1
      <4> QED
        BY <2>5, <4>1
    <3>2. CASE i < k
      <4>1. i \in 1 .. k - 1
        BY <3>2
      <4> QED
        BY <2>5, <4>1
    <3> QED
      BY <3>1, <3>2
  <2>7. Select(host) = [selected |-> Tiers[i], skips |-> SubSeq(Tiers, 1, i - 1)]
    <3>1. (CHOOSE k \in DOMAIN Tiers : First(k)) = i
      <4> HIDE DEF First
      <4> QED
        BY <2>5, <2>6, TierFacts, Zenon
    <3> QED
      BY <3>1, Zenon DEF Select
  <2>8. SubSeq(Tiers, 1, i - 1) = report.skips
    <3>1. report.skips = [j \in 1 .. i - 1 |-> Tiers[j]]
      BY <2>2, <2>3, <2>4
    <3>2. SubSeq(Tiers, 1, i - 1) = [j \in 1 .. i - 1 |-> Tiers[j]]
      OBVIOUS
    <3> QED
      BY <3>1, <3>2
  <2>9. report = [selected |-> report.selected, skips |-> report.skips]
    BY DEF LadderInv, SelectedInv
  <2> QED
    BY <2>3, <2>7, <2>8, <2>9, Zenon
<1> QED
  BY LadderSafe, <1>1, PTL

(* Capabilities or limits that could not be read show as a deficit of every *)
(* tier that needs them.                                                    *)
THEOREM UnreadShows == SelfTestSpec => []UnreadIsNotClean
<1>1. LadderInv => UnreadIsNotClean
  <2> SUFFICES ASSUME LadderInv, NEW i \in DOMAIN tiers,
                      ~(caps.supported
                        /\ (TierRequirementsTable[tiers[i].pier].memlock > 0 => limits.supported)),
                      ~Trivial(TierRequirementsTable[tiers[i].pier])
               PROVE  tiers[i].deficits # {}
    BY Zenon DEF UnreadIsNotClean
  <2>1. i \in 1 .. Audited /\ i \in 1 .. 3
    <3>1. tiers \in Seq(TierRecords) /\ Len(tiers) = Audited /\ asked \in -1 .. 4
      BY DEF LadderInv, TiersInv
    <3>2. DOMAIN tiers = 1 .. Audited
      BY <3>1, LenProperties
    <3>3. Audited \in 0 .. 3
      BY <3>1 DEF Audited
    <3> QED
      BY <3>2, <3>3
  <2> DEFINE t == Tiers[i]
             req == TierRequirementsTable[t]
  <2>2. /\ tiers[i].pier = t /\ tiers[i].deficits = Gaps(t)
        /\ ~caps.supported => caps.effective = {}
    BY <2>1 DEF LadderInv, TiersInv
  <2>3. Gaps(t) = Deficit(caps.effective, limits, req)
    BY <2>2, Zenon DEF Gaps
  <2>4. /\ t = "tier2-privileged" => req.capabilities = {"CAP_NET_ADMIN"} /\ req.memlock = 0
        /\ t = "tier1-afxdp" => req.capabilities = {"CAP_NET_RAW"}
        /\ t = "tier0-udp" => Trivial(req)
    BY Zenon DEF TierRequirementsTable, Trivial
  <2>5. t \in {"tier2-privileged", "tier1-afxdp"}
    BY <2>1, <2>2, <2>4, TierFacts
  <2>6. CASE ~caps.supported
    <3>1. \E c \in req.capabilities : c \in Deficit({}, limits, req)
      BY <2>4, <2>5 DEF Deficit, Has
    <3> QED
      BY <2>2, <2>3, <2>6, <3>1
  <2>7. CASE caps.supported
    <3>1. req.memlock > 0 /\ ~limits.supported
      BY <2>2, <2>7
    <3>2. "memlock unread" \in Deficit(caps.effective, limits, req)
      BY <3>1 DEF Deficit
    <3> QED
      BY <2>2, <2>3, <3>2
  <2> QED
    BY <2>6, <2>7
<1> QED
  BY LadderSafe, <1>1, PTL
=============================================================================
