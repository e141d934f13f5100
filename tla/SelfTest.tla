------------------------------ MODULE SelfTest ------------------------------
(***************************************************************************)
(* RunSelfTest: preflight over the ladder, then the UDP benchmark, whose     *)
(* failure is recorded and does not fail the report.  The benchmark is also  *)
(* run on its own: by the bench command in Go and by the C program.          *)
(***************************************************************************)
EXTENDS Ladder, UdpBench

CONSTANT SelfTestSize   \* opts.PingCount and opts.BurstPackets

VARIABLE
    outcome   \* the self test's report: "none" yet, "UDP", "UDPError" or "no test"

selfTestVars == <<ladderVars, benchVars, outcome>>

\* RunSelfTest, or the benchmark alone on a host nobody asks about
SelfTestInit ==
    \/ /\ LadderInit
       /\ BenchInit("Go", "preflight", SelfTestSize)
       /\ outcome = "none"
    \/ /\ Init
       /\ LadderInit
       /\ host = CHOOSE h \in Hosts : TRUE
       /\ outcome = "no test"

RunPreflight ==
    /\ pc = "preflight"
    /\ Preflight
    /\ UNCHANGED <<benchVars, outcome>>

\* Preflight has returned; BenchmarkUDPLoopback is called.
StartBenchmark ==
    /\ pc = "preflight" /\ PreflightDone
    /\ pc' = "open_echo"
    /\ UNCHANGED <<lang, pings, burst, rc, held, stop, replies, echoVars, latencyVars,
                   burstVars, ladderVars, outcome>>

RecordOutcome ==
    /\ pc = "returned" /\ outcome = "none"
    /\ outcome' = IF rc = 0 THEN "UDP" ELSE "UDPError"
    /\ UNCHANGED <<benchVars, ladderVars>>

Main ==
    \/ RunPreflight \/ StartBenchmark \/ RecordOutcome
    \/ Client /\ UNCHANGED <<ladderVars, outcome>>

SelfTestNext ==
    \/ Main
    \/ Echo /\ UNCHANGED <<ladderVars, outcome>>
    \/ Counter /\ UNCHANGED <<ladderVars, outcome>>
    \/ HostChanges /\ pc = "preflight" /\ UNCHANGED <<benchVars, outcome>>

\* The scheduler runs every thread and goroutine, and every wait has a timeout.
SelfTestSpec ==
    /\ SelfTestInit /\ [][SelfTestNext]_selfTestVars
    /\ WF_selfTestVars(Main)
    /\ WF_selfTestVars(Echo /\ UNCHANGED <<ladderVars, outcome>>)
    /\ WF_selfTestVars(Counter /\ UNCHANGED <<ladderVars, outcome>>)

-----------------------------------------------------------------------------
(* Every call returns, whatever is lost, late or refused: the ping loop and    *)
(* the drain end by their timeouts, pthread_join by the echo thread's, Go's    *)
(* wait for the count by the sink's deadline; and the self test then has a     *)
(* result or an error to show.                                                *)
BenchReturns == <>(pc = "returned" /\ outcome # "none")

(* Go does not wait for its goroutines, but none outlives the call for long:   *)
(* the stop channel and the closed sockets end both, on every error path.     *)
GoroutinesEnd ==
    (pc = "returned") ~> (echo \in {"none", "done"} /\ counter \in {"none", "done"})
=============================================================================
