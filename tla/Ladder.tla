------------------------------- MODULE Ladder -------------------------------
(***************************************************************************)
(* The tier ladder: detection of each tier on the host, Select, and the      *)
(* Preflight report, which audits the tiers one after the other against the  *)
(* capabilities and limits of the process while the host may change.         *)
(* A capability mask is the set of the capabilities whose bits are set.      *)
(***************************************************************************)
EXTENDS Integers, Sequences, FiniteSets

CONSTANTS
    Releases,      \* kernel releases, by number below
    StatusFiles,   \* contents of /proc/self/status, by number below
    Memlocks       \* values of the soft RLIMIT_MEMLOCK, in MiB

VARIABLES
    host,     \* kernel release, /sys/fs/bpf and /dev/infiniband
    asked,    \* number of tiers Preflight has audited; -1 before it starts
    caps,     \* r.Caps
    limits,   \* r.Rlimits
    tiers,    \* r.Tiers so far
    report,   \* what Preflight returned: selected tier and skips
    steady    \* the host is as it was when Preflight started

ladderVars == <<host, asked, caps, limits, tiers, report, steady>>

Tiers == <<"tier2-privileged", "tier1-afxdp", "tier0-udp">>

-----------------------------------------------------------------------------
(* Capabilities.                                                             *)

\* The named capabilities; one name stands for all that no tier asks for.
CapNames == {"CAP_NET_ADMIN", "CAP_NET_RAW", "CAP_SYS_ADMIN", "CAP_BPF", "CAP_OTHER"}
FullCapSet == CapNames

\* A bit beyond the table, which a newer kernel may set
Newer == "CAP_41"

\* Name lookup: an unknown name is in no set.
Has(c, name) == name \in CapNames /\ name \in c

Unread == [supported |-> FALSE, effective |-> {}]

\* A status file is a sequence of lines; a mask that is not hexadecimal is Bad.
Bad == {"bad mask"}
Line(key, mask) == [key |-> key, mask |-> mask]
Status(n) ==
    LET root == FullCapSet \cup {Newer}
        three(eff) == << Line("Name", {}), Line("CapPrm", eff), Line("CapEff", eff),
                         Line("CapBnd", root) >>
    IN  CASE n = 0 -> <<>>                                    \* cannot be read
          [] n = 1 -> three({})
          [] n = 2 -> three({"CAP_NET_RAW", "CAP_BPF"})
          [] n = 3 -> three({"CAP_NET_ADMIN", "CAP_SYS_ADMIN"})
          [] n = 4 -> three(root)
          [] n = 5 -> << Line("CapEff", root), Line("CapPrm", root) >>   \* cut short
          [] n = 6 -> << Line("CapEff", root), Line("CapPrm", root), Line("CapBnd", Bad) >>

Wanted == {"CapEff", "CapPrm", "CapBnd"}

LastMask(lines, key) ==
    LET at == {i \in DOMAIN lines : lines[i].key = key}
    IN  lines[CHOOSE i \in at : \A j \in at : j <= i].mask

\* Mutation of ParseStatusCaps: what has been read so far is returned with the error
ParseStatusCapsPartial(lines) ==
    LET found == {lines[i].key : i \in DOMAIN lines} \cap Wanted
    IN  [supported |-> found = Wanted /\ \A i \in DOMAIN lines : lines[i].mask # Bad,
         effective |-> IF "CapEff" \in found THEN LastMask(lines, "CapEff") ELSE {}]

\* ParseStatusCaps and CurrentCaps: all three lines with good masks, or nothing.
\* Only the effective set is used.
ParseStatusCaps(lines) ==
    LET found == {lines[i].key : i \in DOMAIN lines} \cap Wanted
        ok == \A i \in DOMAIN lines : lines[i].key \in Wanted => lines[i].mask # Bad
    IN  IF found = Wanted /\ ok
        THEN [supported |-> TRUE, effective |-> LastMask(lines, "CapEff")]
        ELSE Unread

-----------------------------------------------------------------------------
(* Requirements, and what of them the process lacks.                         *)

TierRequirementsTable ==
    [t \in {"tier0-udp", "tier1-afxdp", "tier2-privileged"} |->
       CASE t = "tier0-udp" -> [capabilities |-> {}, anyOf |-> {}, memlock |-> 0, root |-> FALSE]
         [] t = "tier1-afxdp" -> [capabilities |-> {"CAP_NET_RAW"},
                                  anyOf |-> {"CAP_BPF", "CAP_SYS_ADMIN"},
                                  memlock |-> 16, root |-> FALSE]
         [] t = "tier2-privileged" -> [capabilities |-> {"CAP_NET_ADMIN"}, anyOf |-> {},
                                       memlock |-> 0, root |-> TRUE]]

Trivial(req) == req.capabilities = {} /\ req.anyOf = {} /\ req.memlock = 0 /\ ~req.root

\* The gaps as a set: the order of the lines does not matter to any reader.
Deficit(have, r, req) ==
    {c \in req.capabilities : ~Has(have, c)}
    \cup (IF req.anyOf # {} /\ \A c \in req.anyOf : ~Has(have, c) THEN {"any of"} ELSE {})
    \cup (IF req.memlock > 0 /\ ~r.supported THEN {"memlock unread"} ELSE {})
    \cup (IF req.memlock > 0 /\ r.supported /\ r.memlock < req.memlock
          THEN {"memlock"} ELSE {})
    \cup (IF req.root /\ ~(FullCapSet \subseteq have) THEN {"root"} ELSE {})

\* Getrlimit fails, or gives one of the limits.
NoLimits == [supported |-> FALSE, memlock |-> 0]
CurrentRlimits == {NoLimits} \cup [supported : {TRUE}, memlock : Memlocks]

-----------------------------------------------------------------------------
(* Detection.                                                                *)

NotANumber == -1
Release(n) ==    \* dot-separated parts of /proc/sys/kernel/osrelease
    CASE n = 1 -> <<4, 17>> [] n = 2 -> <<4, 18>> [] n = 3 -> <<5, 4>>
      [] n = 4 -> <<6>> [] n = 5 -> <<6, NotANumber>>

ParsesAsVersion(parts) == Len(parts) >= 2 /\ parts[1] # NotANumber /\ parts[2] # NotANumber

kernelSupportsAFXDP(parts) ==
    /\ ParsesAsVersion(parts)
    /\ parts[1] > 4 \/ (parts[1] = 4 /\ parts[2] >= 18)

\* rewsr_afxdp_probe: a plain file does not do
afxdp_probe(h) == h.bpf = "directory"

\* rewsr_rdma_probe: an entry other than . and ..
rdma_probe(h) == h.rdma = "device"

Detect(h, t) ==
    CASE t = "tier2-privileged" -> rdma_probe(h)
      [] t = "tier1-afxdp" -> kernelSupportsAFXDP(Release(h.release)) /\ afxdp_probe(h)
      [] t = "tier0-udp" -> TRUE

\* Select on a host that holds still: the first tier that is detected
Select(h) ==
    LET first == CHOOSE i \in DOMAIN Tiers :
                    Detect(h, Tiers[i]) /\ \A j \in 1 .. i - 1 : ~Detect(h, Tiers[j])
    IN  [selected |-> Tiers[first], skips |-> SubSeq(Tiers, 1, first - 1)]

-----------------------------------------------------------------------------
(* Preflight.                                                                *)

NoReport == [selected |-> "", skips |-> <<>>]

Hosts == [release : Releases, bpf : {"absent", "file", "directory"}, rdma : {"empty", "device"}]

LadderInit ==
    /\ host \in Hosts
    /\ asked = -1
    /\ caps = Unread /\ limits = NoLimits
    /\ tiers = <<>> /\ report = NoReport
    /\ steady = TRUE

\* CurrentCaps and CurrentRlimits are called once, first.
ReadPrivileges ==
    /\ asked = -1
    /\ \E n \in StatusFiles : caps' = ParseStatusCaps(Status(n))
    /\ limits' \in CurrentRlimits
    /\ asked' = 0
    /\ UNCHANGED <<host, tiers, report, steady>>

\* Mutation of AuditTier: the last tier that is detected wins
AuditTierLast ==
    /\ asked \in 0 .. Len(Tiers) - 1
    /\ LET t == Tiers[asked + 1]
           detected == Detect(host, t)
           req == TierRequirementsTable[t]
       IN  /\ tiers' = Append(tiers, [pier |-> t, detected |-> detected,
                    deficits |-> IF Trivial(req) THEN {}
                                 ELSE Deficit(caps.effective, limits, req)])
           /\ report' = IF detected THEN [report EXCEPT !.selected = t] ELSE report
    /\ asked' = asked + 1
    /\ UNCHANGED <<host, caps, limits, steady>>

\* One round of the first loop
AuditTier ==
    /\ asked \in 0 .. Len(Tiers) - 1
    /\ LET t == Tiers[asked + 1]
           detected == Detect(host, t)
           req == TierRequirementsTable[t]
       IN  /\ tiers' = Append(tiers, [pier |-> t, detected |-> detected,
                    deficits |-> IF Trivial(req) THEN {}
                                 ELSE Deficit(caps.effective, limits, req)])
           /\ report' = IF report.selected = "" /\ detected
                        THEN [report EXCEPT !.selected = t] ELSE report
    /\ asked' = asked + 1
    /\ UNCHANGED <<host, caps, limits, steady>>

\* Mutation of Skips: the tiers that are not detected any more
SkipsRedetected ==
    SelectSeq(Tiers, LAMBDA t : ~Detect(host, t))

\* The second loop: the tiers above the selected one, in ladder order
Skips ==
    LET before == {i \in DOMAIN tiers :
                     \A j \in 1 .. i : tiers[j].pier # report.selected}
    IN  [i \in 1 .. Cardinality(before) |-> tiers[i].pier]

ReturnReport ==
    /\ asked = Len(Tiers)
    /\ report' = [report EXCEPT !.skips = Skips]
    /\ asked' = asked + 1
    /\ UNCHANGED <<host, caps, limits, tiers, steady>>

\* The file system is mounted or unmounted, a device comes or goes.
HostChanges ==
    /\ asked \in 0 .. Len(Tiers)
    /\ host' \in {h \in Hosts : h.release = host.release /\ h # host}
    /\ steady' = FALSE
    /\ UNCHANGED <<asked, caps, limits, tiers, report>>

Preflight == ReadPrivileges \/ AuditTier \/ ReturnReport
PreflightDone == asked > Len(Tiers)

-----------------------------------------------------------------------------
(* However the host changes meanwhile, the report agrees with itself: a tier  *)
(* is selected, it was detected, and the skipped tiers are exactly those above *)
(* it, each recorded as not detected (preflight.go:41-43).                    *)
ReportConsistent ==
    PreflightDone =>
        \E i \in DOMAIN tiers :
            /\ tiers[i].pier = report.selected
            /\ tiers[i].detected
            /\ report.skips = [j \in 1 .. i - 1 |-> tiers[j].pier]
            /\ \A j \in 1 .. i - 1 : ~tiers[j].detected

(* preflight.go:41 "Selection mirrors Select exactly", on a host that does not *)
(* change while Preflight walks the ladder.                                   *)
MirrorsSelect == PreflightDone /\ steady => report = Select(host)

(* A process whose capabilities or limits could not be read completely gets no *)
(* clean bill: every tier that needs what was not read reports a deficit.     *)
UnreadIsNotClean ==
    \A i \in DOMAIN tiers :
        LET req == TierRequirementsTable[tiers[i].pier]
        IN  \/ caps.supported /\ (req.memlock > 0 => limits.supported)
            \/ Trivial(req)
            \/ tiers[i].deficits # {}
=============================================================================
