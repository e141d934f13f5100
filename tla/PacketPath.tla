----------------------------- MODULE PacketPath -----------------------------
(***************************************************************************)
(* A frame's way from the packet generator, or from another host, through     *)
(* tags and tunnels, over a wire that may flip a bit, to the XDP program and  *)
(* the worker's classifier.  The frame is in one buffer all along; the        *)
(* functions of Wire are called on it in any order.  A call that returns an   *)
(* error changes nothing, so it is a stuttering step here.                    *)
(***************************************************************************)
EXTENDS Wire

CONSTANTS
    DstPorts, Payloads,     \* what the generator may be configured with
    BufferSizes,            \* capacities of the caller's buffer
    Pcps, Vids, Vnis,       \* arguments of tagging and tunnelling
    MaxLayers,              \* tags and tunnels around one frame
    MaxFrames,              \* frames sent, one after the other
    FlippedBits             \* the bits of a word the wire may flip, one per frame

ASSUME PathAssumption ==
    /\ \A n \in DstPorts \cup BufferSizes : n \in Nat /\ n < 65536
    /\ Pcps \subseteq Nat /\ Vids \subseteq Nat /\ Vnis \subseteq Nat
    /\ MaxLayers \in Nat /\ MaxFrames \in Nat
    /\ FlippedBits \subseteq 0 .. 15

VARIABLES
    gen,            \* struct rewsr_pktgen
    port,           \* the port it was initialised with
    cap,            \* capacity of the buffer
    frame,          \* the frame in it
    sent,           \* the frame that was put there first, and what it is
    layers,         \* what the tags and tunnels around it were made from, innermost first
    flipped,        \* whether the wire has changed it
    opened,         \* the last layer taken off: what was put in, what was read out
    arrived,        \* where the last frame delivered went, and how it was taken
    redirect_count  \* the XDP program's counter of its queue

wireVars == <<frame, layers, flipped>>
genVars == <<gen, port>>
vars == <<genVars, cap, sent, wireVars, opened, arrived, redirect_count>>

None == [words |-> <<>>, len |-> 0]

\* Addresses and ports of the generator's datagrams, which are the tunnel's too
Flow(dst_port) ==
    [src_mac |-> <<512, 0, 1>>, dst_mac |-> <<512, 0, 2>>,
     src_ip |-> <<2560, 1>>, dst_ip |-> <<2560, 258>>, src_port |-> 40000, dst_port |-> dst_port]

Peer == [mac |-> <<512, 0, 1>>, ip |-> <<2560, 1>>]
Host == [mac |-> <<512, 0, 2>>, ip |-> <<2560, 258>>]

Init ==
    /\ gen = [tmpl |-> None] /\ port = 0
    /\ cap \in BufferSizes
    /\ sent = [n |-> 0, kind |-> "nothing", frame |-> None, what |-> <<>>]
    /\ frame = None /\ layers = <<>> /\ flipped = FALSE
    /\ opened = [put |-> <<>>, got |-> <<>>]
    /\ arrived = [to |-> "nowhere"]
    /\ redirect_count = 0

-----------------------------------------------------------------------------
(* Senders                                                                     *)

MaySend == frame = None /\ sent.n < MaxFrames

PktgenInit(dst_port, payload_len) ==
    /\ MaySend /\ gen.tmpl = None
    /\ payload_len \in 8 .. 2048
    /\ gen' = pktgen_init(Flow(dst_port), payload_len) /\ port' = dst_port
    /\ UNCHANGED <<cap, sent, wireVars, opened, arrived, redirect_count>>

\* Many calls of rewsr_pktgen_next whose frames are of no interest: up to a carry of
\* the sequence number or of the id, to the template's UDP checksum, or to a number
\* whose words are a UDP header for the fabric port with a checksum that verifies
PktgenSkip ==
    /\ MaySend /\ gen.tmpl # None /\ gen.seq = <<0, 0, 0, 0>>
    /\ \E n \in {<<0, 65535, 65535, 65535>>, <<0, 0, 0, 61439>>,
                 <<0, 0, 0, gen.udp_check_base>>, <<0, 4789, 24, 27759>>} :
         gen' = pktgen_advance(gen, n)
    /\ UNCHANGED <<port, cap, sent, wireVars, opened, arrived, redirect_count>>

Put(f, kind, what) ==
    /\ f.len >= 0
    /\ sent' = [n |-> sent.n + 1, kind |-> kind, frame |-> f, what |-> what]
    /\ frame' = f /\ layers' = <<>> /\ flipped' = FALSE
    /\ opened' = [put |-> <<>>, got |-> <<>>]
    /\ arrived' = [to |-> "nowhere"]
    /\ UNCHANGED <<cap, redirect_count>>

PktgenNext ==
    /\ MaySend /\ gen.tmpl # None
    /\ cap >= gen.tmpl.len
    /\ Put(pktgen_frame(gen), "generated", [id |-> gen.ip_id, seq |-> gen.seq])
    /\ gen' = pktgen_advance(gen, <<0, 0, 0, 1>>)
    /\ UNCHANGED port

\* The same datagram as another stack may send it: with an option word in the IPv4 header
WithOptions(f) ==
    LET ip(check) == <<17920, Word(f, 16) + 4>> \o SubSeq(f.words, 10, 12) \o <<check>>
                         \o SubSeq(f.words, 14, 17) \o <<257, 257>>
    IN  [words |-> SubSeq(f.words, 1, 7) \o ip(cksum(ip(0), 24)) \o From(f, 34),
         len |-> f.len + 4]

PeerSends ==
    /\ MaySend /\ gen.tmpl # None
    /\ Put(WithOptions(gen.tmpl), "peer", <<>>)
    /\ UNCHANGED genVars

\* A peer asks for an address; the host answers if it is its own.
ArpRequest(ip) ==
    /\ MaySend
    /\ Put(arp_build_request(cap, Peer.mac, Peer.ip, ip), "request", ip)
    /\ UNCHANGED genVars

ArpReply ==
    LET arp == arp_parse(frame)
    IN  /\ frame # None /\ sent.n < MaxFrames
        /\ arp_is_request_for(frame, Host.ip)
        /\ Put(arp_build_reply(cap, Host.mac, Host.ip, arp.sender_mac, arp.sender_ip),
               "reply", [asked |-> sent.what, intact |-> ~flipped])
        /\ UNCHANGED genVars

-----------------------------------------------------------------------------
(* Tags, tunnels and the wire                                                  *)

Wrap(f, what) ==
    /\ frame # None /\ Len(layers) < MaxLayers
    /\ f.len >= 0
    /\ frame' = f
    /\ layers' = Append(layers, what)
    /\ opened' = [put |-> <<>>, got |-> <<>>]
    /\ UNCHANGED <<genVars, cap, sent, flipped, arrived, redirect_count>>

VlanInsert(pcp, dei, vid) ==
    Wrap(vlan_insert(frame, cap, vlan_tci(pcp, dei, vid)), <<pcp % 8, dei, vid % 4096>>)

VxlanEncap(vni) ==
    Wrap(vxlan_encap(cap, Flow(0), vni, frame, 7), <<vni>>)

\* A flipped bit may make the generator's payload look like a tunnel.
Unwrap(f, what) ==
    /\ frame' = f
    /\ layers' = IF layers = <<>> THEN <<>> ELSE SubSeq(layers, 1, Len(layers) - 1)
    /\ opened' = IF layers = <<>> \/ flipped THEN opened
                 ELSE [put |-> layers[Len(layers)], got |-> what]
    /\ UNCHANGED <<genVars, cap, sent, flipped, arrived, redirect_count>>

VlanStrip ==
    /\ vlan_readable(frame)
    /\ Unwrap(vlan_strip(frame), vlan_fields(Word(frame, 14)))

VxlanDecap ==
    LET tunnel == vxlan_decap(frame)
    IN  /\ tunnel.rc = "OK"
        /\ Unwrap(tunnel.inner, <<tunnel.vni>>)

FlipBit(i, b) ==
    /\ frame # None /\ ~flipped
    /\ frame' = [frame EXCEPT !.words[i] = Flip(@, b)]
    /\ i = Len(frame.words) /\ frame.len % 2 = 1 => b >= 8
    /\ flipped' = TRUE
    /\ opened' = [put |-> <<>>, got |-> <<>>]
    /\ UNCHANGED <<genVars, cap, sent, layers, arrived, redirect_count>>

-----------------------------------------------------------------------------
(* The receiving host.  The counter is bumped before the redirect, which falls *)
(* back to the stack if no socket is bound to the queue.                       *)

Deliver(bound) ==
    /\ frame # None
    /\ arrived' = IF xdp_redirect(frame) /\ bound
                  THEN [to |-> "worker", frame |-> frame, data |-> dp_classify(frame)]
                  ELSE [to |-> "stack", frame |-> frame, bound |-> bound]
    /\ redirect_count' = redirect_count + (IF xdp_redirect(frame) THEN 1 ELSE 0)
    /\ frame' = None
    /\ layers' = <<>> /\ flipped' = FALSE
    /\ UNCHANGED <<genVars, cap, sent, opened>>

Next ==
    \/ \E dst_port \in DstPorts, n \in Payloads : PktgenInit(dst_port, n)
    \/ PktgenSkip
    \/ PktgenNext
    \/ PeerSends
    \/ \E ip \in {Host.ip, Peer.ip} : ArpRequest(ip)
    \/ ArpReply
    \/ \E pcp \in Pcps, dei \in BOOLEAN, vid \in Vids : VlanInsert(pcp, dei, vid)
    \/ \E vni \in Vnis : VxlanEncap(vni)
    \/ VlanStrip
    \/ VxlanDecap
    \/ \E i \in 7 .. Len(frame.words), b \in FlippedBits : FlipBit(i, b)
    \/ \E bound \in BOOLEAN : Deliver(bound)

Spec == Init /\ [][Next]_vars

-----------------------------------------------------------------------------
\* The frame rewsr_build_udp_ipv4 makes of what is in the generated frame f
FromScratch(f, p, what) ==
    build_udp_ipv4(f.len, Flow(p), what.id, what.seq \o From(f, 50), f.len - 42)

(* test_pktgen.c:62-63 "The incremental generator must produce byte-identical   *)
(* frames to a from-scratch build with the same id and sequence".               *)
FrameAsBuilt == sent.kind = "generated" => sent.frame = FromScratch(sent.frame, port, sent.what)

(* The generator patches the id, the sequence number and two checksums into a   *)
(* copy of its template.  Every frame whose UDP checksum does not come to zero  *)
(* is the one rewsr_build_udp_ipv4 would have built from scratch (a zero is     *)
(* left as it is where the builder stores 0xffff, and FrameAsBuilt fails); with *)
(* a zero or not it passes both verifications as pktgen.h says, it              *)
(* parses to the generator's flow, the worker takes it for data and             *)
(* rewsr_pktgen_read_seq finds its number, across every carry of the number     *)
(* and the wrap of the id.  And an ARP reply names the host to the asker.       *)
FramesSound ==
    /\ sent.kind = "generated" =>
          LET f  == sent.frame
              dg == parse_udp_ipv4(f)
          IN  /\ Word(f, 40) # 0 => f = FromScratch(f, port, sent.what)
              /\ verify_ipv4_checksum(f) /\ verify_udp_checksum(f) /\ dp_classify(f)
              /\ \A field \in DOMAIN Flow(port) : dg[field] = Flow(port)[field]
              /\ pktgen_read_seq(f) = [rc |-> "OK", seq |-> sent.what.seq]
    /\ sent.kind = "reply" /\ sent.what.intact =>
          /\ sent.what.asked = Host.ip
          /\ SubSeq(sent.frame.words, 1, 3) = Peer.mac
          /\ arp_parse(sent.frame) =
                [rc |-> "OK", oper |-> 2, sender_mac |-> Host.mac, sender_ip |-> Host.ip,
                 target_mac |-> Peer.mac, target_ip |-> Peer.ip]

(* Tags and tunnels are transparent: whatever was put around a frame, in any    *)
(* order, taking everything off again gives the frame back byte for byte, and   *)
(* every layer gives back the priority, VLAN id or VNI it was made from.        *)
LayersTransparent ==
    /\ frame # None /\ layers = <<>> /\ ~flipped => frame = sent.frame
    /\ opened.got = opened.put

\* A frame's addresses, ports and payload
Datagram(f) ==
    LET dg == parse_udp_ipv4(f)
    IN  [flow |-> <<dg.src_ip, dg.dst_ip, dg.src_port, dg.dst_port>>,
         payload |-> Window(f, dg.payload, dg.payload_len)]

(* worker.c:15-17 "its UDP checksum must verify, or it is noise on the wire     *)
(* rather than one of ours": what the worker counts as data is the datagram     *)
(* that was sent, address for address and byte for byte, unless the checksum    *)
(* field is zero, which verifies whatever the contents are.                     *)
DataIsAsSent ==
    arrived.to = "worker" /\ arrived.data =>
        \/ Word(arrived.frame, 14 + ip_hlen(arrived.frame) + 6) = 0
        \/ Datagram(arrived.frame) = Datagram(sent.frame)

(* rewsr_dp_classify does not verify the checksum of the IPv4 header, which is  *)
(* what DataIsAsSent fails on.  Nothing else does: whatever bit the wire flips, *)
(* before or inside a tunnel, and wherever the frame is opened again, data that *)
(* is not the datagram that was sent has another IPv4 header length, and that   *)
(* header's checksum would not have verified.                                   *)
OnlyHeaderLengthMisleads ==
    DataIsAsSent
    \/ /\ ip_hlen(arrived.frame) # ip_hlen(sent.frame)
       /\ ~verify_ipv4_checksum(arrived.frame)

\* f and g differ in an address, a port or the payload, where f has them
Altered(f, g) ==
    LET udp == 14 + ip_hlen(f)
        w   == udp \div 2
        n   == Word(f, udp + 4)
        end == w + (n \div 2)
    IN  \/ \E i \in (14 .. 17) \cup {w + 1, w + 2} \cup (w + 5 .. end) : f.words[i] # g.words[i]
        \/ n % 2 = 1 /\ f.words[end + 1] \div 256 # g.words[end + 1] \div 256

(* A frame that the worker would have taken for data, with a checksum that is   *)
(* not zero, is no data any more once the wire has flipped a bit of its         *)
(* addresses, its ports or its payload: rewsr_verify_udp_checksum catches       *)
(* every single flip there, IPv4 options or not.                                *)
FlipCaught ==
    [][/\ ~flipped /\ flipped'
       /\ dp_classify(frame) /\ Word(frame, 14 + ip_hlen(frame) + 6) # 0
       /\ Altered(frame, frame')
       => ~dp_classify(frame')]_vars

(* The XDP program and the parser of the worker read the same header by         *)
(* different code.  On a bound queue every datagram that parses goes to the     *)
(* worker if its port is the fabric's and to the stack if not, IPv4 options or  *)
(* not; ARP, tagged frames and other protocols stay with the stack.             *)
FilterAgreesWithParser ==
    arrived.to # "nowhere" =>
        LET dg == parse_udp_ipv4(arrived.frame)
        IN  CASE dg.rc = "OK" /\ dg.dst_port = 4789 -> arrived.to = "worker" \/ ~arrived.bound
              [] dg.rc = "OK" /\ dg.dst_port # 4789 -> arrived.to = "stack"
              [] dg.rc \in {"NOT_IPV4", "NOT_UDP"} -> arrived.to = "stack"
              [] OTHER -> TRUE

(* The UDP checksum of a generated frame is the one RFC 768 asks for, over the  *)
(* addresses as they are on the wire, as the comment of                         *)
(* rewsr_cksum_ipv4_pseudo says ("to match the wire layout").                   *)
ChecksumMatchesWire ==
    sent.kind = "generated" =>
        LET f == sent.frame
            pseudo == cksum_partial(SubSeq(f.words, 14, 17), 8, 17 + Word(f, 38))
        IN  \/ Word(f, 40) = 0
            \/ cksum_fold[cksum_partial(From(f, 34), Word(f, 38), pseudo)] = 65535
=============================================================================
