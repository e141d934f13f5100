-------------------------------- MODULE Wire --------------------------------
(***************************************************************************)
(* The frame functions of csrc/net: checksums, the UDP/IPv4 builder and       *)
(* parser, VLAN tags, VXLAN tunnels and ARP, the packet generator, and the    *)
(* two receivers that look into a frame, the XDP program and the worker's     *)
(* classifier.                                                                *)
(*                                                                            *)
(* A frame is its length in bytes and its bytes taken in pairs, big-endian,   *)
(* as 16-bit words; every field is at an even offset, and the low byte of     *)
(* the last word of an odd frame is 0 and not part of it.  Addresses are      *)
(* tuples of words.  Offsets and constants are the source's, in decimal.      *)
(***************************************************************************)
EXTENDS Integers, Sequences

CONSTANT LittleEndian   \* what rewsr_is_little_endian finds

ASSUME EndianAssumption == LittleEndian \in BOOLEAN

Error == [words |-> <<>>, len |-> -1]

\* Of what lies behind a frame only the length of a UDP header that does not fit is ever
\* read, by parse_udp_ipv4, which refuses the frame whatever it is; it is 0 here.
Word(f, off) == IF off \div 2 < Len(f.words) THEN f.words[off \div 2 + 1] ELSE 0

From(f, off) == SubSeq(f.words, off \div 2 + 1, Len(f.words))

\* x ^ (1 << b), of a word or a byte
Flip(x, b) == IF (x \div 2^b) % 2 = 0 THEN x + 2^b ELSE x - 2^b

Not16(x) == 65535 - x

-----------------------------------------------------------------------------
(* checksum.c.  The 32-bit accumulator cannot overflow: a frame has less than  *)
(* 2^15 words.                                                                *)

\* Mutation of cksum_partial: the last byte of an odd length left out
cksum_partialEven(words, len, seed) ==
    LET sum[i \in 0 .. len \div 2] == IF i = 0 THEN seed ELSE sum[i - 1] + words[i]
    IN  sum[len \div 2]

cksum_partial(words, len, seed) ==
    LET sum[i \in 0 .. len \div 2] == IF i = 0 THEN seed ELSE sum[i - 1] + words[i]
    IN  sum[len \div 2] +
        (IF len % 2 = 1 THEN 256 * (words[len \div 2 + 1] \div 256) ELSE 0)

cksum_fold[sum \in Nat] ==
    IF sum < 65536 THEN sum ELSE cksum_fold[(sum % 65536) + (sum \div 65536)]

cksum(words, len) == Not16(cksum_fold[cksum_partial(words, len, 0)])

bswap16(word) == 256 * (word % 256) + (word \div 256)

\* 16 bits in network order, in a field of their own or in half of a wider one, as the
\* host sees them
AsLoaded(word) == IF LittleEndian THEN bswap16(word) ELSE word

\* The two halves of each address are added in whichever order they are loaded.
cksum_ipv4_pseudo(src, dst, proto, l4_len) ==
    AsLoaded(src[1]) + AsLoaded(src[2]) + AsLoaded(dst[1]) + AsLoaded(dst[2])
        + proto + l4_len

\* Mutation of cksum_update: equation 2 of RFC 1624, HC - ~m - m', with a plain borrow
cksum_updateBorrow(old_check, old_field, new_field) ==
    (old_check - Not16(old_field) - new_field) % 65536

cksum_update(old_check, old_field, new_field) ==
    Not16(cksum_fold[Not16(old_check) + Not16(old_field) + new_field])

-----------------------------------------------------------------------------
(* packet.c.  A flow gives the addresses and ports of a datagram.              *)

\* Ethernet, IPv4 with its checksum, and UDP with a zero checksum, for l4_len bytes
Headers(flow, ip_id, l4_len) ==
    LET ip(check) == <<17664, (20 + l4_len) % 65536, ip_id, 16384, 16401, check>>
                         \o flow.src_ip \o flow.dst_ip
    IN  flow.dst_mac \o flow.src_mac \o <<2048>>
            \o ip(cksum(ip(0), 20))
            \o <<flow.src_port, flow.dst_port, l4_len % 65536, 0>>

build_udp_ipv4(out_cap, flow, ip_id, payload, payload_len) ==
    LET total == 42 + payload_len
        head  == Headers(flow, ip_id, 8 + payload_len)
        udp   == SubSeq(head, 18, 21)
        sum   == cksum_partial(payload, payload_len,
                     cksum_partial(udp, 8,
                         cksum_ipv4_pseudo(flow.src_ip, flow.dst_ip, 17, 8 + payload_len)))
        check == Not16(cksum_fold[sum])
    IN  IF total > out_cap THEN Error
        ELSE [words |-> [head EXCEPT ![21] = IF check = 0 THEN 65535 ELSE check] \o payload,
              len |-> total]

ip_hlen(f) == 4 * ((Word(f, 14) \div 256) % 16)

\* The datagram has the offset of the payload where the code has a pointer to it.
parse_udp_ipv4(f) ==
    IF f.len < 42 THEN [rc |-> "SHORT"]
    ELSE IF Word(f, 12) # 2048 THEN [rc |-> "NOT_IPV4"]
    ELSE IF Word(f, 14) \div 4096 # 4 \/ ip_hlen(f) < 20 THEN [rc |-> "BAD_IHL"]
    ELSE IF 14 + Word(f, 16) > f.len \/ Word(f, 16) < ip_hlen(f) THEN [rc |-> "BAD_LEN"]
    ELSE IF Word(f, 22) % 256 # 17 THEN [rc |-> "NOT_UDP"]
    ELSE LET udp     == 14 + ip_hlen(f)
             udp_len == Word(f, udp + 4)
         IN  IF udp_len < 8 \/ ip_hlen(f) + udp_len > Word(f, 16) THEN [rc |-> "BAD_LEN"]
             ELSE [rc |-> "OK",
                   dst_mac |-> SubSeq(f.words, 1, 3), src_mac |-> SubSeq(f.words, 4, 6),
                   src_ip |-> SubSeq(f.words, 14, 15), dst_ip |-> SubSeq(f.words, 16, 17),
                   src_port |-> Word(f, udp), dst_port |-> Word(f, udp + 2),
                   payload |-> udp + 8, payload_len |-> udp_len - 8]

verify_ipv4_checksum(f) ==
    /\ f.len >= 34
    /\ f.len >= 14 + ip_hlen(f)
    /\ cksum(From(f, 14), ip_hlen(f)) = 0

verify_udp_checksum(f) ==
    LET udp     == 14 + ip_hlen(f)
        udp_len == Word(f, udp + 4)
        pseudo  == cksum_ipv4_pseudo(SubSeq(f.words, 14, 15), SubSeq(f.words, 16, 17),
                                     17, udp_len)
    IN  /\ parse_udp_ipv4(f).rc = "OK"
        /\ \/ Word(f, udp + 6) = 0
           \/ cksum_fold[cksum_partial(From(f, udp), udp_len, pseudo)] = 65535

-----------------------------------------------------------------------------
(* vlan.c.                                                                     *)

\* Mutation of vlan_tci: the VLAN id not masked to its 12 bits
vlan_tciUnmasked(pcp, dei, vid) == 8192 * (pcp % 8) + (IF dei THEN 4096 ELSE 0) + vid

vlan_tci(pcp, dei, vid) == 8192 * (pcp % 8) + (IF dei THEN 4096 ELSE 0) + (vid % 4096)

\* rewsr_vlan_pcp, rewsr_vlan_dei and rewsr_vlan_vid
vlan_fields(tci) == <<tci \div 8192, (tci \div 4096) % 2 = 1, tci % 4096>>

vlan_is_tagged(f) == f.len >= 14 /\ Word(f, 12) = 33024

\* rewsr_vlan_read's test, which rewsr_vlan_strip repeats; the TCI is at offset 14
vlan_readable(f) == vlan_is_tagged(f) /\ f.len >= 18

vlan_insert(f, cap, tci) ==
    IF f.len < 14 \/ f.len + 4 > cap THEN Error
    ELSE [words |-> SubSeq(f.words, 1, 6) \o <<33024, tci>> \o From(f, 12),
          len |-> f.len + 4]

vlan_strip(f) ==
    IF ~vlan_readable(f) THEN f
    ELSE [words |-> SubSeq(f.words, 1, 6) \o From(f, 16), len |-> f.len - 4]

-----------------------------------------------------------------------------
(* vxlan.c.                                                                    *)

\* The header: the flags byte and reserved bytes, then the three bytes of the VNI
vxlan_write_vni(vni) == <<2048, 0, vni \div 256, 256 * (vni % 256)>>

vxlan_read_vni(f, off) == 256 * Word(f, off + 4) + (Word(f, off + 6) \div 256)

vxlan_encap(out_cap, tun, vni, inner, ip_id) ==
    IF vni > 16777215 \/ 50 + inner.len > out_cap THEN Error
    ELSE [words |-> Headers([tun EXCEPT !.dst_port = 4789], ip_id, 16 + inner.len)
                        \o vxlan_write_vni(vni) \o inner.words,
          len |-> 50 + inner.len]

\* The inner frame is a window on the outer one, in which an odd last byte has a
\* low byte of 0 beside it again.
Window(f, off, len) ==
    LET words == SubSeq(f.words, off \div 2 + 1, (off + len + 1) \div 2)
    IN  [words |-> IF len % 2 = 0 THEN words
                   ELSE [words EXCEPT ![Len(words)] = 256 * (@ \div 256)],
         len |-> len]

vxlan_decap(f) ==
    LET dg == parse_udp_ipv4(f)
    IN  IF dg.rc # "OK" THEN [rc |-> dg.rc]
        ELSE IF dg.dst_port # 4789 THEN [rc |-> "NOT_UDP"]
        ELSE IF dg.payload_len < 8 THEN [rc |-> "BAD_LEN"]
        ELSE IF (Word(f, dg.payload) \div 2048) % 2 = 0 THEN [rc |-> "BAD_IHL"]
        ELSE [rc |-> "OK", vni |-> vxlan_read_vni(f, dg.payload),
              inner |-> Window(f, dg.payload + 8, dg.payload_len - 8)]

-----------------------------------------------------------------------------
(* arp.c.                                                                      *)

ARP_FRAME_LEN == 42

arp_build(out_cap, dst_mac, sender_mac, sender_ip, oper, target_mac, target_ip) ==
    IF out_cap < ARP_FRAME_LEN THEN Error
    ELSE [words |-> dst_mac \o sender_mac \o <<2054, 1, 2048, 1540, oper>>
                        \o sender_mac \o sender_ip \o target_mac \o target_ip,
          len |-> ARP_FRAME_LEN]

arp_build_request(out_cap, sender_mac, sender_ip, target_ip) ==
    arp_build(out_cap, <<65535, 65535, 65535>>, sender_mac, sender_ip, 1,
              <<0, 0, 0>>, target_ip)

\* Mutation of arp_build_reply: the reply repeats the addresses in the request's order
arp_build_replySwapped(out_cap, sender_mac, sender_ip, target_mac, target_ip) ==
    arp_build(out_cap, target_mac, target_mac, target_ip, 2, sender_mac, sender_ip)

arp_build_reply(out_cap, sender_mac, sender_ip, target_mac, target_ip) ==
    arp_build(out_cap, target_mac, sender_mac, sender_ip, 2, target_mac, target_ip)

arp_parse(f) ==
    IF f.len < ARP_FRAME_LEN THEN [rc |-> "SHORT"]
    ELSE IF Word(f, 12) # 2054 THEN [rc |-> "NOT_IPV4"]
    ELSE IF SubSeq(f.words, 8, 10) # <<1, 2048, 1540>> THEN [rc |-> "BAD_IHL"]
    ELSE [rc |-> "OK", oper |-> Word(f, 20),
          sender_mac |-> SubSeq(f.words, 12, 14), sender_ip |-> SubSeq(f.words, 15, 16),
          target_mac |-> SubSeq(f.words, 17, 19), target_ip |-> SubSeq(f.words, 20, 21)]

arp_is_request_for(f, ip) ==
    LET arp == arp_parse(f)
    IN  arp.rc = "OK" /\ arp.oper = 1 /\ arp.target_ip = ip

-----------------------------------------------------------------------------
(* pktgen.c.  The 64-bit sequence number is its four words.                    *)

TemplateCapacity == 42 + 2048

PatternByte(i) == Flip(Flip(i % 256, 7), 5)   \* 0xa0 ^ (i & 0xff)

\* The template's payload: a zero sequence number, then the pattern
Pattern(payload_len) ==
    [w \in 1 .. (payload_len + 1) \div 2 |->
        IF w <= 4 THEN 0
        ELSE 256 * PatternByte(2 * w - 2)
                 + (IF 2 * w - 1 < payload_len THEN PatternByte(2 * w - 1) ELSE 0)]

pktgen_init(flow, payload_len) ==
    LET tmpl == build_udp_ipv4(TemplateCapacity, flow, 4096, Pattern(payload_len), payload_len)
    IN  [base_ip_id |-> 4096, ip_id |-> 4096, seq |-> <<0, 0, 0, 0>>, tmpl |-> tmpl,
         ip_check_base |-> Word(tmpl, 24), udp_check_base |-> Word(tmpl, 40)]

\* n added to a number of four words, modulo 2^64
Plus(seq, n) ==
    LET sum(w)    == seq[w] + n[w]
        carry[w \in 1 .. 5] ==
            IF w = 5 THEN 0 ELSE (sum(w) + carry[w + 1]) \div 65536
    IN  [w \in 1 .. 4 |-> (sum(w) + carry[w + 1]) % 65536]

\* What a call to rewsr_pktgen_next writes, and what n calls make of the generator
pktgen_frame(g) ==
    LET check[w \in 0 .. 4] ==
            IF w = 0 THEN g.udp_check_base
            ELSE cksum_update(check[w - 1], Word(g.tmpl, 40 + 2 * w), g.seq[w])
        words == [g.tmpl.words EXCEPT
                     ![10] = g.ip_id,
                     ![13] = cksum_update(g.ip_check_base, g.base_ip_id, g.ip_id),
                     ![21] = check[4]]
    IN  [g.tmpl EXCEPT !.words = SubSeq(words, 1, 21) \o g.seq \o From(g.tmpl, 50)]

pktgen_advance(g, n) ==
    [g EXCEPT !.ip_id = (@ + n[4]) % 65536, !.seq = Plus(@, n)]

pktgen_read_seq(f) ==
    LET dg == parse_udp_ipv4(f)
    IN  IF dg.rc # "OK" THEN [rc |-> dg.rc]
        ELSE IF dg.payload_len < 8 THEN [rc |-> "BAD_LEN"]
        ELSE [rc |-> "OK",
              seq |-> SubSeq(f.words, dg.payload \div 2 + 1, dg.payload \div 2 + 4)]

-----------------------------------------------------------------------------
(* The receivers: xdp_prog.c in the kernel, rewsr_dp_classify in the worker.    *)

\* Mutation of xdp_redirect: UDP looked for behind 20 bytes of IPv4 header
xdp_redirectNoOptions(f) ==
    /\ f.len >= 42 /\ AsLoaded(Word(f, 12)) = bswap16(2048) /\ Word(f, 22) % 256 = 17
    /\ AsLoaded(Word(f, 36)) = bswap16(4789)

\* The frame is for the socket of its queue; any other is passed to the host's stack.
\* The constants are swapped whatever the host's byte order.
xdp_redirect(f) ==
    /\ f.len >= 14 /\ AsLoaded(Word(f, 12)) = bswap16(2048)
    /\ f.len >= 34 /\ Word(f, 22) % 256 = 17
    /\ f.len >= 14 + ip_hlen(f) + 8
    /\ AsLoaded(Word(f, 14 + ip_hlen(f) + 2)) = bswap16(4789)

\* Mutation of dp_classify: the checksum of the IPv4 header verified for that of UDP
dp_classifyHeaderOnly(f) ==
    LET dg == parse_udp_ipv4(f)
    IN  dg.rc = "OK" /\ dg.payload_len >= 8 /\ verify_ipv4_checksum(f)

dp_classify(f) ==
    LET dg == parse_udp_ipv4(f)
    IN  dg.rc = "OK" /\ dg.payload_len >= 8 /\ verify_udp_checksum(f)
=============================================================================
