------------------------------ MODULE SdfFilter ------------------------------
(***************************************************************************)
(* The life of one SDF filter: the flow description of a Create or Update  *)
(* PDR is parsed by ParseSdfFilter (cmd/core/sdf_filter_parser.go), stored *)
(* by CombinePdrWithSdf and Copy16Ip (cmd/ebpf/pdr.go) in the memory layout *)
(* of a little-endian machine, and read back by match_sdf_filter_ipv4 and  *)
(* match_sdf_filter_ipv6 (cmd/ebpf/xdp/sdf_filter.h) for every packet.     *)
(*                                                                         *)
(* An octet is the set of its one bits, bit 0 being the most significant,  *)
(* so the bitwise and of two octets is their intersection.  An address is  *)
(* the sequence of its octets; on the wire and in memory octet 1 comes     *)
(* first.  A machine word is the sequence of its octets in memory.  The    *)
(* real sizes are OctetBits = 8, V4Len = 4, V6Len = 16, MaxPort = 65535.   *)
(***************************************************************************)
EXTENDS Integers, Sequences, SequencesExt

CONSTANTS
    OctetBits, V4Len, V6Len, MaxPort,
    MaxUint,        \* the largest number strconv.ParseUint accepts
    Description,    \* the flow descriptions the SMF may send
    Packet,         \* the packets the datapath may meet
    NoText, NoFilter, NoPkt

ASSUME SizesAssumption ==
    /\ {OctetBits, V4Len, V6Len, MaxPort, MaxUint} \subseteq Nat \ {0}
    /\ V4Len < V6Len

VARIABLES
    desc,           \* the description of the PDR, NoText without one
    sdf,            \* pdr->sdf_rules.sdf_filter, NoFilter without one
    rejected,       \* extractPDR returned an error
    pkt,            \* the packet last classified, NoPkt before the first
    verdict         \* what match_sdf_filter_ipv4/6 returned for it

vars == <<desc, sdf, rejected, pkt, verdict>>

NoMask == -1        \* no "/mask" in the text

Octet == SUBSET (0..OctetBits - 1)
Zeros(len) == [i \in 1..len |-> {}]
And(a, b) == [i \in DOMAIN a |-> a[i] \cap b[i]]

\* An address in either family, as net.ParseIP returns it.
Address == [1..V4Len -> Octet] \cup [1..V6Len -> Octet]

\* A text is what the regular expression cuts out of a line: a literal that
\* net.ParseIP accepts, a mask and ports that are numbers of any size.
ASSUME TextsAssumption ==
    /\ NoText \notin Description
    /\ \A d \in Description :
          /\ \A a \in {d.src, d.dst} :
                a.kind \notin {"any", "assigned", "bad"} => a.octets \in Address
          /\ {d.srcMask, d.dstMask} \subseteq Nat \cup {NoMask}
          /\ \A ports \in {d.srcPort, d.dstPort} : ports \in Seq(Nat) /\ Len(ports) <= 2

\* A packet goes uplink (inside a tunnel) or downlink.  Both its addresses have its
\* family, ports have 16 bits.
ASSUME PacketsAssumption ==
    \A p \in Packet :
        /\ p.dir \in {"ul", "dl"}
        /\ \E len \in {V4Len, V6Len} : {p.saddr, p.daddr} \subseteq [1..len -> Octet]
        /\ {p.sport, p.dport} \subseteq 0..MaxPort

-----------------------------------------------------------------------------
(* The parser.  A description is a record of its texts: the form of the    *)
(* line, the protocol, and for each side the address (its kind and, for a  *)
(* literal, its octets), the mask and the port texts (none, one or two).   *)

\* protocolMap; "58" is renamed to icmp6 first.
ProtocolMap == [icmp |-> 0, ip |-> 1, tcp |-> 2, udp |-> 3, icmp6 |-> 4]
ParseProtocol(text) == ProtocolMap[IF text = "58" THEN "icmp6" ELSE text]
BadProtocol(text) == text \notin DOMAIN ProtocolMap \cup {"58"}

\* The regular expression admits the keyword assigned only after "to", and
\* of the protocol names only these (any other must be a number).
Formatted(d) ==
    /\ d.form = "permit out"
    /\ d.proto # "icmp6"
    /\ d.src.kind # "assigned"

\* External: net.ParseIP gives 16 octets for both families, To4 recognises
\* the mapped ones.
MappedPrefix ==
    [i \in 1..V6Len - V4Len |->
        IF i <= V6Len - V4Len - V4Len \div 2 THEN {} ELSE 0..OctetBits - 1]
IsMapped(o) == Len(o) = V6Len /\ SubSeq(o, 1, V6Len - V4Len) = MappedPrefix
To4(o) == IF IsMapped(o) THEN SubSeq(o, V6Len - V4Len + 1, V6Len) ELSE o

\* External: net.CIDRMask, nil (no octets) for a prefix longer than the address.
CIDRMask(n, len) ==
    IF n > OctetBits * len THEN <<>>
    ELSE [i \in 1..len |-> {b \in 0..OctetBits - 1 : OctetBits * (i - 1) + b < n}]

\* External: IP.Mask, nil when the lengths differ.
MaskIP(ip, mask) == IF Len(mask) = Len(ip) THEN And(ip, mask) ELSE <<>>

BadCidrIp(addr, mask) == addr.kind = "bad" \/ mask > MaxUint

\* Without a mask text the address is kept whole under the full mask.
ParseCidrIp(addr, mask) ==
    LET ip == To4(addr.octets)
        m  == CIDRMask(IF mask = NoMask THEN OctetBits * Len(ip) ELSE mask, Len(ip))
    IN  [type |-> IF Len(ip) = V4Len THEN 1 ELSE 2,
         ip   |-> IF mask = NoMask THEN ip ELSE MaskIP(ip, m),
         mask |-> m]

ParseAddress(addr, mask) ==
    IF addr.kind \in {"any", "assigned"}
    THEN [type |-> 0, ip |-> <<>>, mask |-> <<>>]
    ELSE ParseCidrIp(addr, mask)

BadPort(p) == p > MaxPort

\* Mutant of BadPortRange: the two bounds in any order.
BadPortRangeUnordered(ports) == \E i \in DOMAIN ports : BadPort(ports[i])

BadPortRange(ports) ==
    \/ \E i \in DOMAIN ports : BadPort(ports[i])
    \/ Len(ports) = 2 /\ ports[1] > ports[2]

ParsePortRange(ports) ==
    IF ports = <<>> THEN [lower |-> 0, upper |-> MaxPort]
    ELSE [lower |-> Head(ports), upper |-> Last(ports)]

\* The conditions under which ParseSdfFilter returns an error.
Refused(d) ==
    \/ ~ Formatted(d)
    \/ BadProtocol(d.proto)
    \/ IF d.src.kind = "any" THEN d.srcMask # NoMask ELSE BadCidrIp(d.src, d.srcMask)
    \/ BadPortRange(d.srcPort)
    \/ d.dst.kind \notin {"any", "assigned"} /\ BadCidrIp(d.dst, d.dstMask)
    \/ BadPortRange(d.dstPort)

ParseSdfFilter(d) ==
    [protocol |-> ParseProtocol(d.proto),
     srcAddr |-> ParseAddress(d.src, d.srcMask), srcPort |-> ParsePortRange(d.srcPort),
     dstAddr |-> ParseAddress(d.dst, d.dstMask), dstPort |-> ParsePortRange(d.dstPort)]

-----------------------------------------------------------------------------
(* The copy into the map value: the octets of an address or mask reversed  *)
(* into the low end of a 16-octet word, all zero for nil.                  *)

\* Mutant of Copy16Ip: the octets in the order of the slice.
Copy16IpUnreversed(arr) ==
    [i \in 1..V6Len |-> IF i <= Len(arr) THEN arr[i] ELSE {}]

Copy16Ip(arr) ==
    [i \in 1..V6Len |-> IF i <= Len(arr) THEN arr[Len(arr) + 1 - i] ELSE {}]

Store(a) == [type |-> a.type, ip |-> Copy16Ip(a.ip), mask |-> Copy16Ip(a.mask)]

CombinePdrWithSdf(f) ==
    [f EXCEPT !.srcAddr = Store(f.srcAddr), !.dstAddr = Store(f.dstAddr)]

-----------------------------------------------------------------------------
(* The matcher.  A packet has a direction, a protocol, its two addresses,  *)
(* whose length is its family, and two ports that count if it is TCP or    *)
(* UDP.  It is whole: the headers of fragments are not modelled.           *)

IsIPv6(p) == Len(p.saddr) = V6Len

\* The packets that come to a PDR: of those that go downlink handle_ip4 and
\* handle_ip6 hand over only some, while inside a tunnel every protocol is taken.
Handled(p) ==
    p.dir = "dl" => p.proto \in {"udp", "tcp"} \cup IF IsIPv6(p) THEN {} ELSE {"icmp"}

\* ctx->udp or ctx->tcp is set: parse_l4 sets it uplink, handle_ip4 and handle_ip6
\* downlink, where the latter has no parse_udp.
L4Parsed(p) ==
    \/ p.proto = "tcp"
    \/ p.proto = "udp" /\ ~(p.dir = "dl" /\ IsIPv6(p))

GetSdfProtocol(proto) ==
    CASE proto = "icmp" -> 0 [] proto = "tcp" -> 2 [] proto = "udp" -> 3 [] OTHER -> 1

\* packet_src_port and packet_dst_port stay 0 without a parsed TCP or UDP header.
PortOf(p, port) == IF L4Parsed(p) THEN port ELSE 0

\* bpf_htonl keeps the low 32 bits of its argument and swaps their octets.
Htonl(word) == Reverse(SubSeq(word, 1, V4Len))
Widen(word) == word \o Zeros(V6Len - Len(word))

MatchAddress4(addr, a) == And(addr, Htonl(a.mask)) = Htonl(a.ip)

\* Here only the address goes through bpf_htonl, and the mask does not.
MatchAddress6(addr, a) == And(addr, a.mask) = Widen(Htonl(a.ip))

InRange(port, r) == r.lower <= port /\ port <= r.upper

\* The conditions common to match_sdf_filter_ipv4 and match_sdf_filter_ipv6.
MatchRest(p, f) ==
    /\ f.protocol = 1 \/ f.protocol = GetSdfProtocol(p.proto)
    /\ InRange(PortOf(p, p.sport), f.srcPort)
    /\ InRange(PortOf(p, p.dport), f.dstPort)

MatchSdfFilterIpv4(p, f) ==
    MatchRest(p, f) /\ MatchAddress4(p.saddr, f.srcAddr) /\ MatchAddress4(p.daddr, f.dstAddr)
MatchSdfFilterIpv6(p, f) ==
    MatchRest(p, f) /\ MatchAddress6(p.saddr, f.srcAddr) /\ MatchAddress6(p.daddr, f.dstAddr)

-----------------------------------------------------------------------------
Init ==
    /\ desc = NoText /\ sdf = NoFilter /\ rejected = FALSE
    /\ pkt = NoPkt /\ verdict = FALSE

\* extractPDR: a description that does not parse fails the whole request.
ExtractPDR ==
    /\ desc = NoText
    /\ \E d \in Description :
          /\ desc' = d
          /\ rejected' = Refused(d)
          /\ sdf' = IF Refused(d) THEN NoFilter ELSE CombinePdrWithSdf(ParseSdfFilter(d))
    /\ UNCHANGED <<pkt, verdict>>

\* A packet reaches a PDR with an SDF filter.  The matcher keeps no state,
\* so one packet per filter covers every sequence of packets.
Classify ==
    /\ sdf # NoFilter /\ pkt = NoPkt
    /\ \E p \in Packet :
          /\ Handled(p)
          /\ pkt' = p
          /\ verdict' = IF IsIPv6(p) THEN MatchSdfFilterIpv6(p, sdf)
                                     ELSE MatchSdfFilterIpv4(p, sdf)
    /\ UNCHANGED <<desc, sdf, rejected>>

\* The PDR is removed, or its request has been answered with an error.
RemovePDR ==
    /\ desc # NoText
    /\ desc' = NoText /\ sdf' = NoFilter /\ rejected' = FALSE
    /\ pkt' = NoPkt /\ verdict' = FALSE

Next == ExtractPDR \/ Classify \/ RemovePDR

Spec == Init /\ [][Next]_vars

-----------------------------------------------------------------------------
StoredAddress == [type : 0..2, ip : [1..V6Len -> Octet], mask : [1..V6Len -> Octet]]
StoredRange == {r \in [lower : 0..MaxPort, upper : 0..MaxPort] : r.lower <= r.upper}

\* What the map value may hold (struct sdf_filter): two
\* words per address, ports that fit 16 bits and, since ParsePortRange
\* refuses the others, no empty range.
TypeOK ==
    /\ pkt # NoPkt => pkt \in Packet /\ sdf # NoFilter
    /\ rejected \in BOOLEAN /\ verdict \in BOOLEAN
    /\ sdf # NoFilter =>
          /\ DOMAIN sdf = {"protocol", "srcAddr", "srcPort", "dstAddr", "dstPort"}
          /\ sdf.protocol \in 0..4
          /\ {sdf.srcAddr, sdf.dstAddr} \subseteq StoredAddress
          /\ {sdf.srcPort, sdf.dstPort} \subseteq StoredRange

(* The reference: what a flow description says, on the text and the packet *)
(* as they are written, with no word, mask or byte order in it.            *)

BitAt(o, b) == (b % OctetBits) \in o[b \div OctetBits + 1]

AddressPermitted(addr, mask, o) ==
    \/ addr.kind \in {"any", "assigned"}
    \/ LET lit == IF Len(o) = V4Len THEN To4(addr.octets) ELSE addr.octets
           n   == IF mask = NoMask THEN OctetBits * Len(o) ELSE mask
       IN  \A b \in 0..n - 1 : BitAt(lit, b) = BitAt(o, b)

\* A port text asks for a packet that has ports.
HasPorts(p) == p.proto \in {"tcp", "udp"}
PortPermitted(ports, p, port) ==
    ports = <<>> \/ (HasPorts(p) /\ Head(ports) <= port /\ port <= Last(ports))

Permits(d, p) ==
    /\ d.proto = "ip" \/ d.proto = p.proto
    /\ AddressPermitted(d.src, d.srcMask, p.saddr)
    /\ AddressPermitted(d.dst, d.dstMask, p.daddr)
    /\ PortPermitted(d.srcPort, p, p.sport)
    /\ PortPermitted(d.dstPort, p, p.dport)

\* The literals a stored filter carries faithfully: an IPv4 address (or a
\* mapped one), with a prefix no longer than it, compared with an IPv4 packet.
Carried(addr, mask, o) ==
    \/ addr.kind \in {"any", "assigned"}
    \/ /\ Len(o) = V4Len /\ Len(To4(addr.octets)) = V4Len
       /\ mask <= OctetBits * V4Len

\* The port texts a packet is compared with faithfully: any, when its ports were
\* parsed; none otherwise, but for a packet without ports also those above 0.
PortsSeen(ports, p) ==
    \/ L4Parsed(p)
    \/ ports = <<>>
    \/ ~HasPorts(p) /\ Head(ports) > 0

\* The filter in the map matches exactly the packets its description permits,
\* through masking, the reversal by Copy16Ip, the swap by bpf_htonl and the
\* default port ranges, for every packet and description but four cases, which
\* the matcher gets wrong: IPv6 literals and prefixes that are too long (Carried),
\* port texts for a downlink IPv6 UDP packet, whose header handle_ip6 does not
\* parse, port ranges from 0 for a packet without ports (PortsSeen), and protocol
\* 58 (get_sdf_protocol never returns 4).
MatchesAsDescribed ==
    pkt # NoPkt /\ desc.proto # "58"
                /\ Carried(desc.src, desc.srcMask, pkt.saddr)
                /\ Carried(desc.dst, desc.dstMask, pkt.daddr)
                /\ PortsSeen(desc.srcPort, pkt) /\ PortsSeen(desc.dstPort, pkt)
    => verdict = Permits(desc, pkt)
=============================================================================
