----------------------------- MODULE MCSdfFilter -----------------------------
(* Octets of 2 bits, IPv4 addresses of 2 octets and IPv6 addresses of 4, so *)
(* that a prefix can end inside an octet and the order of octets matters.   *)
EXTENDS SdfFilter

Text(kind, octets) == [kind |-> kind, octets |-> octets]
AnyHost == Text("any", <<>>)
HostA == <<{0}, {1}>>
HostB == <<{0}, {0, 1}>>
HostC == <<{1}, {0}>>
Mapped == <<{}, {0, 1}, {0}, {1}>>
HostV6 == <<{1}, {0}, {}, {1}>>

\* Every text of one side, and the few the other side is combined with.
Sides ==
    [addr : {AnyHost, Text("assigned", <<>>), Text("bad", <<>>), Text("v4", HostA),
             Text("v4", HostC), Text("v6", Mapped), Text("v6", HostV6)},
     mask : {NoMask, 0, 1, 3, 4, 5, 9},
     port : {<<>>, <<1>>, <<0, 1>>, <<2, 1>>, <<3>>}]
FewSides ==
    [addr : {AnyHost}, mask : {NoMask}, port : {<<>>}]
        \cup [addr : {Text("v4", HostB)}, mask : {NoMask, 3}, port : {<<1>>}]

Describe(form, proto, s, t) ==
    [form |-> form, proto |-> proto,
     src |-> s.addr, srcMask |-> s.mask, srcPort |-> s.port,
     dst |-> t.addr, dstMask |-> t.mask, dstPort |-> t.port]

MCDescription ==
    {Describe("permit out", proto, s, t) :
        proto \in {"icmp", "ip", "tcp", "58"}, s \in Sides, t \in FewSides}
    \cup {Describe("permit out", proto, t, s) :
        proto \in {"ip", "tcp", "udp"}, s \in Sides, t \in FewSides}
    \cup {Describe(form, proto, s, s) : form \in {"permit out", "deny in"},
        proto \in {"icmp", "icmp6", "6"}, s \in FewSides}

Pairs == ({HostA, HostB, HostC} \X {HostA, HostB}) \cup ({HostB} \X {HostC})
            \cup {<<HostV6, HostV6>>, <<HostV6, <<{}, {}, {}, {}>> >>}
MCPacket ==
    {[dir |-> dir, proto |-> proto, saddr |-> a[1], daddr |-> a[2], sport |-> sp, dport |-> dp] :
        dir \in {"ul", "dl"}, proto \in {"tcp", "udp"}, a \in Pairs, sp \in 0..2, dp \in 1..2}
    \cup {[dir |-> dir, proto |-> proto, saddr |-> a[1], daddr |-> a[2], sport |-> 0, dport |-> 0] :
        dir \in {"ul", "dl"}, proto \in {"icmp", "icmp6", "sctp"}, a \in Pairs}
=============================================================================
