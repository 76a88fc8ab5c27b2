--------------------------- MODULE SdfFilterProofs ---------------------------
(***************************************************************************)
(* Proofs about SdfFilter, for octets, addresses and ports of any size and *)
(* any descriptions and packets: what the parser, Copy16Ip, bpf_htonl and  *)
(* the masks make of a flow description together is what it says.          *)
(***************************************************************************)
EXTENDS SdfFilter, TLAPS

\* What Classify answers.
Verdict(p, f) ==
    IF IsIPv6(p) THEN MatchSdfFilterIpv6(p, f) ELSE MatchSdfFilterIpv4(p, f)

\* The filter in the map is that of an accepted description, and the verdict that
\* of the matcher on it.
Filtered ==
    /\ sdf # NoFilter => /\ desc \in Description /\ ~Refused(desc)
                         /\ sdf = CombinePdrWithSdf(ParseSdfFilter(desc))
    /\ pkt # NoPkt => pkt \in Packet /\ sdf # NoFilter /\ verdict = Verdict(pkt, sdf)
    /\ rejected \in BOOLEAN /\ verdict \in BOOLEAN

LEMMA FilteredAlways == Spec => []Filtered
<1>1. Init => Filtered
  BY DEF Init, Filtered
<1>2. Filtered /\ [Next]_vars => Filtered'
  <2> SUFFICES ASSUME Filtered, [Next]_vars PROVE Filtered'
    OBVIOUS
  <2>1. ASSUME ExtractPDR PROVE Filtered'
    <3>1. desc = NoText /\ sdf = NoFilter /\ pkt = NoPkt
      BY <2>1, TextsAssumption DEF ExtractPDR, Filtered
    <3>2. PICK d \in Description :
            /\ desc' = d /\ rejected' = Refused(d)
            /\ sdf' = IF Refused(d) THEN NoFilter ELSE CombinePdrWithSdf(ParseSdfFilter(d))
            /\ UNCHANGED <<pkt, verdict>>
      BY <2>1 DEF ExtractPDR
    <3>3. Refused(d) \in BOOLEAN
      BY DEF Refused
    <3> QED  BY <3>1, <3>2, <3>3 DEF Filtered
  <2>2. ASSUME Classify PROVE Filtered'
    <3>1. PICK p \in Packet : pkt' = p /\ verdict' = Verdict(p, sdf)
      BY <2>2 DEF Classify, Verdict
    <3>2. sdf # NoFilter /\ UNCHANGED <<desc, sdf, rejected>>
      BY <2>2 DEF Classify
    <3>3. Verdict(p, sdf) \in BOOLEAN
      BY DEF Verdict, MatchSdfFilterIpv4, MatchSdfFilterIpv6
    <3> QED  BY <3>1, <3>2, <3>3 DEF Filtered
  <2>3. ASSUME RemovePDR PROVE Filtered'
    BY <2>3 DEF RemovePDR, Filtered
  <2>4. ASSUME UNCHANGED vars PROVE Filtered'
    BY <2>4 DEF vars, Filtered, Verdict
  <2> QED  BY <2>1, <2>2, <2>3, <2>4 DEF Next
<1> QED  BY <1>1, <1>2, PTL DEF Spec

-----------------------------------------------------------------------------
(* Bits and octets *)

\* Positions of bits: products with the size of an octet grow with the octet.
LEMMA Products ==
    ASSUME NEW k \in Nat, NEW i \in Nat, NEW j \in Nat, i < j
    PROVE  k * i + k <= k * j
<1>1. PICK e \in Nat : j = i + 1 + e
  <2>1. j - i - 1 \in Nat /\ j = i + 1 + (j - i - 1)
    OBVIOUS
  <2> QED  BY <2>1
<1>2. k * (i + 1 + e) = k * i + k + k * e
  OBVIOUS
<1>3. k * e \in Nat
  OBVIOUS
<1> QED  BY <1>1, <1>2, <1>3

\* Bit b of octet i is bit OctetBits * (i - 1) + b of the address.
LEMMA BitPosition ==
    ASSUME NEW i \in Nat \ {0}, NEW b \in 0..OctetBits - 1
    PROVE  LET k == OctetBits * (i - 1) + b
           IN  k \in Nat /\ k \div OctetBits + 1 = i /\ k % OctetBits = b
<1> DEFINE k == OctetBits * (i - 1) + b
<1>0. OctetBits \in Nat \ {0}
  BY SizesAssumption
<1>1. OctetBits * (i - 1) \in Nat
  BY <1>0
<1>2. k \in Nat
  BY <1>0, <1>1
<1> DEFINE q == k \div OctetBits
           r == k % OctetBits
<1>3. q \in Nat /\ r \in 0..OctetBits - 1 /\ k = OctetBits * q + r
  BY <1>0, <1>2
<1>4. OctetBits * q \in Nat
  BY <1>0, <1>3
<1> HIDE DEF q, r
<1>5. q = i - 1
  <2>1. ASSUME q < i - 1 PROVE FALSE
    <3>1. OctetBits * q + OctetBits <= OctetBits * (i - 1)
      BY <1>0, <1>3, <2>1, Products
    <3> QED  BY <1>0, <1>1, <1>3, <1>4, <3>1
  <2>2. ASSUME i - 1 < q PROVE FALSE
    <3>1. OctetBits * (i - 1) + OctetBits <= OctetBits * q
      BY <1>0, <1>3, <2>2, Products
    <3> QED  BY <1>0, <1>1, <1>3, <1>4, <3>1
  <2> QED  BY <1>3, <2>1, <2>2
<1>6. r = b
  BY <1>0, <1>1, <1>3, <1>5
<1> QED  BY <1>2, <1>3, <1>5, <1>6 DEF q, r

\* Every bit of an address of len octets is a bit of one of them.
LEMMA PositionBit ==
    ASSUME NEW len \in Nat, NEW k \in Nat, k < OctetBits * len
    PROVE  /\ k \div OctetBits + 1 \in 1..len
           /\ k % OctetBits \in 0..OctetBits - 1
           /\ OctetBits * (k \div OctetBits) + (k % OctetBits) = k
<1>0. OctetBits \in Nat \ {0}
  BY SizesAssumption
<1> DEFINE q == k \div OctetBits
           r == k % OctetBits
<1>1. q \in Nat /\ r \in 0..OctetBits - 1 /\ k = OctetBits * q + r
  BY <1>0
<1>2. OctetBits * q \in Nat /\ OctetBits * len \in Nat
  BY <1>0, <1>1
<1> HIDE DEF q, r
<1>3. q < len
  <2>1. ASSUME len <= q PROVE FALSE
    <3>1. OctetBits * len <= OctetBits * q
      BY <1>0, <1>1, <1>2, <2>1, Products
    <3> QED  BY <1>0, <1>1, <1>2, <3>1
  <2> QED  BY <1>1, <2>1
<1> QED  BY <1>1, <1>3 DEF q, r

\* The last bit of an octet of the address is a bit of the address.
LEMMA BitInAddress ==
    ASSUME NEW len \in Nat, NEW i \in 1..len, NEW b \in 0..OctetBits - 1
    PROVE  OctetBits * (i - 1) + b < OctetBits * len
<1>0. OctetBits \in Nat \ {0}
  BY SizesAssumption
<1>1. OctetBits * (i - 1) + OctetBits <= OctetBits * len
  BY <1>0, Products
<1>2. OctetBits * (i - 1) \in Nat /\ OctetBits * len \in Nat
  BY <1>0
<1> QED  BY <1>0, <1>1, <1>2

-----------------------------------------------------------------------------
(* Words *)

LEMMA Sizes ==
    /\ OctetBits \in Nat \ {0} /\ V4Len \in Nat \ {0} /\ V6Len \in Nat \ {0}
    /\ MaxPort \in Nat \ {0} /\ MaxUint \in Nat \ {0} /\ V4Len < V6Len
  BY SizesAssumption

\* Copy16Ip makes a word of any address or mask, and of nil one of zeros.
LEMMA Copied ==
    /\ Copy16Ip(<<>>) = Zeros(V6Len)
    /\ \A len \in 0..V6Len : \A x \in [1..len -> Octet] : Copy16Ip(x) \in [1..V6Len -> Octet]
<1>1. Copy16Ip(<<>>) = Zeros(V6Len)
  BY Sizes DEF Copy16Ip, Zeros
<1>2. ASSUME NEW len \in 0..V6Len, NEW x \in [1..len -> Octet]
      PROVE  Copy16Ip(x) \in [1..V6Len -> Octet]
  <2>1. Len(x) = len
    OBVIOUS
  <2>2. ASSUME NEW i \in 1..V6Len PROVE (IF i <= len THEN x[len + 1 - i] ELSE {}) \in Octet
    <3>1. i <= len => len + 1 - i \in 1..len
      BY Sizes
    <3>2. {} \in Octet
      BY DEF Octet
    <3> QED  BY <3>1, <3>2
  <2> QED  BY <2>1, <2>2 DEF Copy16Ip
<1> QED  BY <1>1, <1>2

\* bpf_htonl undoes what Copy16Ip did to an IPv4 address or mask.
LEMMA HtonlUndoesCopy ==
    ASSUME NEW x \in [1..V4Len -> Octet]
    PROVE  Htonl(Copy16Ip(x)) = x
<1>1. Len(x) = V4Len
  BY Sizes
<1>2. /\ Copy16Ip(x) \in Seq(Octet) /\ Len(Copy16Ip(x)) = V6Len
      /\ \A i \in 1..V4Len : Copy16Ip(x)[i] = x[V4Len + 1 - i]
  <2>1. Copy16Ip(x) \in [1..V6Len -> Octet]
    BY Sizes, Copied
  <2> QED  BY <1>1, <2>1, Sizes DEF Copy16Ip
<1> DEFINE w == SubSeq(Copy16Ip(x), 1, V4Len)
<1>3. Len(w) = V4Len /\ \A i \in 1..V4Len : w[i] = x[V4Len + 1 - i]
  BY <1>2, Sizes
<1> HIDE DEF w
<1>4. Reverse(w) = [i \in 1..V4Len |-> w[(V4Len - i) + 1]]
  BY <1>3 DEF Reverse
<1>5. ASSUME NEW i \in 1..V4Len PROVE w[(V4Len - i) + 1] = x[i]
  <2>1. (V4Len - i) + 1 \in 1..V4Len /\ V4Len + 1 - ((V4Len - i) + 1) = i
    BY Sizes
  <2> QED  BY <1>3, <2>1
<1> QED  BY <1>4, <1>5 DEF Htonl, w

\* A word of zeros stays one.
LEMMA HtonlZeros == Htonl(Zeros(V6Len)) = Zeros(V4Len)
<1>1. Zeros(V6Len) \in Seq({{}}) /\ Len(Zeros(V6Len)) = V6Len
  BY Sizes DEF Zeros
<1> DEFINE w == SubSeq(Zeros(V6Len), 1, V4Len)
<1>2. Len(w) = V4Len /\ \A i \in 1..V4Len : w[i] = {}
  BY <1>1, Sizes DEF Zeros
<1> HIDE DEF w
<1>3. Reverse(w) = [i \in 1..V4Len |-> w[(V4Len - i) + 1]]
  BY <1>2 DEF Reverse
<1>4. ASSUME NEW i \in 1..V4Len PROVE w[(V4Len - i) + 1] = {}
  BY <1>2, Sizes
<1> QED  BY <1>3, <1>4 DEF Htonl, w, Zeros

LEMMA WidenZeros == Widen(Zeros(V4Len)) = Zeros(V6Len)
<1> DEFINE a == Zeros(V4Len)
           z == Zeros(V6Len - V4Len)
<1>1. /\ a \in Seq({{}}) /\ Len(a) = V4Len
      /\ z \in Seq({{}}) /\ Len(z) = V6Len - V4Len
  BY Sizes DEF Zeros
<1>2. a \o z \in Seq({{}}) /\ Len(a \o z) = V6Len
  BY <1>1, Sizes
<1>3. \A i \in 1..V6Len : (a \o z)[i] = {}
  BY <1>2
<1> DEFINE w == a \o z
<1> HIDE DEF w
<1>4. w \in Seq({{}}) /\ Len(w) = V6Len /\ \A i \in 1..V6Len : w[i] = {}
  BY <1>2, <1>3 DEF w
<1>5. w = [i \in 1..V6Len |-> w[i]]
  BY <1>4
<1>6. w = Zeros(V6Len)
  BY <1>4, <1>5 DEF Zeros
<1> QED  BY <1>1, <1>6 DEF Widen, w

-----------------------------------------------------------------------------
(* Types *)

Literal(addr) == addr.kind \notin {"any", "assigned"}

\* net.IP.To4 gives an address of one of the two families.
LEMMA To4Address ==
    ASSUME NEW x \in Address
    PROVE  \E len \in {V4Len, V6Len} : To4(x) \in [1..len -> Octet]
<1>1. CASE IsMapped(x)
  <2>1. x \in [1..V6Len -> Octet] /\ Len(x) = V6Len
    BY <1>1, Sizes DEF IsMapped, Address
  <2> DEFINE w == SubSeq(x, V6Len - V4Len + 1, V6Len)
  <2>2. x \in Seq(Octet)
    BY <2>1, Sizes
  <2>3. w \in Seq(Octet) /\ Len(w) = V4Len
    BY <2>1, <2>2, Sizes
  <2> HIDE DEF w
  <2>4. w = [i \in 1..V4Len |-> w[i]] /\ \A i \in 1..V4Len : w[i] \in Octet
    BY <2>3
  <2> QED  BY <1>1, <2>4 DEF To4, w
<1>2. CASE ~IsMapped(x)
  BY <1>2 DEF To4, Address
<1> QED  BY <1>1, <1>2

\* net.CIDRMask gives a mask as long as the address, or nil.
LEMMA MaskFits ==
    ASSUME NEW len \in Nat, NEW n \in Nat
    PROVE  /\ n <= OctetBits * len => CIDRMask(n, len) \in [1..len -> Octet]
           /\ ~(n <= OctetBits * len) => CIDRMask(n, len) = <<>>
<1>1. OctetBits * len \in Nat
  BY Sizes
<1>2. n <= OctetBits * len <=> ~(n > OctetBits * len)
  BY <1>1
<1>3. \A i \in 1..len : {b \in 0..OctetBits - 1 : OctetBits * (i - 1) + b < n} \in Octet
  BY DEF Octet
<1> QED  BY <1>2, <1>3 DEF CIDRMask

\* The number of bits that count.
Prefix(mask, len) == IF mask = NoMask THEN OctetBits * len ELSE mask

\* A literal as the parser leaves it: the address under its mask, or nil for a
\* prefix that is too long.
LEMMA Parsed ==
    ASSUME NEW len \in {V4Len, V6Len}, NEW addr, To4(addr.octets) \in [1..len -> Octet],
           NEW mask \in Nat \cup {NoMask}
    PROVE  LET a == ParseCidrIp(addr, mask)
               n == Prefix(mask, len)
           IN  /\ n \in Nat /\ a.mask = CIDRMask(n, len) /\ a.type \in 0..2
               /\ n <= OctetBits * len => /\ a.ip = And(To4(addr.octets), CIDRMask(n, len))
                                          /\ a.ip \in [1..len -> Octet]
               /\ ~(n <= OctetBits * len) => a.ip = <<>>
<1> DEFINE ip == To4(addr.octets)
           n == Prefix(mask, len)
           m == CIDRMask(n, len)
           a == ParseCidrIp(addr, mask)
<1>1. len \in Nat \ {0} /\ Len(ip) = len /\ OctetBits * len \in Nat
  BY Sizes
<1>2. n \in Nat
  BY <1>1 DEF NoMask, Prefix
<1>3. /\ a.mask = m /\ a.type \in 0..2
      /\ a.ip = IF mask = NoMask THEN ip ELSE MaskIP(ip, m)
  BY <1>1 DEF ParseCidrIp, Prefix
<1>4. ASSUME n <= OctetBits * len PROVE a.ip = And(ip, m) /\ And(ip, m) \in [1..len -> Octet]
  <2>1. m \in [1..len -> Octet] /\ Len(m) = len
    BY <1>1, <1>2, <1>4, MaskFits
  <2>2. And(ip, m) \in [1..len -> Octet]
    <3>1. \A i \in 1..len : ip[i] \cap m[i] \in Octet
      BY DEF Octet
    <3> QED  BY <3>1 DEF And
  <2>3. mask = NoMask => ip = And(ip, m)
    <3> SUFFICES ASSUME mask = NoMask, NEW i \in 1..len PROVE ip[i] = ip[i] \cap m[i]
      BY DEF And
    <3>1. m[i] = {b \in 0..OctetBits - 1 : OctetBits * (i - 1) + b < n}
      BY <1>1, <1>2, <1>4 DEF CIDRMask
    <3>2. n = OctetBits * len
      BY DEF Prefix
    <3>3. \A b \in 0..OctetBits - 1 : OctetBits * (i - 1) + b < n
      BY <1>1, <3>2, BitInAddress
    <3> QED  BY <3>1, <3>3 DEF Octet
  <2> QED  BY <1>1, <1>3, <2>1, <2>2, <2>3 DEF MaskIP
<1>5. ASSUME ~(n <= OctetBits * len) PROVE a.ip = <<>>
  <2>1. mask # NoMask
    BY <1>1, <1>5 DEF Prefix
  <2>2. m = <<>>
    BY <1>1, <1>2, <1>5, MaskFits
  <2> QED  BY <1>1, <1>3, <2>1, <2>2 DEF MaskIP
<1> QED  BY <1>2, <1>3, <1>4, <1>5

\* What the map value gets for an address that the parser accepts.
LEMMA AddressStored ==
    ASSUME NEW addr, NEW mask \in Nat \cup {NoMask},
           Literal(addr) => addr.octets \in Address
    PROVE  Store(ParseAddress(addr, mask)) \in StoredAddress
<1> DEFINE a == ParseAddress(addr, mask)
<1>1. /\ a.type \in 0..2
      /\ a.ip = <<>> \/ \E len \in 0..V6Len : a.ip \in [1..len -> Octet]
      /\ a.mask = <<>> \/ \E len \in 0..V6Len : a.mask \in [1..len -> Octet]
  <2>1. CASE ~Literal(addr)
    <3>1. a.type = 0 /\ a.ip = <<>> /\ a.mask = <<>>
      BY <2>1 DEF ParseAddress, Literal
    <3> QED  BY <3>1
  <2>2. CASE Literal(addr)
    <3>1. PICK len \in {V4Len, V6Len} : To4(addr.octets) \in [1..len -> Octet]
      BY <2>2, To4Address
    <3>2. a = ParseCidrIp(addr, mask) /\ len \in 0..V6Len /\ len \in Nat
      BY <2>2, Sizes DEF ParseAddress, Literal
    <3> DEFINE n == Prefix(mask, len)
    <3> HIDE DEF n, a
    <3>3. /\ n \in Nat /\ a.mask = CIDRMask(n, len) /\ a.type \in 0..2
          /\ n <= OctetBits * len => a.ip \in [1..len -> Octet]
          /\ ~(n <= OctetBits * len) => a.ip = <<>>
      BY <3>1, <3>2, Parsed DEF n
    <3>4. /\ n <= OctetBits * len => a.mask \in [1..len -> Octet]
          /\ ~(n <= OctetBits * len) => a.mask = <<>>
      BY <3>2, <3>3, MaskFits
    <3> QED  BY <3>2, <3>3, <3>4
  <2> QED  BY <2>1, <2>2
<1>2. Zeros(V6Len) \in [1..V6Len -> Octet]
  BY DEF Zeros, Octet
<1> HIDE DEF a
<1>3. Copy16Ip(a.ip) \in [1..V6Len -> Octet] /\ Copy16Ip(a.mask) \in [1..V6Len -> Octet]
  BY <1>1, <1>2, Copied
<1> QED  BY <1>1, <1>3 DEF Store, StoredAddress, a

\* And for ports.
LEMMA PortsStored ==
    ASSUME NEW ports \in Seq(Nat), Len(ports) <= 2, ~BadPortRange(ports)
    PROVE  /\ ParsePortRange(ports) \in StoredRange
           /\ ports # <<>> => ParsePortRange(ports) = [lower |-> Head(ports), upper |-> Last(ports)]
<1>1. CASE ports = <<>>
  <2>1. ParsePortRange(ports) = [lower |-> 0, upper |-> MaxPort]
    BY <1>1 DEF ParsePortRange
  <2> QED  BY <1>1, <2>1, Sizes DEF StoredRange
<1>2. CASE ports # <<>>
  <2>1. ParsePortRange(ports) = [lower |-> ports[1], upper |-> ports[Len(ports)]]
    BY <1>2 DEF ParsePortRange, Last
  <2>0. Len(ports) \in Nat /\ Len(ports) # 0 /\ DOMAIN ports = 1..Len(ports)
    BY <1>2
  <2>2. Len(ports) \in 1..2 /\ DOMAIN ports = 1..Len(ports)
    BY <2>0
  <2>3. \A i \in 1..Len(ports) : ports[i] \in 0..MaxPort
    BY <2>2, Sizes DEF BadPortRange, BadPort
  <2>4. ports[1] \in 0..MaxPort /\ ports[Len(ports)] \in 0..MaxPort
    BY <2>2, <2>3
  <2>5. ports[1] <= ports[Len(ports)]
    <3>1. CASE Len(ports) = 1
      BY <2>4, <3>1, Sizes
    <3>2. CASE Len(ports) = 2
      BY <2>4, <3>2, Sizes DEF BadPortRange
    <3> QED  BY <2>2, <3>1, <3>2
  <2> QED  BY <1>2, <2>1, <2>4, <2>5 DEF StoredRange, ParsePortRange
<1> QED  BY <1>1, <1>2

\* The parts of the filter of an accepted description.
LEMMA FilterParts ==
    ASSUME NEW d \in Description, ~Refused(d)
    PROVE  LET f == CombinePdrWithSdf(ParseSdfFilter(d))
           IN  /\ DOMAIN f = {"protocol", "srcAddr", "srcPort", "dstAddr", "dstPort"}
               /\ f.protocol = ParseProtocol(d.proto)
               /\ f.srcAddr = Store(ParseAddress(d.src, d.srcMask))
               /\ f.dstAddr = Store(ParseAddress(d.dst, d.dstMask))
               /\ f.srcPort = ParsePortRange(d.srcPort)
               /\ f.dstPort = ParsePortRange(d.dstPort)
  BY DEF CombinePdrWithSdf, ParseSdfFilter

\* What an accepted description has.
LEMMA Accepted ==
    ASSUME NEW d \in Description, ~Refused(d)
    PROVE  /\ d.proto \in {"icmp", "ip", "tcp", "udp", "58"}
           /\ d.srcMask \in Nat \cup {NoMask} /\ d.dstMask \in Nat \cup {NoMask}
           /\ Literal(d.src) => d.src.octets \in Address
           /\ Literal(d.dst) => d.dst.octets \in Address
           /\ d.srcPort \in Seq(Nat) /\ Len(d.srcPort) <= 2 /\ ~BadPortRange(d.srcPort)
           /\ d.dstPort \in Seq(Nat) /\ Len(d.dstPort) <= 2 /\ ~BadPortRange(d.dstPort)
<1>1. d.proto \in {"icmp", "ip", "tcp", "udp", "58"}
  BY DEF Refused, Formatted, BadProtocol, ProtocolMap
<1>2. /\ d.src.kind # "assigned" /\ (d.src.kind # "any" => d.src.kind # "bad")
      /\ (Literal(d.dst) => d.dst.kind # "bad")
      /\ ~BadPortRange(d.srcPort) /\ ~BadPortRange(d.dstPort)
  BY DEF Refused, Formatted, BadCidrIp, Literal
<1> QED  BY <1>1, <1>2, TextsAssumption DEF Literal

\* For octets, addresses and ports of any size: the map value of a PDR with an SDF
\* filter is a struct sdf_filter, with no empty range of ports.
THEOREM FilterTypes == Spec => []TypeOK
<1>1. Filtered => TypeOK
  <2> SUFFICES ASSUME Filtered, sdf # NoFilter
               PROVE  /\ DOMAIN sdf = {"protocol", "srcAddr", "srcPort", "dstAddr", "dstPort"}
                      /\ sdf.protocol \in 0..4
                      /\ {sdf.srcAddr, sdf.dstAddr} \subseteq StoredAddress
                      /\ {sdf.srcPort, sdf.dstPort} \subseteq StoredRange
    BY DEF Filtered, TypeOK
  <2>1. desc \in Description /\ ~Refused(desc) /\ sdf = CombinePdrWithSdf(ParseSdfFilter(desc))
    BY DEF Filtered
  <2>2. ParseProtocol(desc.proto) \in 0..4
    BY <2>1, Accepted DEF ParseProtocol, ProtocolMap
  <2>3. /\ Store(ParseAddress(desc.src, desc.srcMask)) \in StoredAddress
        /\ Store(ParseAddress(desc.dst, desc.dstMask)) \in StoredAddress
    BY <2>1, Accepted, AddressStored
  <2>4. /\ ParsePortRange(desc.srcPort) \in StoredRange
        /\ ParsePortRange(desc.dstPort) \in StoredRange
    BY <2>1, Accepted, PortsStored
  <2> QED  BY <2>1, <2>2, <2>3, <2>4, FilterParts
<1> QED  BY <1>1, FilteredAlways, PTL

-----------------------------------------------------------------------------
(* Matching *)

\* Two addresses are equal under the mask of a prefix when they agree on its bits.
LEMMA MaskedEqual ==
    ASSUME NEW len \in Nat, NEW x \in [1..len -> Octet], NEW y \in [1..len -> Octet],
           NEW n \in Nat, n <= OctetBits * len
    PROVE  And(x, CIDRMask(n, len)) = And(y, CIDRMask(n, len))
             <=> \A b \in 0..n - 1 : BitAt(y, b) = BitAt(x, b)
<1> DEFINE m == CIDRMask(n, len)
<1>0. OctetBits * len \in Nat
  BY Sizes
<1>1. \A i \in 1..len : m[i] = {b \in 0..OctetBits - 1 : OctetBits * (i - 1) + b < n}
  BY <1>0 DEF CIDRMask
<1>2. ASSUME And(x, m) = And(y, m), NEW k \in 0..n - 1 PROVE BitAt(y, k) = BitAt(x, k)
  <2> DEFINE i == k \div OctetBits + 1
             b == k % OctetBits
  <2>1. k \in Nat /\ k < OctetBits * len
    BY <1>0
  <2>2. i \in 1..len /\ b \in 0..OctetBits - 1 /\ OctetBits * (i - 1) + b = k
    <3>1. i - 1 = k \div OctetBits
      BY <2>1, Sizes
    <3> QED  BY <2>1, <3>1, PositionBit
  <2> HIDE DEF i, b
  <2>3. b \in m[i]
    BY <1>1, <2>2
  <2>4. x[i] \cap m[i] = y[i] \cap m[i]
    <3>1. And(x, m)[i] = x[i] \cap m[i] /\ And(y, m)[i] = y[i] \cap m[i]
      BY <2>2 DEF And
    <3> QED  BY <1>2, <3>1
  <2>5. b \in y[i] <=> b \in x[i]
    BY <2>3, <2>4
  <2> QED  BY <2>5 DEF BitAt, i, b
<1>3. ASSUME \A b \in 0..n - 1 : BitAt(y, b) = BitAt(x, b) PROVE And(x, m) = And(y, m)
  <2> SUFFICES ASSUME NEW i \in 1..len PROVE x[i] \cap m[i] = y[i] \cap m[i]
    BY DEF And
  <2>1. ASSUME NEW b \in m[i] PROVE b \in y[i] <=> b \in x[i]
    <3> DEFINE k == OctetBits * (i - 1) + b
    <3>1. b \in 0..OctetBits - 1 /\ k < n
      BY <1>1, <2>1
    <3>2. k \in Nat /\ k \div OctetBits + 1 = i /\ k % OctetBits = b
      BY <3>1, BitPosition
    <3> HIDE DEF k
    <3>3. k \in 0..n - 1
      BY <3>1, <3>2
    <3>4. BitAt(y, k) = BitAt(x, k)
      BY <1>3, <3>3
    <3> QED  BY <3>2, <3>4 DEF BitAt
  <2> QED  BY <2>1
<1> QED  BY <1>2, <1>3

\* "any" and "assigned" match every address of either family.
LEMMA AnyMatches ==
    ASSUME NEW addr, NEW mask, ~Literal(addr)
    PROVE  /\ \A o \in [1..V4Len -> Octet] : MatchAddress4(o, Store(ParseAddress(addr, mask)))
           /\ \A o \in [1..V6Len -> Octet] : MatchAddress6(o, Store(ParseAddress(addr, mask)))
<1> DEFINE a == Store(ParseAddress(addr, mask))
<1>1. a.ip = Zeros(V6Len) /\ a.mask = Zeros(V6Len)
  BY Copied DEF Store, ParseAddress, Literal
<1> HIDE DEF a
<1>2. \A len \in Nat : \A o \in [1..len -> Octet] : And(o, Zeros(len)) = Zeros(len)
  BY DEF And, Zeros
<1>3. \A o \in [1..V4Len -> Octet] : MatchAddress4(o, a)
  BY <1>1, <1>2, HtonlZeros, Sizes DEF MatchAddress4
<1>4. \A o \in [1..V6Len -> Octet] : MatchAddress6(o, a)
  BY <1>1, <1>2, HtonlZeros, WidenZeros, Sizes DEF MatchAddress6
<1> QED  BY <1>3, <1>4 DEF a

\* An IPv4 literal matches the addresses that agree with it on its prefix: masking
\* by the parser and by the matcher, Copy16Ip and bpf_htonl cancel out.
LEMMA LiteralMatches ==
    ASSUME NEW addr, Literal(addr), To4(addr.octets) \in [1..V4Len -> Octet],
           NEW mask \in Nat \cup {NoMask}, mask <= OctetBits * V4Len,
           NEW o \in [1..V4Len -> Octet]
    PROVE  MatchAddress4(o, Store(ParseAddress(addr, mask))) <=> AddressPermitted(addr, mask, o)
<1> DEFINE ip == To4(addr.octets)
           n == Prefix(mask, V4Len)
           m == CIDRMask(n, V4Len)
           a == ParseAddress(addr, mask)
<1>0. OctetBits * V4Len \in Nat /\ Len(o) = V4Len
  BY Sizes
<1>1. a = ParseCidrIp(addr, mask)
  BY DEF ParseAddress, Literal
<1>2. n \in Nat /\ n <= OctetBits * V4Len
  BY <1>0 DEF Prefix, NoMask
<1>3. m \in [1..V4Len -> Octet]
  BY <1>2, MaskFits, Sizes
<1>4. a.mask = m /\ a.ip = And(ip, m) /\ a.ip \in [1..V4Len -> Octet]
  BY <1>1, <1>2, Parsed
<1> HIDE DEF a, m
<1>5. Htonl(Copy16Ip(a.mask)) = m /\ Htonl(Copy16Ip(a.ip)) = And(ip, m)
  BY <1>3, <1>4, HtonlUndoesCopy
<1>6. MatchAddress4(o, Store(a)) <=> And(o, m) = And(ip, m)
  BY <1>5 DEF MatchAddress4, Store
<1>7. And(o, m) = And(ip, m) <=> \A b \in 0..n - 1 : BitAt(ip, b) = BitAt(o, b)
  BY <1>2, MaskedEqual, Sizes DEF m
<1>8. AddressPermitted(addr, mask, o) <=> \A b \in 0..n - 1 : BitAt(ip, b) = BitAt(o, b)
  BY <1>0 DEF AddressPermitted, Literal, Prefix
<1> QED  BY <1>6, <1>7, <1>8 DEF a

\* The port the matcher uses is in the stored range when the text permits the
\* packet, if its ports are seen.
LEMMA PortMatches ==
    ASSUME NEW ports \in Seq(Nat), Len(ports) <= 2, ~BadPortRange(ports),
           NEW p, PortsSeen(ports, p), NEW port \in 0..MaxPort
    PROVE  InRange(PortOf(p, port), ParsePortRange(ports)) <=> PortPermitted(ports, p, port)
<1>0. PortOf(p, port) \in 0..MaxPort
  BY Sizes DEF PortOf
<1>1. CASE ports = <<>>
  <2>1. ParsePortRange(ports) = [lower |-> 0, upper |-> MaxPort]
    BY <1>1 DEF ParsePortRange
  <2> QED  BY <1>0, <1>1, <2>1, Sizes DEF InRange, PortPermitted
<1>2. CASE ports # <<>>
  <2>1. /\ ParsePortRange(ports).lower = Head(ports) /\ ParsePortRange(ports).upper = Last(ports)
        /\ Head(ports) \in Nat
    BY <1>2, PortsStored
  <2>2. CASE L4Parsed(p)
    BY <1>2, <2>1, <2>2 DEF InRange, PortPermitted, PortOf, HasPorts, L4Parsed
  <2>3. CASE ~L4Parsed(p)
    BY <1>2, <2>1, <2>3 DEF InRange, PortPermitted, PortOf, PortsSeen
  <2> QED  BY <2>2, <2>3
<1> QED  BY <1>1, <1>2

\* Protocol numbers agree when the names do.
LEMMA ProtocolMatches ==
    ASSUME NEW text \in {"icmp", "ip", "tcp", "udp"}, NEW proto
    PROVE  (ParseProtocol(text) = 1 \/ ParseProtocol(text) = GetSdfProtocol(proto))
             <=> (text = "ip" \/ text = proto)
<1>1. /\ ParseProtocol("icmp") = 0 /\ ParseProtocol("ip") = 1
      /\ ParseProtocol("tcp") = 2 /\ ParseProtocol("udp") = 3
  BY DEF ParseProtocol, ProtocolMap
<1>2. GetSdfProtocol(proto) = IF proto = "icmp" THEN 0 ELSE IF proto = "tcp" THEN 2
                              ELSE IF proto = "udp" THEN 3 ELSE 1
  BY DEF GetSdfProtocol
<1> QED  BY <1>1, <1>2

\* The addresses of a filter, for a packet address of either family.
LEMMA AddressMatches ==
    ASSUME NEW addr, Literal(addr) => addr.octets \in Address,
           NEW mask \in Nat \cup {NoMask}, NEW len \in {V4Len, V6Len},
           NEW o \in [1..len -> Octet], Carried(addr, mask, o)
    PROVE  LET a == Store(ParseAddress(addr, mask))
           IN  /\ len = V4Len => (MatchAddress4(o, a) <=> AddressPermitted(addr, mask, o))
               /\ len = V6Len => (MatchAddress6(o, a) <=> AddressPermitted(addr, mask, o))
<1>0. Len(o) = len
  BY Sizes
<1>1. CASE ~Literal(addr)
  <2>1. AddressPermitted(addr, mask, o)
    BY <1>1 DEF AddressPermitted, Literal
  <2> QED  BY <1>1, <2>1, AnyMatches
<1>2. CASE Literal(addr)
  <2>1. len = V4Len /\ Len(To4(addr.octets)) = V4Len /\ mask <= OctetBits * V4Len
    BY <1>0, <1>2 DEF Carried, Literal
  <2>2. PICK l \in {V4Len, V6Len} : To4(addr.octets) \in [1..l -> Octet]
    BY <1>2, To4Address
  <2>3. Len(To4(addr.octets)) = l
    BY <2>2, Sizes
  <2>4. To4(addr.octets) \in [1..V4Len -> Octet]
    BY <2>1, <2>2, <2>3
  <2> QED  BY <1>2, <2>1, <2>4, LiteralMatches, Sizes
<1> QED  BY <1>1, <1>2

\* For octets, addresses and ports of any size, every description and every packet:
\* the datapath lets through what the description permits, as long as its literals
\* are carried, the ports it asks for are seen and its protocol is not 58.
THEOREM FiltersMatchTheirText == Spec => []MatchesAsDescribed
<1>1. Filtered => MatchesAsDescribed
  <2> SUFFICES ASSUME Filtered, pkt # NoPkt, desc.proto # "58",
                      Carried(desc.src, desc.srcMask, pkt.saddr),
                      Carried(desc.dst, desc.dstMask, pkt.daddr),
                      PortsSeen(desc.srcPort, pkt), PortsSeen(desc.dstPort, pkt)
               PROVE  verdict = Permits(desc, pkt)
    BY DEF MatchesAsDescribed
  <2>1. /\ pkt \in Packet /\ verdict = Verdict(pkt, sdf)
        /\ desc \in Description /\ ~Refused(desc)
        /\ sdf = CombinePdrWithSdf(ParseSdfFilter(desc))
    BY DEF Filtered
  <2>2. PICK len \in {V4Len, V6Len} :
          pkt.saddr \in [1..len -> Octet] /\ pkt.daddr \in [1..len -> Octet]
    BY <2>1, PacketsAssumption
  <2>3. Len(pkt.saddr) = len /\ V4Len # V6Len
    BY <2>2, Sizes
  <2> DEFINE src == Store(ParseAddress(desc.src, desc.srcMask))
             dst == Store(ParseAddress(desc.dst, desc.dstMask))
  <2>4. /\ len = V4Len =>
             /\ MatchAddress4(pkt.saddr, src) <=> AddressPermitted(desc.src, desc.srcMask, pkt.saddr)
             /\ MatchAddress4(pkt.daddr, dst) <=> AddressPermitted(desc.dst, desc.dstMask, pkt.daddr)
        /\ len = V6Len =>
             /\ MatchAddress6(pkt.saddr, src) <=> AddressPermitted(desc.src, desc.srcMask, pkt.saddr)
             /\ MatchAddress6(pkt.daddr, dst) <=> AddressPermitted(desc.dst, desc.dstMask, pkt.daddr)
    BY <2>1, <2>2, Accepted, AddressMatches
  <2>5. pkt.sport \in 0..MaxPort /\ pkt.dport \in 0..MaxPort
    BY <2>1, PacketsAssumption
  <2>6. MatchRest(pkt, sdf) <=>
          /\ desc.proto = "ip" \/ desc.proto = pkt.proto
          /\ PortPermitted(desc.srcPort, pkt, pkt.sport)
          /\ PortPermitted(desc.dstPort, pkt, pkt.dport)
    <3>1. desc.proto \in {"icmp", "ip", "tcp", "udp"}
      BY <2>1, Accepted
    <3>2. /\ sdf.protocol = ParseProtocol(desc.proto)
          /\ sdf.srcPort = ParsePortRange(desc.srcPort)
          /\ sdf.dstPort = ParsePortRange(desc.dstPort)
      BY <2>1, FilterParts
    <3>3. /\ InRange(PortOf(pkt, pkt.sport), sdf.srcPort)
               <=> PortPermitted(desc.srcPort, pkt, pkt.sport)
          /\ InRange(PortOf(pkt, pkt.dport), sdf.dstPort)
               <=> PortPermitted(desc.dstPort, pkt, pkt.dport)
      BY <2>1, <2>5, <3>2, Accepted, PortMatches
    <3>4. (sdf.protocol = 1 \/ sdf.protocol = GetSdfProtocol(pkt.proto))
            <=> (desc.proto = "ip" \/ desc.proto = pkt.proto)
      BY <3>1, <3>2, ProtocolMatches
    <3> QED  BY <3>3, <3>4 DEF MatchRest
  <2>7. sdf.srcAddr = src /\ sdf.dstAddr = dst
    BY <2>1, FilterParts
  <2> HIDE DEF src, dst
  <2>8. Verdict(pkt, sdf) <=> Permits(desc, pkt)
    BY <2>2, <2>3, <2>4, <2>6, <2>7
       DEF Verdict, IsIPv6, MatchSdfFilterIpv4, MatchSdfFilterIpv6, Permits
  <2>9. Permits(desc, pkt) \in BOOLEAN /\ Verdict(pkt, sdf) \in BOOLEAN
    BY DEF Permits, Verdict, MatchSdfFilterIpv4, MatchSdfFilterIpv6
  <2> QED  BY <2>1, <2>8, <2>9
<1> QED  BY <1>1, FilteredAlways, PTL
=============================================================================
