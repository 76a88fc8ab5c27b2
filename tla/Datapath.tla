------------------------------- MODULE Datapath -------------------------------
(***************************************************************************)
(* The XDP program of eUPF (cmd/ebpf/xdp/n3n6_entrypoint.c) at work while   *)
(* the session handlers of UpfSession rewrite its maps.                    *)
(*                                                                         *)
(* A packet is handled by one CPU, in steps that each read one map: the    *)
(* PDR row, the FAR, the QER, and the FAR once more when the packet is     *)
(* sent.  far_map and qer_map are arrays, so what a step reads is what the *)
(* slot holds at that moment; a row of a PDR map is replaced as a whole,   *)
(* so the program keeps the row it found.  Any step of a handler may come  *)
(* between two steps of a packet.                                          *)
(*                                                                         *)
(* Left out: the bytes of headers, counters, and outer_header_removal,     *)
(* whose zero value already is GTP-U/UDP/IPv4; update_urr, which steers    *)
(* nothing; the route lookup after the last step.                          *)
(***************************************************************************)
EXTENDS UpfSession

CONSTANTS
    Cpu,     \* CPUs that run the program
    Forw,    \* contents of FARs that have FAR_FORW
    Gtp,     \* contents of FARs that have OHC_GTP_U_UDP_IPv4
    Closed   \* contents of QERs whose gate is not GATE_STATUS_OPEN

\* FarInfo{} has neither bit, the gates of QerInfo{} are open.
ASSUME ContentsAssumption == Forw \cup Gtp \cup Closed \subseteq Info \ {Zero}

VARIABLE pkt    \* the packet each CPU has, or just had

dpVars == <<vars, pkt>>

\* How a packet leaves the program, and the FAR contents it was sent with.
Verdict == {"none", "pass", "drop", "closed", "limited", "aborted", "echo", "tunnel", "n6"}

\* owner, rule, sentBy, touched and late are history: the session whose PDR the
\* packet belongs to, the rule that had the FAR slot when the PDR was found and
\* when the packet was sent, whether a request of the owner was applied since,
\* whether any request began since.
Packet == [pc : {"idle", "far", "qer", "send", "done"}, key : Key \cup {NoLoc},
           sdf : BOOLEAN, far : Nat, qer : Nat, out : Verdict, to : Info \cup {Zero},
           owner : SessOrNone, rule : SUBSET (Sess \X Nat),
           sentBy : SUBSET (Sess \X Nat), touched : BOOLEAN, late : BOOLEAN]

NoPacket == [pc |-> "idle", key |-> NoLoc, sdf |-> FALSE,
             far |-> 0, qer |-> 0, out |-> "none", to |-> Zero, owner |-> NoSess,
             rule |-> {}, sentBy |-> {}, touched |-> FALSE, late |-> FALSE]

\* Packets in flight hold ids of FAR and QER slots: the map lookups by id that the
\* program tests for NULL never fail.
DpTypeOK ==
    /\ pkt \in [Cpu -> Packet]
    /\ \A c \in Cpu : pkt[c].pc \in {"far", "qer", "send"} =>
         {<<"far", pkt[c].far>>, <<"qer", pkt[c].qer>>} \subseteq Slot

-----------------------------------------------------------------------------
(* Frames *)

\* What a frame is to process_packet, handle_ip4, handle_ip6 and handle_gtpu:
\* protocols, the GTP-U message type if it is UDP to port 2152 of an N3 or N9
\* address, its TEID or destination.
Frame == [l3 : {"ip4"}, l4 : {"udp"}, gtp : {"pdu"}, addr : Teid]
    \cup [l3 : {"ip4"}, l4 : {"udp"}, gtp : {"echo", "other"}, addr : {0}]
    \cup [l3 : {"ip4"}, l4 : {"icmp", "udp", "tcp", "other"}, gtp : {"none"}, addr : UeIp4]
    \cup [l3 : {"ip6"}, l4 : {"icmp", "udp", "tcp", "other"}, gtp : {"none"}, addr : UeIp6]
    \cup [l3 : {"arp", "other"}, l4 : {"other"}, gtp : {"none"}, addr : {0}]

\* The map a frame is looked up in, or how it leaves without a lookup.
PathOf(f) ==
    IF f.gtp # "none"
    THEN (CASE f.gtp = "pdu" -> "ul" [] f.gtp = "echo" -> "echo" [] OTHER -> "pass")
    ELSE IF f.l3 = "ip4" /\ f.l4 \in {"icmp", "udp", "tcp"} THEN "dl4"
    ELSE IF f.l3 = "ip6" /\ f.l4 \in {"udp", "tcp"} THEN "dl6"
    ELSE "pass"

-----------------------------------------------------------------------------
(* The pipeline of one packet *)

Uplink(k) == k[1] = "ul"

\* The session whose PDR has key k; the rules that have FAR slot g.
OwnerOf(k) == IF \E p \in pdrs : KeyOf(p) = k
              THEN (CHOOSE p \in pdrs : KeyOf(p) = k).sess ELSE NoSess
Holders(g) == {<<x.sess, x.id>> : x \in {y \in rules \ cur.done : y.kind = "far" /\ y.gid = g}}

\* Request r is one of session s.
Busy(r, s) == \/ r.op \in {"est", "mod", "del"} /\ r.sess = s
              \/ r.op = "prune" /\ r.sess[1] = s[1]

\* Whether a packet matches the SDF filter of its row; an inner packet may be
\* broken, so that it cannot be told.
Match == {"yes", "no", "broken"}

\* FAR and QER a row gives a packet, or nothing: the packet is passed on to the
\* kernel when the row is for its SDF filter only (bit 0 of sdf_mode) and does not
\* match, or when the inner packet cannot be parsed.
SdfChoice(e, m) ==
    IF e.mode # 0 /\ m = "yes" THEN {[far |-> e.sfar, qer |-> e.sqer, sdf |-> TRUE]}
    ELSE IF e.mode = 1 \/ (e.mode # 0 /\ m = "broken") THEN {}
    ELSE {[far |-> e.far, qer |-> e.qer, sdf |-> FALSE]}

\* The packet after the lookup of its PDR.
Looked(k, m) ==
    LET found == UNION {SdfChoice(e, m) : e \in EntriesAt(k)}
        base == [NoPacket EXCEPT !.key = k, !.owner = OwnerOf(k),
                                 !.touched = Busy(cur, OwnerOf(k))]
    IN  IF found = {}
        THEN [base EXCEPT !.pc = "done", !.out = "pass", !.sdf = (m = "yes")]
        ELSE LET d == CHOOSE d \in found : TRUE
             IN  [base EXCEPT !.pc = "far", !.far = d.far, !.qer = d.qer,
                              !.sdf = d.sdf, !.rule = Holders(d.far)]

\* A frame arrives and is classified; packets of sessions look up their PDR.
Receive(c, f, m) ==
    /\ pkt[c].pc \in {"idle", "done"}
    /\ m = "broken" => PathOf(f) = "ul"
    /\ pkt' = [pkt EXCEPT ![c] =
                 IF PathOf(f) \in {"pass", "echo"}
                 THEN [NoPacket EXCEPT !.pc = "done", !.out = PathOf(f)]
                 ELSE Looked(<<PathOf(f), f.addr>>, m)]
    /\ UNCHANGED vars

Ends(c, v) == pkt' = [pkt EXCEPT ![c].pc = "done", ![c].out = v]
FarSlot(c) == slot[<<"far", pkt[c].far>>]
QerSlot(c) == slot[<<"qer", pkt[c].qer>>]

\* Only forwarding FARs, and downlink only those that create a GTP-U header.
CheckFar(c) ==
    /\ pkt[c].pc = "far"
    /\ IF FarSlot(c) \in Forw /\ (Uplink(pkt[c].key) \/ FarSlot(c) \in Gtp)
       THEN pkt' = [pkt EXCEPT ![c].pc = "qer"]
       ELSE Ends(c, "drop")
    /\ UNCHANGED vars

\* Mutant of CheckQer: the gate is not looked at.
CheckQerIgnoresGate(c) ==
    /\ pkt[c].pc = "qer"
    /\ \/ pkt' = [pkt EXCEPT ![c].pc = "send"]
       \/ QerSlot(c) # Zero /\ Ends(c, "limited")
    /\ UNCHANGED vars

\* Gate and rate limit; what the limiter decides is left open here.
CheckQer(c) ==
    /\ pkt[c].pc = "qer"
    /\ \/ QerSlot(c) \in Closed /\ Ends(c, "closed")
       \/ QerSlot(c) \notin Closed /\ pkt' = [pkt EXCEPT ![c].pc = "send"]
       \/ QerSlot(c) \notin Closed \cup {Zero} /\ Ends(c, "limited")
    /\ UNCHANGED vars

\* The tunnel is read from the FAR now; uplink, outer_header_creation is read now
\* too.
SendVerdict(c) ==
    IF Uplink(pkt[c].key) /\ FarSlot(c) \notin Gtp THEN "n6" ELSE "tunnel"

Send(c) ==
    /\ pkt[c].pc = "send"
    /\ pkt' = [pkt EXCEPT ![c].pc = "done", ![c].out = SendVerdict(c),
                          ![c].to = FarSlot(c), ![c].sentBy = Holders(pkt[c].far)]
    /\ UNCHANGED vars

\* There is no room in the frame for the headers to add, or the GTP header cannot be
\* taken off; a tunnel that is only changed cannot fail.
Abort(c) ==
    /\ pkt[c].pc = "send"
    /\ ~(Uplink(pkt[c].key) /\ SendVerdict(c) = "tunnel")
    /\ Ends(c, "aborted")
    /\ UNCHANGED vars

\* A ping to an N3 or N9 address, from UE address a, is turned round once the GTP
\* header is off, and starts again as a downlink packet to a.
AnswerPing(c, a, m) ==
    /\ pkt[c].pc = "send"
    /\ SendVerdict(c) = "n6"
    /\ m # "broken"
    /\ pkt' = [pkt EXCEPT ![c] = Looked(<<"dl4", a>>, m)]
    /\ UNCHANGED vars

\* A step of a session handler, as the packets in flight witness it; packets that
\* have left are forgotten.
Handler ==
    /\ Next
    /\ pkt' = [c \in Cpu |->
                 IF pkt[c].pc \in {"idle", "done"} THEN NoPacket
                 ELSE [pkt[c] EXCEPT !.touched = @ \/ Busy(cur', pkt[c].owner),
                                     !.late = @ \/ (cur.op = "idle" /\ cur'.op # "idle")]]

DpInit == Init /\ pkt = [c \in Cpu |-> NoPacket]

DpNext ==
    \/ Handler
    \/ \E c \in Cpu, m \in Match :
         \/ \E f \in Frame : Receive(c, f, m)
         \/ \E a \in UeIp4 : AnswerPing(c, a, m)
    \/ \E c \in Cpu : CheckFar(c) \/ CheckQer(c) \/ Send(c) \/ Abort(c)

DpSpec == DpInit /\ [][DpNext]_dpVars

-----------------------------------------------------------------------------
(* Properties *)

RowOf(k, s, g) == {x \in rules : x.kind = k /\ x.sess = s /\ x.gid = g}

\* What the tables of the session that owns PDR p, and nothing else, say about a
\* packet: the verdicts it may get, with the FAR contents it is sent with.  Only a QER
\* of the session stops it; a packet that leaves no room for its headers is aborted.
Ordered(p, sdf) ==
    LET fars == {x.info : x \in RowOf("far", p.sess, p.far)}
        qers == {x.info : x \in RowOf("qer", p.sess, p.qer)}
        usable == {i \in fars : i \in Forw /\ (Uplink(KeyOf(p)) \/ i \in Gtp)}
    IN  IF p.sdf /\ ~sdf THEN {<<"pass", Zero>>}
        ELSE IF usable = {} THEN {<<"drop", Zero>>}
        ELSE IF qers \cap Closed # {} THEN {<<"closed", Zero>>}
        ELSE {<<"aborted", Zero>>} \cup {<<"limited", Zero>> : i \in qers}
             \cup {<<IF i \in Gtp THEN "tunnel" ELSE "n6", i>> : i \in usable}

\* The exception: a PDR without a QER carries QER id 0, and packets of it go through
\* the QER that has slot 0, which may be one of another session.
StoppedByStranger(p, out) ==
    p.qer = 0 /\ RowOf("qer", p.sess, 0) = {} /\ out \in {"closed", "limited"}

\* A packet whose session no request touches while it is in flight gets what its
\* session's tables order, with the tunnel of its session's FAR, whatever requests
\* of other sessions create, rewrite, release and hand out again meanwhile, and
\* wherever in its pipeline the packet is when they do; only the QER in slot 0 may
\* stop packets of a PDR that has none.
UndisturbedForwarding ==
    \A c \in Cpu, p \in pdrs :
        /\ pkt[c].pc = "done" /\ ~pkt[c].touched
        /\ pkt[c].owner = p.sess /\ pkt[c].key = KeyOf(p)
        => \/ <<pkt[c].out, pkt[c].to>> \in Ordered(p, pkt[c].sdf)
           \/ StoppedByStranger(p, pkt[c].out)

\* A packet is sent through the rule its PDR named when it was looked up, or by a
\* slot emptied since, and never through another rule that got the same slot, unless
\* a new request began while it was in flight: the handlers create before they
\* remove, so an id is not handed out again by the request that released it.
NoRecycledRule ==
    \A c \in Cpu :
        pkt[c].out \in {"tunnel", "n6"} /\ ~pkt[c].late => pkt[c].sentBy \subseteq pkt[c].rule
=============================================================================
