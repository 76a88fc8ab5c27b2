------------------------------ MODULE UpfSession ------------------------------
(***************************************************************************)
(* The PFCP session handlers of eUPF and the forwarding-plane tables they  *)
(* write (cmd/core/pfcp_session_handlers.go, session.go, pdr.go,           *)
(* pdr_creation_context.go, pfcp_connection.go; cmd/ebpf/pdr.go,           *)
(* objects.go).                                                            *)
(*                                                                         *)
(* Every handler runs on the one goroutine of PfcpConnection.Run, so at    *)
(* most one request is being applied at a time; the datapath, however,     *)
(* reads the eBPF maps between any two map writes.  A request is therefore *)
(* a sequence of steps, one per IE, recorded in cur.  Which IEs the        *)
(* request carries is decided lazily: a step of a later stage skips the    *)
(* stages before it, exactly as an empty IE list skips its loop.           *)
(*                                                                         *)
(* The module is the configuration with feature_ftup and feature_ueip off  *)
(* (the default), where the resource manager holds no address and no TEID  *)
(* and its calls change nothing.                                           *)
(***************************************************************************)
EXTENDS Integers, FiniteSets

CONSTANTS
    Node,        \* addresses of the control-plane peers (SMFs)
    MaxSeid,     \* bound: the last local SEID an association hands out
    RuleId,      \* FAR, QER and URR ids a peer uses, by kind
    PdrId,       \* PDR ids a peer uses
    Teid,        \* uplink TEIDs a peer assigns
    UeIp4,       \* UE IPv4 addresses
    UeIp6,       \* UE IPv6 addresses
    Sdf,         \* whether a PDI carries an SDF filter: subset of BOOLEAN
    Info,        \* contents of a FAR or a QER
    PoolSize,    \* size of the far, qer and urr maps and id trackers
    PdrMapSize,  \* size of each of the three PDR maps
    Stress       \* what a peer may do that the code does not guard against

Kind == {"far", "qer", "urr"}

\* The situations Stress can switch on.
\*   badIE      an IE of the request cannot be used (parsing, IPv6 FAR, ...)
\*   unknown    an update, removal or reference names a rule nobody created
\*   noAddr     a new PDR has neither an F-TEID nor a UE address
\*   reuse      a create names a rule id the session already uses
\*   shared     two PDRs are given the same TEID or UE address
\*   sdfPair    a PDR with and one without SDF filter have the same address
\*   rekey      an update moves a PDR to another TEID or UE address
\*   dangle     a request leaves a PDR naming a rule it removed
\*   sdfUpdate  a PDR with an SDF filter is updated, or an update adds one
StressKinds ==
    {"badIE", "unknown", "noAddr", "reuse", "shared", "sdfPair", "rekey", "dangle",
     "sdfUpdate"}

NoIp == "noip"
Zero == "zero"      \* FarInfo{}, QerInfo{}, UrrInfo{}

ASSUME ConstantsAssumption ==
    /\ MaxSeid \in Nat
    /\ RuleId \in [Kind -> SUBSET Nat]
    /\ Teid \subseteq Nat \ {0}
    /\ NoIp \notin UeIp4 \cup UeIp6
    /\ PoolSize \in [Kind -> Nat \ {0}]
    /\ PdrMapSize \in Nat
    /\ Sdf \subseteq BOOLEAN
    /\ Stress \subseteq StressKinds

\* A place of far_map, qer_map or urr_map, and the id its tracker hands out.
Slot == UNION {{k} \X (0 .. PoolSize[k] - 1) : k \in Kind}

\* The contents a create or an update can give: updateUrr never sets a field.
InfoOf(k) == IF k = "urr" THEN {Zero} ELSE Info

\* Sessions are named by peer and local SEID: SEIDs are unique per association.
Sess == Node \X (2 .. MaxSeid)

\* A peer without a session, for the loop of DeleteAssociation.
NoSess == <<"nobody", 0>>
SessOrNone == (Node \X (0 .. MaxSeid)) \cup {NoSess}

\* Keys of pdr_map_teid_ip4, pdr_map_downlink_ip4 and pdr_map_downlink_ip6.
Key == ({"ul"} \X (Teid \cup {0})) \cup ({"dl4"} \X UeIp4) \cup ({"dl6"} \X UeIp6)

\* Rows of the maps Session.FARs, Session.QERs and Session.URRs.
RuleRow == [kind : Kind, sess : Sess, id : Nat, gid : Nat, info : Info \cup {Zero}]

\* Rows of Session.PDRs (SPDRInfo).
PdrRow == [sess : Sess, id : PdrId, teid : Teid \cup {0}, ip4 : UeIp4 \cup {NoIp},
           ip6 : UeIp6 \cup {NoIp}, far : Nat, qer : Nat, sdf : BOOLEAN]

\* Rows of the PDR maps; owner is the session that wrote the row last, and is
\* not part of the code's state.
EntryRow == [key : Key, far : Nat, qer : Nat, mode : 0 .. 2,
             sfar : Nat, sqer : Nat, owner : Sess]

\* The request being applied: the handler (op), its session, how far it has
\* come in the handler's order of IE lists (stage), and what the loops of a
\* deletion have left: rules already released (done), PDRs still to delete
\* (left), the TEIDCache of the PDR context (cache), sessions DeleteAssociation
\* has not reached (pending).
Idle == [op |-> "idle", sess |-> NoSess, stage |-> 0, done |-> {},
         left |-> {}, cache |-> {}, pending |-> {}]

Request == [op : {"idle", "est", "mod", "del", "prune"}, sess : SessOrNone,
            stage : Nat, done : SUBSET RuleRow, left : SUBSET PdrRow,
            cache : SUBSET Nat, pending : SUBSET Sess]

\* How a request ended: not yet, accepted, a rule could not be created, rejected
\* before anything was done, or without any response.
Replies == {"none", "accepted", "failure", "rejected", "silent"}

VARIABLES
    assoc,     \* peers with an entry in NodeAssociations
    nextSeid,  \* NodeAssociation.NextSessionID
    stored,    \* sessions in NodeAssociation.Sessions
    rules,     \* FARs, QERs and URRs of all sessions
    pdrs,      \* PDRs of all sessions
    free,      \* the ids in the bitmaps of the three id trackers
    slot,      \* contents of far_map, qer_map and urr_map, as the handlers set them
    pdrMap,    \* the three PDR maps
    cur,       \* the request being applied
    reply      \* how the last request was answered

vars == <<assoc, nextSeid, stored, rules, pdrs, free, slot, pdrMap, cur, reply>>

\* Every variable has its type; the global ids sessions hold are ids of slots.
TypeOK ==
    /\ assoc \subseteq Node
    /\ nextSeid \in [Node -> Nat \ {0}]
    /\ stored \subseteq Sess
    /\ rules \subseteq RuleRow
    /\ \A x \in rules : x.gid < PoolSize[x.kind]
    /\ pdrs \subseteq PdrRow
    /\ free \subseteq Slot
    /\ slot \in [Slot -> Info \cup {Zero}]
    /\ pdrMap \subseteq EntryRow
    /\ cur \in Request
    /\ reply \in Replies

-----------------------------------------------------------------------------
Init ==
    /\ assoc = {}
    /\ nextSeid = [n \in Node |-> 1]
    /\ stored = {}
    /\ rules = {}
    /\ pdrs = {}
    /\ free = Slot
    /\ slot = [p \in Slot |-> Zero]
    /\ pdrMap = {}
    /\ cur = Idle
    /\ reply = "none"

RulesOf(s) == {x \in rules : x.sess = s}
PdrsOf(s) == {p \in pdrs : p.sess = s}

\* The row of a rule or of a PDR in its session: empty or a singleton.
RuleAt(k, s, r) == {x \in rules : x.kind = k /\ x.sess = s /\ x.id = r}
PdrAt(s, i) == {p \in pdrs : p.sess = s /\ p.id = i}

\* Mutants of GlobalId: the id after the right one; a lookup that ignores the
\* session.
GlobalIdOffByOne(k, s, r) ==
    IF RuleAt(k, s, r) = {} THEN 0 ELSE (CHOOSE x \in RuleAt(k, s, r) : TRUE).gid + 1

GlobalIdOfAnySession(k, s, r) ==
    (CHOOSE x \in rules : x.kind = k /\ x.id = r).gid

\* Reading an absent key of a Go map yields the zero value: global id 0.
GlobalId(k, s, r) ==
    IF RuleAt(k, s, r) = {} THEN 0 ELSE (CHOOSE x \in RuleAt(k, s, r) : TRUE).gid

\* applyPDR and deletePDR choose the map by the address fields of the PDR.
KeyOf(p) == IF p.ip4 # NoIp THEN <<"dl4", p.ip4>>
            ELSE IF p.ip6 # NoIp THEN <<"dl6", p.ip6>>
            ELSE <<"ul", p.teid>>

EntriesAt(key) == {e \in pdrMap : e.key = key}

\* What PutPdrUplink, PutPdrDownlink and PutDownlinkPdrIp6 store: a PDR with an
\* SDF filter is combined with the row it finds (CombinePdrWithSdf), any other
\* PDR replaces it (ToIpEntrypointPdrInfo).
PdrToStore(p) ==
    LET key == KeyOf(p)
        old == CHOOSE e \in EntriesAt(key) : TRUE
    IN  IF ~p.sdf
        THEN [key |-> key, far |-> p.far, qer |-> p.qer, mode |-> 0,
              sfar |-> 0, sqer |-> 0, owner |-> p.sess]
        ELSE IF EntriesAt(key) # {}
        THEN [key |-> key, far |-> old.far, qer |-> old.qer, mode |-> 2,
              sfar |-> p.far, sqer |-> p.qer, owner |-> p.sess]
        ELSE [key |-> key, far |-> 0, qer |-> 0, mode |-> 1,
              sfar |-> p.far, sqer |-> p.qer, owner |-> p.sess]

\* A hash map takes a new key only while it has room.
MapFull(key) ==
    /\ EntriesAt(key) = {}
    /\ Cardinality({e \in pdrMap : e.key[1] = key[1]}) >= PdrMapSize

\* TEIDCache is keyed by uint8(Teid).
CacheKey(p) == p.teid % 256

\* deletePDR skips the map when the cache says the TEID was deleted already,
\* and fails when the key is not in the map.
SkipsMap(p) == KeyOf(p)[1] = "ul" /\ CacheKey(p) \in cur.cache
DeleteFails(p) == ~SkipsMap(p) /\ EntriesAt(KeyOf(p)) = {}
\* Mutant of MapWithout: uplink entries are never deleted.
MapWithoutDownlink(p) ==
    IF KeyOf(p)[1] = "ul" THEN pdrMap ELSE pdrMap \ EntriesAt(KeyOf(p))

MapWithout(p) == IF SkipsMap(p) THEN pdrMap ELSE pdrMap \ EntriesAt(KeyOf(p))
CacheWith(p) == IF KeyOf(p)[1] = "ul" THEN cur.cache \cup {CacheKey(p)} ELSE cur.cache

-----------------------------------------------------------------------------
(* Associations *)

\* Association Setup Request or Response from n.  An association that exists is
\* kept as it is, with its sessions and its NextSessionID.
AssociationSetup(n) ==
    /\ cur.op = "idle"
    /\ assoc' = assoc \cup {n}
    /\ nextSeid' = IF n \in assoc THEN nextSeid ELSE [nextSeid EXCEPT ![n] = 1]
    /\ reply' = "accepted"
    /\ UNCHANGED <<stored, rules, pdrs, free, slot, pdrMap, cur>>

\* A session request answered before anything is changed: a mandatory IE is
\* missing, there is no association, or no session with the SEID.
RejectRequest ==
    /\ cur.op = "idle"
    /\ reply' = "rejected"
    /\ UNCHANGED <<assoc, nextSeid, stored, rules, pdrs, free, slot, pdrMap, cur>>

-----------------------------------------------------------------------------
(* Session Establishment and Session Modification *)

\* Mutant of Stage: removals before creations and updates.
StageRemoveFirst(k, o) ==
    (CASE k = "far" -> 0 [] k = "qer" -> 3 [] k = "urr" -> 6 [] k = "pdr" -> 9)
      + (CASE o = "remove" -> 1 [] o = "create" -> 2 [] o = "update" -> 3)

\* Position of an IE list in the order the handlers walk through them.
Stage(k, o) == (CASE k = "far" -> 0 [] k = "qer" -> 3 [] k = "urr" -> 6 [] k = "pdr" -> 9)
             + (CASE o = "create" -> 1 [] o = "update" -> 2 [] o = "remove" -> 3)

Reached(k, o) ==
    /\ cur.op \in (IF o = "create" THEN {"est", "mod"} ELSE {"mod"})
    /\ cur.stage <= Stage(k, o)

EstablishmentRequest(n) ==
    /\ cur.op = "idle"
    /\ n \in assoc
    /\ nextSeid[n] < MaxSeid
    /\ nextSeid' = [nextSeid EXCEPT ![n] = @ + 1]
    /\ cur' = [Idle EXCEPT !.op = "est", !.sess = <<n, nextSeid[n] + 1>>]
    /\ reply' = "none"
    /\ UNCHANGED <<assoc, stored, rules, pdrs, free, slot, pdrMap>>

ModificationRequest(s) ==
    /\ cur.op = "idle"
    /\ s \in stored
    /\ cur' = [Idle EXCEPT !.op = "mod", !.sess = s]
    /\ reply' = "none"
    /\ UNCHANGED <<assoc, nextSeid, stored, rules, pdrs, free, slot, pdrMap>>

\* A request that fails stops where it is: nothing is rolled back.  A session
\* being established is never stored, so its tables are lost; a session being
\* modified keeps what was done.
RulesAfterFailure == IF cur.op = "est" THEN rules \ RulesOf(cur.sess) ELSE rules

\* The request carries a Create FAR, QER or URR for rule r.
MayCreate(k, r) ==
    /\ Reached(k, "create")
    /\ RuleAt(k, cur.sess, r) = {} \/ "reuse" \in Stress

\* Create FAR, Create QER, Create URR: the tracker gives its lowest free id, the
\* map gets the contents, the session the row.
CreateRule(k, r, i) ==
    /\ MayCreate(k, r)
    /\ \E p \in free :
         /\ p[1] = k
         /\ \A q \in free : q[1] = k => p[2] <= q[2]
         /\ free' = free \ {p}
         /\ slot' = [slot EXCEPT ![p] = i]
         /\ rules' = (rules \ RuleAt(k, cur.sess, r)) \cup
                     {[kind |-> k, sess |-> cur.sess, id |-> r, gid |-> p[2], info |-> i]}
    /\ cur' = [cur EXCEPT !.stage = Stage(k, "create")]
    /\ UNCHANGED <<assoc, nextSeid, stored, pdrs, pdrMap, reply>>

\* Update FAR, Update QER, Update URR: session row and map are both rewritten.
UpdateRule(k, r, i) ==
    /\ Reached(k, "update")
    /\ RuleAt(k, cur.sess, r) # {} \/ "unknown" \in Stress
    /\ LET g == GlobalId(k, cur.sess, r)
       IN  /\ rules' = (rules \ RuleAt(k, cur.sess, r)) \cup
                      {[kind |-> k, sess |-> cur.sess, id |-> r, gid |-> g, info |-> i]}
           /\ slot' = [slot EXCEPT ![<<k, g>>] = i]
    /\ cur' = [cur EXCEPT !.stage = Stage(k, "update")]
    /\ UNCHANGED <<assoc, nextSeid, stored, pdrs, free, pdrMap, reply>>

\* Remove FAR, Remove QER, Remove URR: the id is released and the map zeroed.
RemoveRule(k, r) ==
    /\ Reached(k, "remove")
    /\ RuleAt(k, cur.sess, r) # {} \/ "unknown" \in Stress
    /\ LET g == GlobalId(k, cur.sess, r)
       IN  /\ rules' = rules \ RuleAt(k, cur.sess, r)
           /\ free' = free \cup {<<k, g>>}
           /\ slot' = [slot EXCEPT ![<<k, g>>] = Zero]
    /\ cur' = [cur EXCEPT !.stage = Stage(k, "remove")]
    /\ UNCHANGED <<assoc, nextSeid, stored, pdrs, pdrMap, reply>>

\* The PDR of session s that extractPDR makes of a Create PDR or Update PDR IE:
\* f and q are the rule ids named (or none), loc the F-TEID or UE address of the
\* PDI (or none), sdf whether the PDI has an SDF filter.  What the IE does not
\* carry keeps its value, which for a PDR the session does not have is zero.
NoRef == -1
NoLoc == <<"none", 0>>

ExtractedPdr(o, s, i, f, q, loc, sdf) ==
    LET base == IF o = "create" \/ PdrAt(s, i) = {}
                THEN [sess |-> s, id |-> i, teid |-> 0, ip4 |-> NoIp,
                      ip6 |-> NoIp, far |-> 0, qer |-> 0, sdf |-> FALSE]
                ELSE CHOOSE p \in PdrAt(s, i) : TRUE
    IN  [sess |-> s, id |-> i,
         teid |-> IF loc[1] = "ul" THEN loc[2] ELSE base.teid,
         ip4  |-> IF loc[1] = "dl4" THEN loc[2] ELSE base.ip4,
         ip6  |-> IF loc[1] = "dl6" THEN loc[2] ELSE base.ip6,
         far  |-> IF f = NoRef THEN base.far ELSE GlobalId("far", s, f),
         qer  |-> IF q = NoRef THEN base.qer ELSE GlobalId("qer", s, q),
         sdf  |-> base.sdf \/ sdf]

\* What a peer that stays within Stress puts into a PDR IE.
PeerAllows(o, s, i, f, q, p, loc, sdf) ==
    /\ "noAddr" \notin Stress => (o = "create" => loc # NoLoc)
    /\ "unknown" \notin Stress =>
         /\ o = "create" => f # NoRef
         /\ o = "update" => PdrAt(s, i) # {}
         /\ f # NoRef => RuleAt("far", s, f) # {}
         /\ q # NoRef => RuleAt("qer", s, q) # {}
    /\ "reuse" \notin Stress => (o = "create" => PdrAt(s, i) = {})
    /\ \A x \in pdrs \ PdrAt(s, i) : KeyOf(x) = KeyOf(p) =>
         \/ "shared" \in Stress
         \/ "sdfPair" \in Stress /\ x.sess = s /\ x.sdf # p.sdf
    /\ "rekey" \notin Stress =>
         (o = "update" => \A x \in PdrAt(s, i) : KeyOf(x) = KeyOf(p))
    /\ "sdfUpdate" \notin Stress =>
         (o = "update" => ~sdf /\ \A x \in PdrAt(s, i) : ~x.sdf)

\* Create PDR and Update PDR: the session row is written before applyPDR, so it
\* stays when the map is full and the request fails.
PutPdr(o, i, f, q, loc, sdf) ==
    LET p == ExtractedPdr(o, cur.sess, i, f, q, loc, sdf)
        rows == (pdrs \ PdrAt(cur.sess, i)) \cup {p}
    IN  /\ Reached("pdr", o)
        /\ PeerAllows(o, cur.sess, i, f, q, p, loc, sdf)
        /\ \/ /\ ~MapFull(KeyOf(p))
              /\ pdrs' = rows
              /\ pdrMap' = (pdrMap \ EntriesAt(KeyOf(p))) \cup {PdrToStore(p)}
              /\ cur' = [cur EXCEPT !.stage = Stage("pdr", o)]
              /\ UNCHANGED <<rules, reply>>
           \/ /\ MapFull(KeyOf(p))
              /\ pdrs' = IF cur.op = "est" THEN pdrs \ PdrsOf(cur.sess) ELSE rows
              /\ rules' = RulesAfterFailure
              /\ cur' = Idle
              /\ reply' = "failure"
              /\ UNCHANGED pdrMap
        /\ UNCHANGED <<assoc, nextSeid, stored, free, slot>>

\* Mutant of RemovePdr: the session keeps the PDR.
RemovePdrKeepsRow(p) ==
    /\ Reached("pdr", "remove")
    /\ p \in PdrsOf(cur.sess)
    /\ ~DeleteFails(p)
    /\ pdrMap' = MapWithout(p)
    /\ cur' = [cur EXCEPT !.stage = Stage("pdr", "remove"), !.cache = CacheWith(p)]
    /\ UNCHANGED <<assoc, nextSeid, stored, rules, pdrs, free, slot, reply>>

\* Remove PDR: a PDR the session does not have is passed over.
RemovePdr(p) ==
    /\ Reached("pdr", "remove")
    /\ p \in PdrsOf(cur.sess)
    /\ pdrs' = pdrs \ {p}
    /\ IF DeleteFails(p)
       THEN /\ cur' = Idle
            /\ reply' = "failure"
            /\ UNCHANGED pdrMap
       ELSE /\ pdrMap' = MapWithout(p)
            /\ cur' = [cur EXCEPT !.stage = Stage("pdr", "remove"), !.cache = CacheWith(p)]
            /\ UNCHANGED reply
    /\ UNCHANGED <<assoc, nextSeid, stored, rules, free, slot>>

\* The request fails before its next write: an IE that cannot be used, or a
\* create that finds its tracker empty.
RequestFails ==
    /\ cur.op \in {"est", "mod"}
    /\ \/ "badIE" \in Stress
       \/ \E k \in Kind : /\ \E r \in RuleId[k] : MayCreate(k, r)
                         /\ \A p \in free : p[1] # k
    /\ rules' = RulesAfterFailure
    /\ pdrs' = IF cur.op = "est" THEN pdrs \ PdrsOf(cur.sess) ELSE pdrs
    /\ cur' = Idle
    /\ reply' = "failure"
    /\ UNCHANGED <<assoc, nextSeid, stored, free, slot, pdrMap>>

\* Every PDR names a FAR the session has, and no QER but one it has (a PDR that
\* names no QER has QER id 0).
NoDangling(s) ==
    \A p \in PdrsOf(s) :
        /\ \E x \in RulesOf(s) : x.kind = "far" /\ x.gid = p.far
        /\ p.qer # 0 => \E x \in RulesOf(s) : x.kind = "qer" /\ x.gid = p.qer

\* The last IE list is done: an established session is stored now.
RequestDone ==
    /\ cur.op \in {"est", "mod"}
    /\ NoDangling(cur.sess) \/ "dangle" \in Stress
    /\ stored' = stored \cup {cur.sess}
    /\ cur' = Idle
    /\ reply' = "accepted"
    /\ UNCHANGED <<assoc, nextSeid, rules, pdrs, free, slot, pdrMap>>

-----------------------------------------------------------------------------
(* Session Deletion and loss of an association *)

\* The loops over a session's rules go kind by kind.
Rank(k) == CASE k = "far" -> 1 [] k = "qer" -> 2 [] k = "urr" -> 3

\* Mutant of Remaining: the loop over the URRs is missing.
RemainingButUrrs(kinds) ==
    {x \in RulesOf(cur.sess) \ cur.done : x.kind \in kinds \ {"urr"}}

Remaining(kinds) == {x \in RulesOf(cur.sess) \ cur.done : x.kind \in kinds}

\* Mutant of ReleaseNext: the id is released, the map keeps its contents.
ReleaseWithoutZeroing(kinds, x) ==
    /\ x \in Remaining(kinds)
    /\ \A y \in Remaining(kinds) : Rank(x.kind) <= Rank(y.kind)
    /\ free' = free \cup {<<x.kind, x.gid>>}
    /\ cur' = [cur EXCEPT !.done = @ \cup {x}]
    /\ UNCHANGED slot

\* DeleteFar, DeleteQer, DeleteUrr on the next rule of the loop.  The rows stay
\* in the session, which is dropped as a whole at the end.
ReleaseNext(kinds, x) ==
    /\ x \in Remaining(kinds)
    /\ \A y \in Remaining(kinds) : Rank(x.kind) <= Rank(y.kind)
    /\ free' = free \cup {<<x.kind, x.gid>>}
    /\ slot' = [slot EXCEPT ![<<x.kind, x.gid>>] = Zero]
    /\ cur' = [cur EXCEPT !.done = @ \cup {x}]

DeletionRequest(s) ==
    /\ cur.op = "idle"
    /\ s \in stored
    /\ cur' = [Idle EXCEPT !.op = "del", !.sess = s, !.left = PdrsOf(s)]
    /\ reply' = "none"
    /\ UNCHANGED <<assoc, nextSeid, stored, rules, pdrs, free, slot, pdrMap>>

\* PDRs first.  An error ends the handler with an error, and Handle then sends no
\* response at all; the session stays stored with all its PDR rows.
DeletionPdr(p) ==
    /\ cur.op = "del"
    /\ p \in cur.left
    /\ IF DeleteFails(p)
       THEN /\ cur' = Idle
            /\ reply' = "silent"
            /\ UNCHANGED pdrMap
       ELSE /\ pdrMap' = MapWithout(p)
            /\ cur' = [cur EXCEPT !.left = @ \ {p}, !.cache = CacheWith(p)]
            /\ UNCHANGED reply
    /\ UNCHANGED <<assoc, nextSeid, stored, rules, pdrs, free, slot>>

DeletionRule(x) ==
    /\ cur.op = "del"
    /\ cur.left = {}
    /\ ReleaseNext(Kind, x)
    /\ UNCHANGED <<assoc, nextSeid, stored, rules, pdrs, pdrMap, reply>>

DeletionDone ==
    /\ cur.op = "del"
    /\ cur.left = {}
    /\ Remaining(Kind) = {}
    /\ stored' = stored \ {cur.sess}
    /\ rules' = rules \ RulesOf(cur.sess)
    /\ pdrs' = pdrs \ PdrsOf(cur.sess)
    /\ cur' = Idle
    /\ reply' = "accepted"
    /\ UNCHANGED <<assoc, nextSeid, free, slot, pdrMap>>

\* DeleteAssociation, called when the heartbeats of n failed.
SessionsOf(n) == {s \in stored : s[1] = n}

PruneAssociation(n) ==
    /\ cur.op = "idle"
    /\ n \in assoc
    /\ cur' = [Idle EXCEPT !.op = "prune", !.sess = <<n, 0>>, !.pending = SessionsOf(n)]
    /\ reply' = "none"
    /\ UNCHANGED <<assoc, nextSeid, stored, rules, pdrs, free, slot, pdrMap>>

\* DeleteSession releases FARs and QERs, then deletes PDRs and ignores errors.
PrunedKinds == {"far", "qer"}

\* Mutant of SessionPruned: the loop over the PDRs is missing.
SessionPrunedWithPdrs == Remaining(PrunedKinds) = {}

SessionPruned == Remaining(PrunedKinds) = {} /\ cur.left = {}

PruneSession(s) ==
    /\ cur.op = "prune"
    /\ SessionPruned
    /\ s \in cur.pending
    /\ cur' = [cur EXCEPT !.sess = s, !.left = PdrsOf(s), !.cache = {},
                          !.pending = @ \ {s}]
    /\ UNCHANGED <<assoc, nextSeid, stored, rules, pdrs, free, slot, pdrMap, reply>>

PruneRule(x) ==
    /\ cur.op = "prune"
    /\ ReleaseNext(PrunedKinds, x)
    /\ UNCHANGED <<assoc, nextSeid, stored, rules, pdrs, pdrMap, reply>>

PrunePdr(p) ==
    /\ cur.op = "prune"
    /\ Remaining(PrunedKinds) = {}
    /\ p \in cur.left
    /\ pdrMap' = MapWithout(p)
    /\ cur' = [cur EXCEPT !.left = @ \ {p},
                          !.cache = IF DeleteFails(p) THEN @ ELSE CacheWith(p)]
    /\ UNCHANGED <<assoc, nextSeid, stored, rules, pdrs, free, slot, reply>>

PruneDone ==
    LET n == cur.sess[1]
    IN  /\ cur.op = "prune"
        /\ SessionPruned
        /\ cur.pending = {}
        /\ assoc' = assoc \ {n}
        /\ stored' = stored \ SessionsOf(n)
        /\ rules' = {x \in rules : x.sess[1] # n}
        /\ pdrs' = {p \in pdrs : p.sess[1] # n}
        /\ cur' = Idle
        /\ UNCHANGED <<nextSeid, free, slot, pdrMap, reply>>

-----------------------------------------------------------------------------
Loc == {NoLoc} \cup (Key \ {<<"ul", 0>>})

Next ==
    \/ \E n \in Node :
         \/ AssociationSetup(n)
         \/ EstablishmentRequest(n)
         \/ PruneAssociation(n)
    \/ RejectRequest
    \/ \E s \in stored : ModificationRequest(s) \/ DeletionRequest(s)
    \/ \E k \in Kind : \E r \in RuleId[k] :
         \/ \E i \in InfoOf(k) : CreateRule(k, r, i) \/ UpdateRule(k, r, i)
         \/ RemoveRule(k, r)
    \/ \E o \in {"create", "update"}, i \in PdrId, loc \in Loc, sdf \in Sdf,
          f \in RuleId["far"] \cup {NoRef}, q \in RuleId["qer"] \cup {NoRef} :
         PutPdr(o, i, f, q, loc, sdf)
    \/ \E p \in pdrs : RemovePdr(p) \/ DeletionPdr(p) \/ PrunePdr(p)
    \/ \E x \in rules : DeletionRule(x) \/ PruneRule(x)
    \/ RequestFails
    \/ RequestDone
    \/ DeletionDone
    \/ \E s \in cur.pending : PruneSession(s)
    \/ PruneDone

Spec == Init /\ [][Next]_vars

-----------------------------------------------------------------------------
(* Properties *)

\* Rules whose map slot is still theirs: a deletion in progress has given up the
\* slots of the rules it is done with.
Live == rules \ cur.done

SlotOf(x) == <<x.kind, x.gid>>

\* No two rules, of one session or of two, have the same place in a forwarding
\* map, and the tracker never holds as free an id some session still uses, in
\* the middle of a request and after any failed one.  Broken, one subscriber's
\* FAR or QER would be overwritten by another's.  Needs peers that name only
\* rules they created: GlobalId of any other rule is 0, another session's slot.
NoSharedRule ==
    /\ \A x, y \in Live : SlotOf(x) = SlotOf(y) => x = y
    /\ \A x \in Live : SlotOf(x) \notin free

\* What the datapath reads is what the session holds: the map slot of every FAR
\* and QER has the contents of its session row, and a free slot is zeroed (a zero
\* FAR forwards nothing), at every step of every handler.  URR slots are left out:
\* the datapath counts in them.
SlotsMirrorSessions ==
    /\ \A x \in Live : x.kind # "urr" => slot[SlotOf(x)] = x.info
    /\ \A p \in free : p[1] # "urr" => slot[p] = Zero

\* FAR and QER ids through which packets of a PDR map row can be sent.
Uses(e) ==
    (IF e.mode # 1 THEN {<<"far", e.far>>, <<"qer", e.qer>>} ELSE {})
      \cup (IF e.mode # 0 THEN {<<"far", e.sfar>>, <<"qer", e.sqer>>} ELSE {})

\* Packets of a session never go through the FAR or QER of another session, not
\* even while a request is half applied or an association is being pruned.  QER
\* id 0 is left out: a PDR without a QER carries it and shares that slot.
IsolatedForwarding ==
    \A e \in pdrMap, x \in Live :
        SlotOf(x) \in Uses(e) /\ SlotOf(x) # <<"qer", 0>> => x.sess = e.owner

\* Between requests the PDR maps hold exactly the PDRs of the stored sessions:
\* deleting a session, or losing its association, leaves nothing behind that
\* would still match packets.
MapsMatchSessions ==
    cur.op = "idle" => {e.key : e \in pdrMap} = {KeyOf(p) : p \in pdrs}

\* No Session Deletion Request is left without an answer.
DeletionAnswered == reply # "silent"

\* Ids the trackers have handed out and no session knows of.
Lost == Slot \ (free \cup {SlotOf(x) : x \in rules})

\* Ids leak in three places only: a failed establishment, which is not rolled
\* back; a pruned association, whose sessions' URRs DeleteSession does not release;
\* a create that overwrites a rule of the session, which loses the id of that rule.
\* No other modification, failed or not, and no deletion loses an id.
LeaksOnlyWhereKnown ==
    [][\A p \in Lost' \ Lost :
         \/ cur.op = "est" /\ reply' = "failure"
         \/ cur.op = "prune" /\ p[1] = "urr"
         \/ /\ "reuse" \in Stress
            /\ \E x \in rules \ rules', y \in rules' \ rules :
                 SlotOf(x) = p /\ x.kind = y.kind /\ x.sess = y.sess /\ x.id = y.id]_vars

\* Where each slot is: with the rules that have it, with its tracker (<<>>), or
\* nowhere.
SlotPlaces ==
    [p \in Slot |->
        {<<x.kind, x.sess, x.id>> : x \in {y \in Live : SlotOf(y) = p}}
          \cup (IF p \in free THEN {<<>>} ELSE {})]

Trackers == INSTANCE IdPool WITH
    Id <- Slot,
    Holder <- Kind \X Sess \X UNION {RuleId[k] : k \in Kind},
    Free <- <<>>,
    places <- SlotPlaces

\* The trackers and the handlers together are a pool of slots, each held by at
\* most one rule: every step of every handler hands out a free slot, gives back
\* slots of rules that have them, or forgets some.  In particular no slot goes
\* from one rule to another without being free in between, and no forgotten slot
\* comes back to be shared.
SlotsAreAPool == Trackers!LossySpec
=============================================================================
