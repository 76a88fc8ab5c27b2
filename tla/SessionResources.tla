--------------------------- MODULE SessionResources ---------------------------
(***************************************************************************)
(* The session handlers with feature_ftup and feature_ueip on, composed    *)
(* with the pools of ResourceManager: under which SEID TEIDs and addresses *)
(* are taken and given back (cmd/core/pdr_creation_context.go,             *)
(* pfcp_session_handlers.go, pfcp_connection.go).                          *)
(*                                                                         *)
(* The rules a PDR names play no part here (UpfSession has them), nor does *)
(* a UE address the peer assigns itself.  A request is a sequence of       *)
(* steps, one per PDR IE, recorded in cur.  The PDR maps are large enough. *)
(***************************************************************************)
EXTENDS ResourceManager

CONSTANTS
    Node,          \* addresses of the control-plane peers (SMFs)
    MaxSeid,       \* bound: the last local SEID an association hands out
    MaxStored,     \* bound: sessions at a time
    RemoteSeid,    \* SEIDs the peers choose for their end
    UplinkPdr,     \* ids of PDRs with an F-TEID
    DownlinkPdr,   \* ids of PDRs with a UE address
    GivenTeid,     \* TEIDs a peer assigns itself
    ChooseId,      \* CHOOSE IDs
    Stress         \* what a peer may do that the code does not guard against

\* The situations Stress can switch on.
\*   badIE       an IE of the request cannot be used
\*   rechoose    a PDR that has an id is given another, by a create or an update
\*   partial     Remove PDR leaves other PDRs with a TEID in the session
\*   shared      two PDRs are given the same TEID
\*   reseid      a modification changes the remote SEID
\*   sameSeid    two sessions have the same remote SEID: two peers chose it, or an
\*               establishment came twice
\*   crossed     the remote SEID of a session is the local SEID of another
StressKinds ==
    {"badIE", "rechoose", "partial", "shared", "reseid", "sameSeid", "crossed"}

ASSUME SessionAssumption ==
    /\ MaxSeid \in Nat \ {0} /\ MaxStored \in Nat
    /\ RemoteSeid \cup (2 .. MaxSeid) \subseteq SeId
    /\ UplinkPdr \cup DownlinkPdr \subseteq PdrId
    /\ UplinkPdr \cap DownlinkPdr = {}
    /\ GivenTeid \subseteq Nat \ (0 .. TeidRange)
    /\ ChooseId \subseteq 0 .. 255
    /\ Stress \subseteq StressKinds

Sess == Node \X (2 .. MaxSeid)
NoSess == <<"nobody", 0>>

VARIABLES
    assoc,        \* peers with an entry in NodeAssociations
    nextSeid,     \* NodeAssociation.NextSessionID
    stored,       \* sessions in NodeAssociation.Sessions
    remoteSeid,   \* Session.RemoteSEID
    pdrs,         \* Session.PDRs of all sessions
    rows,         \* keys in pdr_map_teid_ip4 and pdr_map_downlink_ip4
    cur           \* the request being applied

pools == <<freeTEIDs, busyTEIDs, freeIPs, busyIPs>>
resVars == <<pools, assoc, nextSeid, stored, remoteSeid, pdrs, rows, cur>>

\* SPDRInfo: teid is 0 and ip is 0 where the PDR has none.
SpdrInfo == [sess : Sess, id : PdrId, teid : Teids \cup GivenTeid \cup {0},
             ip : Ips \cup {0}]

\* The handler, its session, how far it has come (1 creates, 2 updates, 3
\* removals), the TEIDCache of its PDR context, and for deletions the PDRs and
\* sessions the loops have not reached.
Idle == [op |-> "idle", sess |-> NoSess, stage |-> 0, cache |-> <<>>,
         left |-> {}, pending |-> {}]

\* Every variable has its type.
ResTypeOK ==
    /\ TypeOK
    /\ assoc \subseteq Node
    /\ nextSeid \in [Node -> 1 .. MaxSeid]
    /\ stored \subseteq Sess
    /\ remoteSeid \in [Sess -> RemoteSeid \cup {0}]
    /\ pdrs \subseteq SpdrInfo
    /\ rows \subseteq ({"ul"} \X (Teids \cup GivenTeid \cup {0})) \cup ({"dl"} \X Ips)
    /\ cur.op \in {"idle", "est", "mod", "del", "free", "prune"}
    /\ cur.sess \in Node \X (0 .. MaxSeid) \cup {NoSess}
    /\ cur.left \subseteq pdrs
    /\ cur.pending \subseteq stored

ResInit ==
    /\ Init
    /\ assoc = {}
    /\ nextSeid = [n \in Node |-> 1]
    /\ stored = {}
    /\ remoteSeid = [s \in Sess |-> 0]
    /\ pdrs = {}
    /\ rows = {}
    /\ cur = Idle

PdrsOf(s) == {p \in pdrs : p.sess = s}
PdrAt(s, i) == {p \in PdrsOf(s) : p.id = i}

KeyOf(p) == IF p.ip # 0 THEN <<"dl", p.ip>> ELSE <<"ul", p.teid>>

-----------------------------------------------------------------------------
(* What peers outside of Stress refrain from *)

\* Remote SEIDs a peer takes for used: those of stored sessions other than s, and
\* those such a session had when it was given an id it still has.
SeidsInUse(s) ==
    {remoteSeid[t] : t \in stored \ {s}}
      \cup {b.seID : b \in {c \in busyTEIDs : \E p \in pdrs : p.sess # s /\ p.teid = c.teid}}
      \cup {b.seID : b \in {c \in busyIPs : \E p \in pdrs : p.sess # s /\ p.ip = c.ip}}

\* Session s of the peer may have remote SEID r.
PeerChooses(s, r) ==
    /\ \/ r \notin SeidsInUse(s)
       \/ "sameSeid" \in Stress
    /\ \/ s[2] \notin SeidsInUse(s) /\ \A t \in stored \ {s} : r # t[2]
       \/ "crossed" \in Stress

-----------------------------------------------------------------------------
(* Associations *)

AssociationSetup(n) ==
    /\ cur.op = "idle"
    /\ assoc' = assoc \cup {n}
    /\ nextSeid' = IF n \in assoc THEN nextSeid ELSE [nextSeid EXCEPT ![n] = 1]
    /\ UNCHANGED <<pools, stored, remoteSeid, pdrs, rows, cur>>

-----------------------------------------------------------------------------
(* Session Establishment and Session Modification *)

EstablishmentRequest(n, r) ==
    LET s == <<n, nextSeid[n] + 1>>
    IN  /\ cur.op = "idle"
        /\ n \in assoc
        /\ nextSeid[n] < MaxSeid
        /\ Cardinality(stored) < MaxStored
        /\ PeerChooses(s, r)
        /\ nextSeid' = [nextSeid EXCEPT ![n] = @ + 1]
        /\ remoteSeid' = [remoteSeid EXCEPT ![s] = r]
        /\ cur' = [Idle EXCEPT !.op = "est", !.sess = s]
        /\ UNCHANGED <<pools, assoc, stored, pdrs, rows>>

\* A modification may bring a new F-SEID, which the session has from then on,
\* also when the rest of the request fails.
ModificationRequest(s, r) ==
    /\ cur.op = "idle"
    /\ s \in stored
    /\ r = remoteSeid[s] \/ ("reseid" \in Stress /\ PeerChooses(s, r))
    /\ remoteSeid' = [remoteSeid EXCEPT ![s] = r]
    /\ cur' = [Idle EXCEPT !.op = "mod", !.sess = s]
    /\ UNCHANGED <<pools, assoc, nextSeid, stored, pdrs, rows>>

Stage(o) == CASE o = "create" -> 1 [] o = "update" -> 2 [] o = "remove" -> 3

Reached(o) ==
    /\ cur.op \in (IF o = "create" THEN {"est", "mod"} ELSE {"mod"})
    /\ cur.stage <= Stage(o)

\* A Create PDR or Update PDR for PDR i.
MayPut(o, i) ==
    /\ Reached(o)
    /\ o = "update" => PdrAt(cur.sess, i) # {}
    /\ PdrAt(cur.sess, i) # {} => "rechoose" \in Stress

\* A request that fails stops where it is: a session being established is
\* dropped, with whatever it had taken from the pools; one being modified keeps
\* what was done.
GiveUp ==
    /\ pdrs' = IF cur.op = "est" THEN pdrs \ PdrsOf(cur.sess) ELSE pdrs
    /\ remoteSeid' = IF cur.op = "est" THEN [remoteSeid EXCEPT ![cur.sess] = 0] ELSE remoteSeid
    /\ cur' = Idle

\* PutPDR and applyPDR.
StorePdr(p) ==
    /\ pdrs' = (pdrs \ PdrAt(p.sess, p.id)) \cup {p}
    /\ rows' = rows \cup {KeyOf(p)}

Uplink(i, t) == [sess |-> cur.sess, id |-> i, teid |-> t, ip |-> 0]
Downlink(i, a) == [sess |-> cur.sess, id |-> i, teid |-> 0, ip |-> a]

\* A PDR whose F-TEID the peer assigns.
PutGivenTeid(o, i, t) ==
    /\ MayPut(o, i)
    /\ "shared" \in Stress \/ \A p \in pdrs \ PdrAt(cur.sess, i) : p.teid # t
    /\ StorePdr(Uplink(i, t))
    /\ cur' = [cur EXCEPT !.stage = Stage(o)]
    /\ UNCHANGED <<pools, assoc, nextSeid, stored, remoteSeid>>

\* setTEIDCache
CacheWith(c, t) ==
    [k \in DOMAIN cur.cache \cup {c} |-> IF k = c THEN t ELSE cur.cache[k]]

\* A PDR with a CHOOSE ID the request has used before shares its TEID.
PutCachedTeid(o, i, c) ==
    /\ MayPut(o, i)
    /\ c \in DOMAIN cur.cache
    /\ StorePdr(Uplink(i, cur.cache[c]))
    /\ cur' = [cur EXCEPT !.stage = Stage(o)]
    /\ UNCHANGED <<pools, assoc, nextSeid, stored, remoteSeid>>

\* A PDR that asks for a TEID, with CHOOSE ID c or without one.
NoChooseId == 256

PutChosenTeid(o, i, c) ==
    /\ MayPut(o, i)
    /\ c \notin DOMAIN cur.cache
    /\ AllocateTEID(remoteSeid[cur.sess], i)
    /\ StorePdr(Uplink(i, Head(freeTEIDs)))
    /\ cur' = [cur EXCEPT !.stage = Stage(o),
                           !.cache = IF c = NoChooseId THEN @
                                     ELSE CacheWith(c, Head(freeTEIDs))]
    /\ UNCHANGED <<assoc, nextSeid, stored, remoteSeid>>

\* A PDR that asks for a UE address (CHV4).
PutChosenIp(o, i) ==
    /\ MayPut(o, i)
    /\ AllocateIP(remoteSeid[cur.sess])
    /\ StorePdr(Downlink(i, Head(freeIPs)))
    /\ cur' = [cur EXCEPT !.stage = Stage(o)]
    /\ UNCHANGED <<assoc, nextSeid, stored, remoteSeid>>

\* The request fails: a pool is empty when a PDR asks for an id, or an IE cannot
\* be used.
RequestFails ==
    /\ cur.op \in {"est", "mod"}
    /\ \/ "badIE" \in Stress
       \/ \E o \in {"create", "update"} :
            \/ freeTEIDs = <<>> /\ \E i \in UplinkPdr : MayPut(o, i)
            \/ freeIPs = <<>> /\ \E i \in DownlinkPdr : MayPut(o, i)
    /\ GiveUp
    /\ UNCHANGED <<pools, assoc, nextSeid, stored, rows>>

RequestDone ==
    /\ cur.op \in {"est", "mod"}
    /\ stored' = stored \cup {cur.sess}
    /\ cur' = Idle
    /\ UNCHANGED <<pools, assoc, nextSeid, remoteSeid, pdrs, rows>>

-----------------------------------------------------------------------------
(* deletePDR *)

\* TEIDCache, here keyed by uint8(Teid), also remembers the TEIDs whose row the
\* request has deleted.
CacheKey(p) == p.teid % 256
SkipsMap(p) == p.ip = 0 /\ CacheKey(p) \in DOMAIN cur.cache
DeleteFails(p) == ~SkipsMap(p) /\ KeyOf(p) \notin rows

RowsWithout(p) == IF SkipsMap(p) THEN rows ELSE rows \ {KeyOf(p)}
CacheAfter(p) ==
    IF p.ip # 0 \/ SkipsMap(p) THEN cur.cache ELSE CacheWith(CacheKey(p), 0)

\* Mutants of ReleaseOf: a PDR without a TEID releases too; the TEIDs are released
\* under the local SEID.
ReleaseAlways(p) == ReleaseTEID(remoteSeid[p.sess])

ReleaseUnderLocal(p) ==
    IF p.teid # 0 THEN ReleaseTEID(p.sess[2]) ELSE UNCHANGED pools

\* A PDR with a TEID, chosen or given, releases all TEIDs under the session's
\* remote SEID; a PDR with an address releases nothing.
ReleaseOf(p) ==
    IF p.teid # 0 THEN ReleaseTEID(remoteSeid[p.sess]) ELSE UNCHANGED pools

\* Remove PDR: the session has lost the PDR before deletePDR is called.
RemovePdr(p) ==
    /\ Reached("remove")
    /\ p \in PdrsOf(cur.sess)
    /\ \/ "partial" \in Stress
       \/ p.teid # 0 => \A q \in PdrsOf(cur.sess) \ {p} : q.teid = 0
    /\ pdrs' = pdrs \ {p}
    /\ IF DeleteFails(p)
       THEN /\ cur' = Idle
            /\ UNCHANGED <<pools, rows>>
       ELSE /\ rows' = RowsWithout(p)
            /\ ReleaseOf(p)
            /\ cur' = [cur EXCEPT !.stage = Stage("remove"), !.cache = CacheAfter(p)]
    /\ UNCHANGED <<assoc, nextSeid, stored, remoteSeid>>

-----------------------------------------------------------------------------
(* Session Deletion and loss of an association *)

DeletionRequest(s) ==
    /\ cur.op = "idle"
    /\ s \in stored
    /\ cur' = [Idle EXCEPT !.op = "del", !.sess = s, !.left = PdrsOf(s)]
    /\ UNCHANGED <<pools, assoc, nextSeid, stored, remoteSeid, pdrs, rows>>

\* A PDR that cannot be deleted ends the request; the session stays.
DeletionPdr(p) ==
    /\ cur.op = "del"
    /\ p \in cur.left
    /\ IF DeleteFails(p)
       THEN /\ cur' = Idle
            /\ UNCHANGED <<pools, rows>>
       ELSE /\ rows' = RowsWithout(p)
            /\ ReleaseOf(p)
            /\ cur' = [cur EXCEPT !.left = @ \ {p}, !.cache = CacheAfter(p)]
    /\ UNCHANGED <<assoc, nextSeid, stored, remoteSeid, pdrs>>

\* ReleaseIP of a SEID that may have no address.
ReleaseIpOf(seID) ==
    IF \E b \in busyIPs : b.seID = seID THEN ReleaseIP(seID) ELSE UNCHANGED pools

\* The session is dropped, and ReleaseResources is called with the SEID of the
\* request, the local one: first for the address ...
DeletionDone ==
    /\ cur.op = "del"
    /\ cur.left = {}
    /\ stored' = stored \ {cur.sess}
    /\ pdrs' = pdrs \ PdrsOf(cur.sess)
    /\ remoteSeid' = [remoteSeid EXCEPT ![cur.sess] = 0]
    /\ ReleaseIpOf(cur.sess[2])
    /\ cur' = [Idle EXCEPT !.op = "free", !.sess = cur.sess]
    /\ UNCHANGED <<assoc, nextSeid, rows>>

\* ... then for the TEIDs.
DeletionTeids ==
    /\ cur.op = "free"
    /\ ReleaseTEID(cur.sess[2])
    /\ cur' = Idle
    /\ UNCHANGED <<assoc, nextSeid, stored, remoteSeid, pdrs, rows>>

SessionsOf(n) == {s \in stored : s[1] = n}

\* DeleteAssociation and, session by session, DeleteSession with a PDR context of
\* its own; errors of deletePDR are ignored.
PruneAssociation(n) ==
    /\ cur.op = "idle"
    /\ n \in assoc
    /\ cur' = [Idle EXCEPT !.op = "prune", !.sess = <<n, 0>>, !.pending = SessionsOf(n)]
    /\ UNCHANGED <<pools, assoc, nextSeid, stored, remoteSeid, pdrs, rows>>

PruneSession(s) ==
    /\ cur.op = "prune"
    /\ cur.left = {}
    /\ s \in cur.pending
    /\ cur' = [cur EXCEPT !.sess = s, !.left = PdrsOf(s), !.cache = <<>>,
                          !.pending = @ \ {s}]
    /\ UNCHANGED <<pools, assoc, nextSeid, stored, remoteSeid, pdrs, rows>>

PrunePdr(p) ==
    /\ cur.op = "prune"
    /\ p \in cur.left
    /\ IF DeleteFails(p)
       THEN /\ cur' = [cur EXCEPT !.left = @ \ {p}]
            /\ UNCHANGED <<pools, rows>>
       ELSE /\ rows' = RowsWithout(p)
            /\ ReleaseOf(p)
            /\ cur' = [cur EXCEPT !.left = @ \ {p}, !.cache = CacheAfter(p)]
    /\ UNCHANGED <<assoc, nextSeid, stored, remoteSeid, pdrs>>

PruneDone ==
    LET n == cur.sess[1]
    IN  /\ cur.op = "prune"
        /\ cur.left = {} /\ cur.pending = {}
        /\ assoc' = assoc \ {n}
        /\ stored' = stored \ SessionsOf(n)
        /\ pdrs' = {p \in pdrs : p.sess[1] # n}
        /\ remoteSeid' = [s \in Sess |-> IF s[1] = n THEN 0 ELSE remoteSeid[s]]
        /\ cur' = Idle
        /\ UNCHANGED <<pools, nextSeid, rows>>

-----------------------------------------------------------------------------
ResNext ==
    \/ \E n \in Node :
         \/ AssociationSetup(n)
         \/ PruneAssociation(n)
         \/ \E r \in RemoteSeid : EstablishmentRequest(n, r)
    \/ \E s \in stored :
         \/ \E r \in RemoteSeid : ModificationRequest(s, r)
         \/ DeletionRequest(s)
         \/ PruneSession(s)
    \/ \E o \in {"create", "update"} :
         \/ \E i \in UplinkPdr :
              \/ \E t \in GivenTeid : PutGivenTeid(o, i, t)
              \/ \E c \in ChooseId : PutCachedTeid(o, i, c)
              \/ \E c \in ChooseId \cup {NoChooseId} : PutChosenTeid(o, i, c)
         \/ \E i \in DownlinkPdr : PutChosenIp(o, i)
    \/ \E p \in pdrs : RemovePdr(p) \/ DeletionPdr(p) \/ PrunePdr(p)
    \/ RequestFails
    \/ RequestDone
    \/ DeletionDone
    \/ DeletionTeids
    \/ PruneDone

ResSpec == ResInit /\ [][ResNext]_resVars

-----------------------------------------------------------------------------
(* Properties *)

TeidsOf(s) == {p.teid : p \in PdrsOf(s)} \cap Teids
IpsOf(s) == {p.ip : p \in PdrsOf(s)} \cap Ips

\* Between requests, a TEID or an address that the UPF chose for a session is not
\* free, and no other session has it: the next establishment cannot be given what
\* packets of this session carry.  The code books ids under remote SEIDs and
\* releases them for the whole session, so this needs peers that do not remove
\* PDRs one by one, and SEIDs of theirs that do not meet.
ResourcesExclusive ==
    cur.op = "idle" =>
        \A s \in stored :
            /\ TeidsOf(s) \cap Listed(freeTEIDs) = {}
            /\ IpsOf(s) \cap Listed(freeIPs) = {}
            /\ \A t \in stored \ {s} :
                 TeidsOf(s) \cap TeidsOf(t) = {} /\ IpsOf(s) \cap IpsOf(t) = {}

\* Ids that are neither free nor with a session.
OrphanTeids == Teids \ (Listed(freeTEIDs) \cup {p.teid : p \in pdrs})
OrphanIps == Ips \ (Listed(freeIPs) \cup {p.ip : p \in pdrs})

\* A session loses the id x of its PDR i: because its establishment fails or the
\* PDR is given another id.
FailedOrReplaced(old) ==
    \/ cur.op = "est" /\ cur'.op = "idle" /\ cur.sess \notin stored'
    \/ \A p \in old : PdrAt(p.sess, p.id)' \ {p} # {}

\* Ids go astray only in the known ways.  TEIDs: by a failed establishment, by a
\* PDR that is given another id, or when the pool no longer has them under the
\* session's remote SEID (it was changed, or used again); addresses also with a
\* removed PDR, a pruned association, and a deleted session under whose local SEID
\* the pool does not have them, that is, whose remote SEID was another number.
\* Every other session gives back all it was given.
OrphanedOnlyWhereKnown ==
    [][/\ \A t \in OrphanTeids' \ OrphanTeids :
            LET old == {p \in pdrs : p.teid = t}
            IN  \/ FailedOrReplaced(old)
                \/ \A p \in old : ~\E b \in busyTEIDs :
                      b.teid = t /\ b.seID = remoteSeid[p.sess]
       /\ \A a \in OrphanIps' \ OrphanIps :
            LET old == {p \in pdrs : p.ip = a}
            IN  \/ FailedOrReplaced(old)
                \/ cur.op \in {"mod", "prune"}
                \/ \A p \in old : ~\E b \in busyIPs : b.ip = a /\ b.seID = p.sess[2]]_resVars
=============================================================================
