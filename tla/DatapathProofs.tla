---------------------------- MODULE DatapathProofs ----------------------------
(***************************************************************************)
(* Proofs about Datapath: the XDP program on any number of CPUs, between   *)
(* the steps of the session handlers.                                      *)
(***************************************************************************)
EXTENDS Datapath, UpfSessionProofs

InFlight(r) == r.pc \in {"far", "qer", "send"}

\* The global ids that PDRs and rows of the PDR maps name are ids of slots.
IdsFit ==
    /\ \A p \in pdrs : p.far < PoolSize["far"] /\ p.qer < PoolSize["qer"]
    /\ \A e \in pdrMap : /\ e.far < PoolSize["far"] /\ e.sfar < PoolSize["far"]
                         /\ e.qer < PoolSize["qer"] /\ e.sqer < PoolSize["qer"]

\* A session being modified has the FARs its PDRs name until the request comes to
\* the updates and removals.
EarlyNamed ==
    cur.op = "mod" /\ cur.stage <= 1 =>
        \A p \in pdrs : p.sess = cur.sess =>
            \E x \in rules : x.sess = p.sess /\ x.kind = "far" /\ x.gid = p.far

\* The rules among those given that have FAR slot g.
Who(live, g) == {<<x.sess, x.id>> : x \in {y \in live : y.kind = "far" /\ y.gid = g}}

\* Since no request began, the FAR slot of packet r went to no other rule, and it
\* will go to none: it is not free while the request may still create FARs.
Clean(r) ==
    /\ InFlight(r) /\ ~r.late =>
         /\ Who(Live, r.far) \subseteq r.rule
         /\ cur.op \in {"est", "mod"} /\ cur.stage <= 1 => <<"far", r.far>> \notin free
    /\ r.out \in {"tunnel", "n6"} => r.pc = "done" /\ (~r.late => r.sentBy \subseteq r.rule)

Unrecycled == \A c \in Cpu : Clean(pkt[c])

\* Packet r, of an untouched session, belongs to PDR p.
Of(r, p) == ~r.touched /\ r.owner = p.sess /\ r.key = KeyOf(p)

\* FAR contents that let packets of PDR p through.
Usable(p, i) == i \in Forw /\ (Uplink(KeyOf(p)) \/ i \in Gtp)

\* Packet r, in flight, has the ids of its PDR p, and what it read on its way still
\* stands.
Fits(r, p) ==
    /\ r.far = p.far /\ r.qer = p.qer /\ (p.sdf => r.sdf)
    /\ r.pc # "far" => Usable(p, slot[<<"far", p.far>>])
    /\ r.pc = "send" /\ RowOf("qer", p.sess, p.qer) # {} => slot[<<"qer", p.qer>>] \notin Closed

\* What may become of a packet of PDR p.
Allowed(p, sdf, out, to) == <<out, to>> \in Ordered(p, sdf) \/ StoppedByStranger(p, out)

\* No request works on the session of an untouched packet; in flight the packet fits
\* its PDR, and once it has left it got what its session's tables allow.
Served(r) ==
    /\ InFlight(r) => /\ r.to = Zero
                      /\ ~r.touched => ~Working(cur, r.owner)
                      /\ \A p \in pdrs : Of(r, p) => Fits(r, p)
    /\ r.pc = "done" => \A p \in pdrs : Of(r, p) => Allowed(p, r.sdf, r.out, r.to)

Undisturbed == \A c \in Cpu : Served(pkt[c])

-----------------------------------------------------------------------------
(* Types *)

\* A PDR made by extractPDR names slots when the PDRs so far do.
LEMMA ExtractedFits ==
    ASSUME TypeOK, IdsFit, NEW o, NEW s, NEW i, NEW f, NEW q, NEW loc, NEW sdf, NEW p,
           p = ExtractedPdr(o, s, i, f, q, loc, sdf)
    PROVE  p.far < PoolSize["far"] /\ p.qer < PoolSize["qer"]
<1>1. /\ GlobalId("far", s, f) < PoolSize["far"]
      /\ GlobalId("qer", s, q) < PoolSize["qer"]
      /\ 0 < PoolSize["far"] /\ 0 < PoolSize["qer"]
  <2>1. "far" \in Kind /\ "qer" \in Kind
    BY DEF Kind
  <2>2. 0 < PoolSize["far"] /\ 0 < PoolSize["qer"]
    BY <2>1, ConstantsAssumption
  <2> QED  BY <2>1, <2>2, GlobalIdInPool
<1> DEFINE b == CHOOSE x \in PdrAt(s, i) : TRUE
<1>2. PdrAt(s, i) # {} => b.far < PoolSize["far"] /\ b.qer < PoolSize["qer"]
  <2>1. PdrAt(s, i) # {} => b \in pdrs
    BY DEF PdrAt
  <2> QED  BY <2>1 DEF IdsFit
<1>3. CASE o = "create" \/ PdrAt(s, i) = {}
  <2>1. /\ p.far = IF f = NoRef THEN 0 ELSE GlobalId("far", s, f)
        /\ p.qer = IF q = NoRef THEN 0 ELSE GlobalId("qer", s, q)
    BY <1>3 DEF ExtractedPdr
  <2> QED  BY <1>1, <2>1
<1>4. CASE ~(o = "create" \/ PdrAt(s, i) = {})
  <2>1. /\ p.far = IF f = NoRef THEN b.far ELSE GlobalId("far", s, f)
        /\ p.qer = IF q = NoRef THEN b.qer ELSE GlobalId("qer", s, q)
    BY <1>4 DEF ExtractedPdr
  <2> QED  BY <1>1, <1>2, <1>4, <2>1
<1> QED  BY <1>3, <1>4

\* Every step keeps IdsFit, whatever peers do.
LEMMA IdsStep == TypeOK /\ CurOK /\ IdsFit /\ [Next]_vars => IdsFit'
<1> SUFFICES ASSUME TypeOK, CurOK, IdsFit, [Next]_vars PROVE IdsFit'
  OBVIOUS
<1>1. ASSUME pdrs' \subseteq pdrs, pdrMap' \subseteq pdrMap PROVE IdsFit'
  BY <1>1 DEF IdsFit
<1>2. ASSUME NEW n \in Node,
             AssociationSetup(n) \/ EstablishmentRequest(n) \/ PruneAssociation(n)
      PROVE  IdsFit'
  BY <1>1, <1>2 DEF AssociationSetup, EstablishmentRequest, PruneAssociation
<1>3. CASE RejectRequest
  BY <1>1, <1>3 DEF RejectRequest
<1>4. ASSUME NEW s \in stored, ModificationRequest(s) \/ DeletionRequest(s) PROVE IdsFit'
  BY <1>1, <1>4 DEF ModificationRequest, DeletionRequest
<1>5. ASSUME NEW k \in Kind, NEW r, NEW i, CreateRule(k, r, i) \/ UpdateRule(k, r, i)
      PROVE  IdsFit'
  BY <1>1, <1>5 DEF CreateRule, UpdateRule
<1>6. ASSUME NEW k \in Kind, NEW r, RemoveRule(k, r) PROVE IdsFit'
  BY <1>1, <1>6 DEF RemoveRule
<1>7. ASSUME NEW o, NEW i, NEW f, NEW q, NEW loc, NEW sdf, PutPdr(o, i, f, q, loc, sdf)
      PROVE  IdsFit'
  <2> DEFINE p == ExtractedPdr(o, cur.sess, i, f, q, loc, sdf)
             key == KeyOf(p)
             old == CHOOSE e \in EntriesAt(key) : TRUE
             row == PdrToStore(p)
  <2>1. p.far < PoolSize["far"] /\ p.qer < PoolSize["qer"]
    BY ExtractedFits
  <2>2. /\ pdrs' \subseteq pdrs \cup {p}
        /\ pdrMap' \subseteq pdrMap \cup {row}
    BY <1>7 DEF PutPdr
  <2>3. 0 < PoolSize["far"] /\ 0 < PoolSize["qer"]
    BY ConstantsAssumption DEF Kind
  <2>4. EntriesAt(key) # {} => old.far < PoolSize["far"] /\ old.qer < PoolSize["qer"]
    <3>1. EntriesAt(key) # {} => old \in pdrMap
      BY DEF EntriesAt
    <3> QED  BY <3>1 DEF IdsFit
  <2> HIDE DEF p, old
  <2>5. /\ row.far < PoolSize["far"] /\ row.sfar < PoolSize["far"]
        /\ row.qer < PoolSize["qer"] /\ row.sqer < PoolSize["qer"]
    BY <2>1, <2>3, <2>4 DEF PdrToStore, old
  <2> HIDE DEF row
  <2> QED  BY <2>1, <2>2, <2>5 DEF IdsFit
<1>8. ASSUME NEW p \in pdrs, RemovePdr(p) \/ DeletionPdr(p) \/ PrunePdr(p) PROVE IdsFit'
  BY <1>1, <1>8 DEF RemovePdr, DeletionPdr, PrunePdr, MapWithout
<1>9. ASSUME NEW x \in rules, DeletionRule(x) \/ PruneRule(x) PROVE IdsFit'
  BY <1>1, <1>9 DEF DeletionRule, PruneRule
<1>10. CASE RequestFails \/ RequestDone \/ DeletionDone \/ PruneDone
  BY <1>1, <1>10 DEF RequestFails, RequestDone, DeletionDone, PruneDone
<1>11. ASSUME NEW s, PruneSession(s) PROVE IdsFit'
  BY <1>1, <1>11 DEF PruneSession
<1>12. CASE UNCHANGED vars
  BY <1>1, <1>12 DEF vars
<1> QED
  BY <1>2, <1>3, <1>4, <1>5, <1>6, <1>7, <1>8, <1>9, <1>10, <1>11, <1>12 DEF Next

\* Every kind of frame that is looked up has a key of the map it is looked up in.
LEMMA FrameKey ==
    ASSUME NEW f \in Frame, PathOf(f) \notin {"pass", "echo"}
    PROVE  <<PathOf(f), f.addr>> \in Key
BY DEF Frame, PathOf, Key

\* A row gives a packet at most one choice of FAR and QER.
LEMMA OneChoice ==
    ASSUME NEW e, NEW m, NEW d \in SdfChoice(e, m)
    PROVE  /\ d = [far |-> d.far, qer |-> d.qer, sdf |-> d.sdf]
           /\ \/ /\ e.mode # 0 /\ m = "yes"
                 /\ d.far = e.sfar /\ d.qer = e.sqer /\ d.sdf = TRUE
              \/ /\ e.mode # 1 /\ (e.mode # 0 => m # "yes")
                 /\ d.far = e.far /\ d.qer = e.qer /\ d.sdf = FALSE
BY DEF SdfChoice

\* Packet r was just looked up under key k.  One whose lookup finds nothing leaves;
\* any other has the FAR and the QER of the row it found, and remembers who has that
\* FAR.
Passed(r, k, m) ==
    /\ r.pc = "done" /\ r.out = "pass" /\ (r.sdf <=> m = "yes")
    /\ r.rule = {} /\ r.far = 0 /\ r.qer = 0
    /\ \A e \in EntriesAt(k) : SdfChoice(e, m) = {}

Found(r, k, m) ==
    /\ r.pc = "far" /\ r.out = "none" /\ r.rule = Holders(r.far)
    /\ \E e \in EntriesAt(k) : \E d \in SdfChoice(e, m) :
          r.far = d.far /\ r.qer = d.qer /\ r.sdf = d.sdf

Fresh(r, k) ==
    /\ r.key = k /\ r.owner = OwnerOf(k) /\ (r.touched <=> Busy(cur, OwnerOf(k)))
    /\ r.late = FALSE /\ r.to = Zero /\ r.sentBy = {}

\* The lookup has one of the two outcomes.
LEMMA LookedFields ==
    ASSUME NEW k, NEW m, NEW r, r = Looked(k, m)
    PROVE  /\ Fresh(r, k)
           /\ Passed(r, k, m) \/ Found(r, k, m)
<1> DEFINE found == UNION {SdfChoice(e, m) : e \in EntriesAt(k)}
           base == [NoPacket EXCEPT !.key = k, !.owner = OwnerOf(k),
                                    !.touched = Busy(cur, OwnerOf(k))]
           none == [base EXCEPT !.pc = "done", !.out = "pass", !.sdf = (m = "yes")]
           d == CHOOSE x \in found : TRUE
           row == [base EXCEPT !.pc = "far", !.far = d.far, !.qer = d.qer,
                               !.sdf = d.sdf, !.rule = Holders(d.far)]
<1>1. r = IF found = {} THEN none ELSE row
  BY DEF Looked
<1>2. found # {} => d \in found
  OBVIOUS
<1> HIDE DEF found, d
<1>3. CASE found = {}
  <2>1. \A e \in EntriesAt(k) : SdfChoice(e, m) = {}
    BY <1>3 DEF found
  <2>2. r = none
    BY <1>1, <1>3
  <2>3. /\ r.key = k /\ r.owner = OwnerOf(k) /\ (r.touched <=> Busy(cur, OwnerOf(k)))
        /\ r.late = FALSE /\ r.to = Zero /\ r.sentBy = {}
        /\ r.pc = "done" /\ r.out = "pass" /\ (r.sdf <=> m = "yes")
        /\ r.rule = {} /\ r.far = 0 /\ r.qer = 0
    BY <2>2 DEF NoPacket
  <2> QED  BY <2>1, <2>3 DEF Fresh, Passed, Found
<1>4. CASE found # {}
  <2>1. PICK e \in EntriesAt(k) : d \in SdfChoice(e, m)
    BY <1>2, <1>4 DEF found
  <2>2. r = row
    BY <1>1, <1>4
  <2>3. /\ r.key = k /\ r.owner = OwnerOf(k) /\ (r.touched <=> Busy(cur, OwnerOf(k)))
        /\ r.late = FALSE /\ r.to = Zero /\ r.sentBy = {}
        /\ r.pc = "far" /\ r.out = "none" /\ r.rule = Holders(r.far)
        /\ r.far = d.far /\ r.qer = d.qer /\ r.sdf = d.sdf
    BY <2>2 DEF NoPacket
  <2> QED  BY <2>1, <2>3 DEF Fresh, Passed, Found
<1> QED  BY <1>3, <1>4

\* The session of a PDR, and the rules that have a slot.
LEMMA HistoryTypes ==
    ASSUME TypeOK, NEW k, NEW g
    PROVE  OwnerOf(k) \in SessOrNone /\ Holders(g) \subseteq Sess \X Nat
<1>1. OwnerOf(k) \in SessOrNone
  <2>1. NoSess \in SessOrNone
    BY DEF SessOrNone
  <2>2. \A p \in pdrs : p.sess \in SessOrNone
    BY SessNotNone DEF TypeOK, PdrRow
  <2> QED  BY <2>1, <2>2 DEF OwnerOf
<1>2. \A x \in rules : x.sess \in Sess /\ x.id \in Nat
  BY DEF TypeOK, RuleRow
<1> QED  BY <1>1, <1>2 DEF Holders

\* A packet after the lookup has its type, and ids of slots.
LEMMA LookedType ==
    ASSUME TypeOK, IdsFit, NEW k \in Key, NEW m, NEW r, r = Looked(k, m)
    PROVE  /\ r \in Packet
           /\ <<"far", r.far>> \in Slot /\ <<"qer", r.qer>> \in Slot
<1>1. r = [pc |-> r.pc, key |-> r.key, sdf |-> r.sdf, far |-> r.far, qer |-> r.qer,
           out |-> r.out, to |-> r.to, owner |-> r.owner, rule |-> r.rule,
           sentBy |-> r.sentBy, touched |-> r.touched, late |-> r.late]
  <2> DEFINE found == UNION {SdfChoice(e, m) : e \in EntriesAt(k)}
             base == [NoPacket EXCEPT !.key = k, !.owner = OwnerOf(k),
                                      !.touched = Busy(cur, OwnerOf(k))]
             none == [base EXCEPT !.pc = "done", !.out = "pass", !.sdf = (m = "yes")]
             d == CHOOSE x \in found : TRUE
             row == [base EXCEPT !.pc = "far", !.far = d.far, !.qer = d.qer,
                                 !.sdf = d.sdf, !.rule = Holders(d.far)]
  <2>1. r = none \/ r = row
    BY DEF Looked
  <2> HIDE DEF found, d
  <2>2. CASE r = none
    BY <2>2 DEF NoPacket
  <2>3. CASE r = row
    BY <2>3 DEF NoPacket
  <2> QED  BY <2>1, <2>2, <2>3
<1>2. /\ r.sdf \in BOOLEAN /\ r.touched \in BOOLEAN
  <2> DEFINE found == UNION {SdfChoice(e, m) : e \in EntriesAt(k)}
             base == [NoPacket EXCEPT !.key = k, !.owner = OwnerOf(k),
                                      !.touched = Busy(cur, OwnerOf(k))]
             none == [base EXCEPT !.pc = "done", !.out = "pass", !.sdf = (m = "yes")]
             d == CHOOSE x \in found : TRUE
             row == [base EXCEPT !.pc = "far", !.far = d.far, !.qer = d.qer,
                                 !.sdf = d.sdf, !.rule = Holders(d.far)]
  <2>1. r = IF found = {} THEN none ELSE row
    BY DEF Looked
  <2>2. found # {} => d.sdf \in BOOLEAN
    <3>1. \A x \in found : x.sdf \in BOOLEAN
      <4> SUFFICES ASSUME NEW e, NEW x \in SdfChoice(e, m) PROVE x.sdf \in BOOLEAN
        OBVIOUS
      <4> QED  BY OneChoice
    <3> QED  BY <3>1
  <2>3. Busy(cur, OwnerOf(k)) \in BOOLEAN
    BY DEF Busy
  <2> HIDE DEF found, d
  <2>4. CASE found = {}
    <3>1. r = none
      BY <2>1, <2>4
    <3>2. r.sdf = (m = "yes") /\ r.touched = Busy(cur, OwnerOf(k))
      BY <3>1 DEF NoPacket
    <3> QED  BY <2>3, <3>2
  <2>5. CASE found # {}
    <3>1. r = row
      BY <2>1, <2>5
    <3>2. r.sdf = d.sdf /\ r.touched = Busy(cur, OwnerOf(k))
      BY <3>1 DEF NoPacket
    <3> QED  BY <2>2, <2>3, <2>5, <3>2
  <2> QED  BY <2>4, <2>5
<1>3. r.key \in Key \cup {NoLoc} /\ r.owner \in SessOrNone /\ r.late \in BOOLEAN
  <2>1. r.key = k /\ r.owner = OwnerOf(k) /\ r.late = FALSE
    <3>1. Fresh(r, k)
      BY LookedFields
    <3> QED  BY <3>1 DEF Fresh
  <2> QED  BY <2>1, HistoryTypes
<1>4. /\ r.to \in Info \cup {Zero} /\ r.sentBy \in SUBSET (Sess \X Nat)
      /\ r.pc \in {"idle", "far", "qer", "send", "done"} /\ r.out \in Verdict
  <2>1. Fresh(r, k)
    BY LookedFields
  <2>2. Passed(r, k, m) \/ Found(r, k, m)
    BY LookedFields
  <2> QED  BY <2>1, <2>2 DEF Verdict, Fresh, Passed, Found
<1>5. r.rule \in SUBSET (Sess \X Nat)
  <2>1. Holders(r.far) \subseteq Sess \X Nat
    BY HistoryTypes
  <2>2. r.rule = {} \/ r.rule = Holders(r.far)
    BY LookedFields DEF Passed, Found
  <2> QED  BY <2>1, <2>2
<1>6. /\ r.far \in Nat /\ r.far < PoolSize["far"]
      /\ r.qer \in Nat /\ r.qer < PoolSize["qer"]
  <2>1. "far" \in Kind /\ "qer" \in Kind
    BY DEF Kind
  <2>2. 0 < PoolSize["far"] /\ 0 < PoolSize["qer"]
    BY <2>1, ConstantsAssumption
  <2>3. ASSUME NEW e \in EntriesAt(k)
        PROVE  /\ e.far \in Nat /\ e.sfar \in Nat /\ e.qer \in Nat /\ e.sqer \in Nat
               /\ e.far < PoolSize["far"] /\ e.sfar < PoolSize["far"]
               /\ e.qer < PoolSize["qer"] /\ e.sqer < PoolSize["qer"]
    BY DEF EntriesAt, TypeOK, EntryRow, IdsFit
  <2>4. \/ r.far = 0 /\ r.qer = 0
        \/ \E e \in EntriesAt(k) : \/ r.far = e.sfar /\ r.qer = e.sqer
                                   \/ r.far = e.far /\ r.qer = e.qer
    <3>1. \/ r.far = 0 /\ r.qer = 0
          \/ \E e \in EntriesAt(k) : \E d \in SdfChoice(e, m) : r.far = d.far /\ r.qer = d.qer
      <4>1. Passed(r, k, m) \/ Found(r, k, m)
        BY LookedFields
      <4> QED  BY <4>1 DEF Passed, Found
    <3>2. ASSUME NEW e \in EntriesAt(k), NEW d \in SdfChoice(e, m)
          PROVE  (d.far = e.sfar /\ d.qer = e.sqer) \/ (d.far = e.far /\ d.qer = e.qer)
      BY OneChoice
    <3> QED  BY <3>1, <3>2
  <2> QED  BY <2>2, <2>3, <2>4
<1>7. <<"far", r.far>> \in Slot /\ <<"qer", r.qer>> \in Slot
  BY <1>6, SlotMembers DEF Kind
<1>8. r \in Packet
  BY <1>1, <1>2, <1>3, <1>4, <1>5, <1>6, Zenon DEF Packet
<1> QED  BY <1>7, <1>8

\* Handler steps are steps of UpfSession, the others leave its state alone.
LEMMA DpNextIsNext == [DpNext]_dpVars => [Next]_vars
BY DEF DpNext, Handler, Receive, AnswerPing, CheckFar, CheckQer, Send, Abort, dpVars

LEMMA DpSpecIsSpec == DpSpec => Spec
BY DpNextIsNext, PTL DEF DpSpec, Spec, DpInit

\* A packet that has not arrived has its type.
LEMMA NoPacketType == NoPacket \in Packet
BY DEF NoPacket, Packet, Verdict, SessOrNone

\* A packet that is sent keeps its type, and so does one whose history changes.
LEMMA SentType ==
    ASSUME NEW r \in Packet, NEW v \in Verdict, NEW to \in Info \cup {Zero},
           NEW by \in SUBSET (Sess \X Nat)
    PROVE  [r EXCEPT !.pc = "done", !.out = v, !.to = to, !.sentBy = by] \in Packet
BY DEF Packet

LEMMA WitnessedType ==
    ASSUME NEW r \in Packet, NEW t \in BOOLEAN, NEW l \in BOOLEAN
    PROVE  [r EXCEPT !.touched = t, !.late = l] \in Packet
BY DEF Packet

\* A step of the program on one CPU keeps DpTypeOK when its packet ends up well.
LEMMA OneCpuType ==
    ASSUME DpTypeOK, NEW c \in Cpu, NEW r \in Packet, pkt' = [pkt EXCEPT ![c] = r],
           r.pc \in {"far", "qer", "send"} => <<"far", r.far>> \in Slot /\ <<"qer", r.qer>> \in Slot
    PROVE  DpTypeOK'
<1>1. pkt' \in [Cpu -> Packet]
  BY DEF DpTypeOK
<1>2. \A d \in Cpu : pkt'[d] = IF d = c THEN r ELSE pkt[d]
  BY DEF DpTypeOK
<1> QED  BY <1>1, <1>2 DEF DpTypeOK

\* Every step keeps DpTypeOK.
LEMMA DpTypeStep ==
    ASSUME TypeOK, IdsFit, DpTypeOK, [DpNext]_dpVars
    PROVE  DpTypeOK'
<1>1. ASSUME NEW c \in Cpu
      PROVE  /\ pkt[c] \in Packet
             /\ pkt[c].pc \in {"far", "qer", "send"} =>
                  <<"far", pkt[c].far>> \in Slot /\ <<"qer", pkt[c].qer>> \in Slot
  BY DEF DpTypeOK
<1>2. CASE Handler
  <2> DEFINE t(c) == pkt[c].touched \/ Busy(cur', pkt[c].owner)
             l(c) == pkt[c].late \/ (cur.op = "idle" /\ cur'.op # "idle")
             n(c) == IF pkt[c].pc \in {"idle", "done"} THEN NoPacket
                     ELSE [pkt[c] EXCEPT !.touched = t(c), !.late = l(c)]
  <2>1. pkt' = [c \in Cpu |-> n(c)]
    BY <1>2 DEF Handler
  <2>2. ASSUME NEW c \in Cpu
        PROVE  /\ n(c) \in Packet
               /\ n(c).pc \in {"far", "qer", "send"} =>
                    <<"far", n(c).far>> \in Slot /\ <<"qer", n(c).qer>> \in Slot
    <3>1. t(c) \in BOOLEAN /\ l(c) \in BOOLEAN
      OBVIOUS
    <3> HIDE DEF t, l
    <3>2. CASE pkt[c].pc \in {"idle", "done"}
      BY <3>2, NoPacketType DEF NoPacket
    <3>3. CASE pkt[c].pc \notin {"idle", "done"}
      <4> DEFINE r == [pkt[c] EXCEPT !.touched = t(c), !.late = l(c)]
      <4>1. r \in Packet
        BY <1>1, <3>1, WitnessedType
      <4>2. r.pc = pkt[c].pc /\ r.far = pkt[c].far /\ r.qer = pkt[c].qer
        BY <1>1 DEF Packet
      <4>3. n(c) = r
        BY <3>3
      <4> HIDE DEF r, n
      <4> QED  BY <1>1, <4>1, <4>2, <4>3
    <3> QED  BY <3>2, <3>3
  <2> HIDE DEF n
  <2> QED  BY <2>1, <2>2 DEF DpTypeOK
<1>3. ASSUME NEW c \in Cpu, NEW m \in Match, NEW f \in Frame, Receive(c, f, m)
      PROVE  DpTypeOK'
  <2>1. CASE PathOf(f) \in {"pass", "echo"}
    <3> DEFINE r == [NoPacket EXCEPT !.pc = "done", !.out = PathOf(f)]
    <3>1. r \in Packet /\ r.pc = "done"
      BY <2>1, NoPacketType DEF Packet, Verdict
    <3>2. pkt' = [pkt EXCEPT ![c] = r]
      BY <1>3, <2>1 DEF Receive
    <3> QED  BY <3>1, <3>2, OneCpuType
  <2>2. CASE PathOf(f) \notin {"pass", "echo"}
    <3>1. pkt' = [pkt EXCEPT ![c] = Looked(<<PathOf(f), f.addr>>, m)]
      BY <1>3, <2>2 DEF Receive
    <3> QED  BY <2>2, <3>1, FrameKey, LookedType, OneCpuType
  <2> QED  BY <2>1, <2>2
<1>4. ASSUME NEW c \in Cpu, NEW m \in Match, NEW a \in UeIp4, AnswerPing(c, a, m)
      PROVE  DpTypeOK'
  <2>1. pkt' = [pkt EXCEPT ![c] = Looked(<<"dl4", a>>, m)] /\ <<"dl4", a>> \in Key
    BY <1>4 DEF AnswerPing, Key
  <2> QED  BY <2>1, LookedType, OneCpuType
<1>5. ASSUME NEW c \in Cpu, NEW v \in Verdict, Ends(c, v) PROVE DpTypeOK'
  <2> DEFINE r == [pkt[c] EXCEPT !.pc = "done", !.out = v]
  <2>1. r \in Packet /\ r.pc = "done"
    BY <1>1 DEF Packet
  <2>2. pkt' = [pkt EXCEPT ![c] = r]
    BY <1>5 DEF Ends
  <2> QED  BY <2>1, <2>2, OneCpuType
<1>6. ASSUME NEW c \in Cpu, NEW pc \in {"qer", "send"}, pkt[c].pc \in {"far", "qer", "send"},
             pkt' = [pkt EXCEPT ![c].pc = pc]
      PROVE  DpTypeOK'
  <2> DEFINE r == [pkt[c] EXCEPT !.pc = pc]
  <2>1. r \in Packet /\ r.far = pkt[c].far /\ r.qer = pkt[c].qer
    BY <1>1 DEF Packet
  <2>2. pkt' = [pkt EXCEPT ![c] = r]
    BY <1>6
  <2> HIDE DEF r
  <2> QED  BY <1>1, <1>6, <2>1, <2>2, OneCpuType
<1>7. ASSUME NEW c \in Cpu, CheckFar(c) PROVE DpTypeOK'
  BY <1>5, <1>6, <1>7 DEF CheckFar, Verdict
<1>8. ASSUME NEW c \in Cpu, CheckQer(c) PROVE DpTypeOK'
  BY <1>5, <1>6, <1>8 DEF CheckQer, Verdict
<1>9. ASSUME NEW c \in Cpu, Send(c) PROVE DpTypeOK'
  <2> DEFINE r == [pkt[c] EXCEPT !.pc = "done", !.out = SendVerdict(c),
                                 !.to = FarSlot(c), !.sentBy = Holders(pkt[c].far)]
  <2>1. pkt' = [pkt EXCEPT ![c] = r] /\ pkt[c].pc = "send"
    BY <1>9 DEF Send
  <2>2. SendVerdict(c) \in Verdict /\ FarSlot(c) \in Info \cup {Zero}
    BY <1>1, <2>1 DEF SendVerdict, Verdict, FarSlot, TypeOK
  <2>3. Holders(pkt[c].far) \in SUBSET (Sess \X Nat)
    BY HistoryTypes
  <2>4. r \in Packet
    BY <1>1, <2>2, <2>3, SentType
  <2>5. r.pc = "done"
    BY <1>1 DEF Packet
  <2> HIDE DEF r
  <2> QED  BY <2>1, <2>4, <2>5, OneCpuType
<1>10. ASSUME NEW c \in Cpu, Abort(c) PROVE DpTypeOK'
  BY <1>5, <1>10 DEF Abort, Verdict
<1>11. CASE UNCHANGED dpVars
  BY <1>11 DEF dpVars, DpTypeOK
<1> QED
  BY <1>2, <1>3, <1>4, <1>7, <1>8, <1>9, <1>10, <1>11 DEF DpNext

\* For any number of CPUs and whatever peers do: every packet in flight holds ids of
\* slots of far_map and qer_map, so the lookups by id that the XDP program tests for
\* NULL never fail, also with a row it found before a handler rewrote the maps.
THEOREM DatapathTypes == DpSpec => []DpTypeOK
<1>1. DpInit => DpTypeOK /\ IdsFit
  <2> SUFFICES ASSUME DpInit PROVE DpTypeOK /\ IdsFit
    OBVIOUS
  <2>1. IdsFit
    BY DEF DpInit, Init, IdsFit
  <2>2. NoPacket.pc = "idle" /\ pkt = [c \in Cpu |-> NoPacket]
    BY DEF NoPacket, DpInit
  <2> QED  BY <2>1, <2>2, NoPacketType DEF DpTypeOK
<1>2. TypeOK /\ CurOK /\ IdsFit /\ DpTypeOK /\ [DpNext]_dpVars => (IdsFit /\ DpTypeOK)'
  BY DpNextIsNext, IdsStep, DpTypeStep
<1> QED  BY <1>1, <1>2, KeptAlways, DpSpecIsSpec, PTL DEF DpSpec

-----------------------------------------------------------------------------
(* Rules that get a packet's slot *)

\* A request that is still at its Create FARs has just begun, or has created one.
LEMMA EarlyStepIs ==
    ASSUME TypeOK, CurOK, Next, cur'.op \in {"est", "mod"}, cur'.stage <= 1
    PROVE  \/ cur.op = "idle" /\ UNCHANGED <<rules, pdrs>>
           \/ \E r \in RuleId["far"], i \in InfoOf("far") :
                CreateRule("far", r, i) /\ cur'.op = cur.op /\ cur'.sess = cur.sess
<1> DEFINE Goal == \/ cur.op = "idle" /\ UNCHANGED <<rules, pdrs>>
                   \/ \E r \in RuleId["far"], i \in InfoOf("far") :
                        CreateRule("far", r, i) /\ cur'.op = cur.op /\ cur'.sess = cur.sess
<1> SUFFICES Goal
  OBVIOUS
<1>0. cur \in Request /\ Idle.op = "idle"
  BY DEF TypeOK, Idle
<1>1. \A k \in Kind, o \in {"create", "update", "remove"} :
        ~(k = "far" /\ o = "create") => ~(Stage(k, o) <= 1)
  BY DEF Stage, Kind
<1>2. \A o \in {"create", "update", "remove"} : ~(Stage("pdr", o) <= 1)
  BY DEF Stage
<1>3. ASSUME NEW n \in Node,
             AssociationSetup(n) \/ EstablishmentRequest(n) \/ PruneAssociation(n)
      PROVE  Goal
  BY <1>3 DEF AssociationSetup, EstablishmentRequest, PruneAssociation
<1>4. CASE RejectRequest
  BY <1>4 DEF RejectRequest
<1>5. ASSUME NEW s \in stored, ModificationRequest(s) \/ DeletionRequest(s) PROVE Goal
  BY <1>5 DEF ModificationRequest, DeletionRequest
<1>6. ASSUME NEW k \in Kind, NEW r \in RuleId[k], NEW i \in InfoOf(k), CreateRule(k, r, i)
      PROVE  Goal
  <2>1. cur' = [cur EXCEPT !.stage = Stage(k, "create")]
    BY <1>6 DEF CreateRule
  <2>2. cur'.stage = Stage(k, "create") /\ cur'.op = cur.op /\ cur'.sess = cur.sess
    BY <1>0, <2>1 DEF Request
  <2>3. k = "far"
    BY <1>1, <2>2
  <2> QED  BY <1>6, <2>2, <2>3
<1>7. ASSUME NEW k \in Kind, NEW r \in RuleId[k], NEW i \in InfoOf(k), UpdateRule(k, r, i)
      PROVE  Goal
  <2>1. cur'.stage = Stage(k, "update")
    BY <1>0, <1>7 DEF UpdateRule, Request
  <2> QED  BY <1>1, <2>1
<1>8. ASSUME NEW k \in Kind, NEW r \in RuleId[k], RemoveRule(k, r) PROVE Goal
  <2>1. cur'.stage = Stage(k, "remove")
    BY <1>0, <1>8 DEF RemoveRule, Request
  <2> QED  BY <1>1, <2>1
<1>9. ASSUME NEW o \in {"create", "update"}, NEW i, NEW f, NEW q, NEW loc, NEW sdf,
             PutPdr(o, i, f, q, loc, sdf)
      PROVE  Goal
  <2>1. cur' = [cur EXCEPT !.stage = Stage("pdr", o)] \/ cur' = Idle
    BY <1>9 DEF PutPdr
  <2>2. cur'.stage = Stage("pdr", o) \/ cur' = Idle
    BY <1>0, <2>1 DEF Request
  <2> QED  BY <1>0, <1>2, <2>2
<1>10. ASSUME NEW p, RemovePdr(p) PROVE Goal
  <2>1. \/ cur' = [cur EXCEPT !.stage = Stage("pdr", "remove"), !.cache = CacheWith(p)]
        \/ cur' = Idle
    BY <1>10 DEF RemovePdr
  <2>2. cur'.stage = Stage("pdr", "remove") \/ cur' = Idle
    BY <1>0, <2>1 DEF Request
  <2> QED  BY <1>0, <1>2, <2>2
<1>11. ASSUME NEW p, DeletionPdr(p) \/ PrunePdr(p) PROVE Goal
  <2>1. /\ cur.op \in {"del", "prune"}
        /\ \/ cur' = Idle
           \/ \E c : cur' = [cur EXCEPT !.left = cur.left \ {p}, !.cache = c]
    BY <1>11 DEF DeletionPdr, PrunePdr
  <2>2. cur' = Idle \/ cur'.op = cur.op
    BY <1>0, <2>1 DEF Request
  <2> QED  BY <1>0, <2>1, <2>2
<1>12. ASSUME NEW x, DeletionRule(x) \/ PruneRule(x) PROVE Goal
  <2>1. /\ cur.op \in {"del", "prune"}
        /\ cur' = [cur EXCEPT !.done = cur.done \cup {x}]
    BY <1>12 DEF DeletionRule, PruneRule, ReleaseNext
  <2>2. cur'.op = cur.op
    BY <1>0, <2>1 DEF Request
  <2> QED  BY <2>1, <2>2
<1>13. CASE RequestFails \/ RequestDone \/ DeletionDone \/ PruneDone
  BY <1>0, <1>13 DEF RequestFails, RequestDone, DeletionDone, PruneDone
<1>14. ASSUME NEW s, PruneSession(s) PROVE Goal
  <2>1. cur.op = "prune" /\ cur'.op = cur.op
    BY <1>0, <1>14 DEF PruneSession, Request
  <2> QED  BY <2>1
<1> HIDE DEF Goal
<1> QED
  BY <1>3, <1>4, <1>5, <1>6, <1>7, <1>8, <1>9, <1>10, <1>11, <1>12, <1>13, <1>14 DEF Next

\* Only Create and Update IEs make a rule live.
LEMMA LiveStep ==
    ASSUME TypeOK, CurOK, Next
    PROVE  \/ Live' \subseteq Live
           \/ \E k \in Kind : \E r \in RuleId[k], i \in InfoOf(k) :
                CreateRule(k, r, i) \/ UpdateRule(k, r, i)
<1> DEFINE Goal == \/ Live' \subseteq Live
                   \/ \E k \in Kind : \E r \in RuleId[k], i \in InfoOf(k) :
                        CreateRule(k, r, i) \/ UpdateRule(k, r, i)
<1> SUFFICES Goal
  OBVIOUS
<1>0. cur \in Request /\ Idle.done = {}
  BY DEF TypeOK, Idle
<1>1. ASSUME rules' \subseteq rules, cur.done \subseteq cur'.done PROVE Goal
  BY <1>1 DEF Live
<1>2. ASSUME rules' \subseteq rules, cur.done = {} PROVE Goal
  BY <1>2 DEF Live
<1>3. ASSUME NEW n \in Node,
             AssociationSetup(n) \/ EstablishmentRequest(n) \/ PruneAssociation(n)
      PROVE  Goal
  BY <1>2, <1>3 DEF AssociationSetup, EstablishmentRequest, PruneAssociation, CurOK
<1>4. CASE RejectRequest
  BY <1>2, <1>4 DEF RejectRequest, CurOK
<1>5. ASSUME NEW s \in stored, ModificationRequest(s) \/ DeletionRequest(s) PROVE Goal
  BY <1>2, <1>5 DEF ModificationRequest, DeletionRequest, CurOK
<1>6. ASSUME NEW k \in Kind, NEW r \in RuleId[k], NEW i \in InfoOf(k),
             CreateRule(k, r, i) \/ UpdateRule(k, r, i)
      PROVE  Goal
  BY <1>6
<1>7. ASSUME NEW k \in Kind, NEW r \in RuleId[k], RemoveRule(k, r) PROVE Goal
  BY <1>2, <1>7 DEF RemoveRule, Reached, CurOK
<1>8. ASSUME NEW o \in {"create", "update"}, NEW i, NEW f, NEW q, NEW loc, NEW sdf,
             PutPdr(o, i, f, q, loc, sdf)
      PROVE  Goal
  BY <1>2, <1>8 DEF PutPdr, Reached, RulesAfterFailure, CurOK
<1>9. ASSUME NEW p, RemovePdr(p) PROVE Goal
  BY <1>2, <1>9 DEF RemovePdr, Reached, CurOK
<1>10. ASSUME NEW p, DeletionPdr(p) \/ PrunePdr(p) PROVE Goal
  <2>1. \/ cur.op = "del" /\ p \in cur.left /\ cur' = Idle
        \/ \E c : cur' = [cur EXCEPT !.left = cur.left \ {p}, !.cache = c]
    BY <1>10 DEF DeletionPdr, PrunePdr
  <2>2. rules' = rules
    BY <1>10 DEF DeletionPdr, PrunePdr
  <2>3. cur.done = {} \/ cur'.done = cur.done
    BY <1>0, <2>1 DEF Request, CurOK
  <2> QED  BY <1>1, <1>2, <2>2, <2>3
<1>11. ASSUME NEW x, DeletionRule(x) \/ PruneRule(x) PROVE Goal
  <2>1. rules' = rules /\ cur' = [cur EXCEPT !.done = cur.done \cup {x}]
    BY <1>11 DEF DeletionRule, PruneRule, ReleaseNext
  <2>2. cur'.done = cur.done \cup {x}
    BY <1>0, <2>1 DEF Request
  <2> QED  BY <1>1, <2>1, <2>2
<1>12. CASE RequestFails \/ RequestDone
  BY <1>2, <1>12 DEF RequestFails, RequestDone, RulesAfterFailure, CurOK
<1>13. CASE DeletionDone
  <2>1. rules' = rules \ RulesOf(cur.sess) /\ \A x \in cur.done : x.sess = cur.sess
    BY <1>13 DEF DeletionDone, CurOK
  <2> QED  BY <2>1 DEF Live, RulesOf
<1>14. CASE PruneDone
  <2>1. /\ rules' = {x \in rules : x.sess[1] # cur.sess[1]}
        /\ \A x \in cur.done : x.sess[1] = cur.sess[1]
    BY <1>14 DEF PruneDone, CurOK
  <2> QED  BY <2>1 DEF Live
<1>15. ASSUME NEW s, PruneSession(s) PROVE Goal
  <2>1. rules' = rules /\ cur'.done = cur.done
    BY <1>0, <1>15 DEF PruneSession, Request
  <2> QED  BY <1>1, <2>1
<1> HIDE DEF Goal
<1> QED
  BY <1>3, <1>4, <1>5, <1>6, <1>7, <1>8, <1>9, <1>10, <1>11, <1>12, <1>13, <1>14, <1>15 DEF Next

\* The creation of a rule with peers that create each rule once.
LEMMA CreateIs ==
    ASSUME Stress = {}, TypeOK, CurOK, NEW k \in Kind, NEW r, NEW i, CreateRule(k, r, i)
    PROVE  /\ cur.op \in {"est", "mod"} /\ cur.stage <= Stage(k, "create") /\ UNCHANGED pdrs
           /\ \E u \in free :
                /\ u[1] = k /\ free' = free \ {u}
                /\ \E new : /\ rules' = rules \cup {new} /\ SlotOf(new) = u
                           /\ new.sess = cur.sess /\ new.kind = k
<1>1. cur.op \in {"est", "mod"} /\ cur.stage <= Stage(k, "create") /\ RuleAt(k, cur.sess, r) = {}
  BY DEF CreateRule, MayCreate, Reached
<1>2. PICK u \in free :
        /\ u[1] = k /\ free' = free \ {u}
        /\ rules' = (rules \ RuleAt(k, cur.sess, r)) \cup
                    {[kind |-> k, sess |-> cur.sess, id |-> r, gid |-> u[2], info |-> i]}
  BY DEF CreateRule
<1> DEFINE new == [kind |-> k, sess |-> cur.sess, id |-> r, gid |-> u[2], info |-> i]
<1>3. SlotOf(new) = u /\ new.sess = cur.sess /\ new.kind = k
  BY <1>2, SlotMembers DEF TypeOK, SlotOf
<1>4. rules' = rules \cup {new}
  BY <1>1, <1>2
<1>5. UNCHANGED pdrs
  BY DEF CreateRule
<1> HIDE DEF new
<1> QED  BY <1>1, <1>2, <1>3, <1>4, <1>5

\* Every step keeps EarlyNamed.
LEMMA EarlyStep ==
    ASSUME Stress = {}, TypeOK, CurOK, Named, EarlyNamed, [Next]_vars
    PROVE  EarlyNamed'
<1>1. CASE UNCHANGED vars
  BY <1>1 DEF vars, EarlyNamed
<1>2. CASE Next
  <2> SUFFICES ASSUME cur'.op = "mod", cur'.stage <= 1, NEW p \in pdrs', p.sess = cur'.sess
               PROVE  \E x \in rules' : x.sess = p.sess /\ x.kind = "far" /\ x.gid = p.far
    BY DEF EarlyNamed
  <2>1. CASE cur.op = "idle" /\ UNCHANGED <<rules, pdrs>>
    BY <2>1 DEF Named, RulesNamed, Working
  <2>2. ASSUME NEW r, NEW i, CreateRule("far", r, i), cur'.op = cur.op, cur'.sess = cur.sess
        PROVE  \E x \in rules' : x.sess = p.sess /\ x.kind = "far" /\ x.gid = p.far
    <3>1. Stage("far", "create") = 1 /\ "far" \in Kind
      BY DEF Stage, Kind
    <3>2. cur.stage <= 1 /\ UNCHANGED pdrs /\ rules \subseteq rules'
      BY <2>2, <3>1, CreateIs
    <3> QED  BY <2>2, <3>2 DEF EarlyNamed
  <2> QED  BY <1>2, <2>1, <2>2, EarlyStepIs
<1> QED  BY <1>1, <1>2

\* A handler step gives a slot to no other rule, unless it creates a FAR and takes the
\* slot from the tracker.
LEMMA HoldersStep ==
    ASSUME Stress = {}, TypeOK, CurOK, Next, NEW g,
           cur.op \in {"est", "mod"} /\ cur.stage <= 1 => <<"far", g>> \notin free
    PROVE  Who(Live', g) \subseteq Who(Live, g)
<1>1. ASSUME \A y \in Live' : y.kind = "far" /\ y.gid = g =>
               \E z \in Live : z.kind = "far" /\ z.gid = g /\ z.sess = y.sess /\ z.id = y.id
      PROVE  Who(Live', g) \subseteq Who(Live, g)
  BY <1>1 DEF Who
<1>2. CASE Live' \subseteq Live
  BY <1>1, <1>2
<1>3. ASSUME NEW k \in Kind, NEW r \in RuleId[k], NEW i \in InfoOf(k), CreateRule(k, r, i)
      PROVE  Who(Live', g) \subseteq Who(Live, g)
  <2>1. /\ cur.op \in {"est", "mod"} /\ cur.stage <= Stage(k, "create")
        /\ \E u \in free : \E new : rules' = rules \cup {new} /\ SlotOf(new) = u /\ new.kind = k
    BY <1>3, CreateIs
  <2>0. PICK u \in free : \E new : rules' = rules \cup {new} /\ SlotOf(new) = u /\ new.kind = k
    BY <2>1
  <2>2. PICK new : rules' = rules \cup {new} /\ SlotOf(new) = u /\ new.kind = k
    BY <2>0
  <2>3. cur.done = {} /\ cur'.done = {}
    BY <1>3, <2>1 DEF CreateRule, TypeOK, Request, CurOK
  <2>4. Live' = Live \cup {new}
    BY <2>2, <2>3 DEF Live
  <2>5. ~(new.kind = "far" /\ new.gid = g)
    <3>1. new.kind = "far" => cur.stage <= 1
      BY <2>1, <2>2 DEF Stage
    <3> QED  BY <2>1, <2>2, <3>1 DEF SlotOf
  <2> QED  BY <1>1, <2>4, <2>5
<1>4. ASSUME NEW k \in Kind, NEW r \in RuleId[k], NEW i \in InfoOf(k), UpdateRule(k, r, i)
      PROVE  Who(Live', g) \subseteq Who(Live, g)
  <2> DEFINE new == [kind |-> k, sess |-> cur.sess, id |-> r,
                     gid |-> GlobalId(k, cur.sess, r), info |-> i]
  <2>1. /\ cur.op = "mod" /\ RuleAt(k, cur.sess, r) # {}
        /\ rules' = (rules \ RuleAt(k, cur.sess, r)) \cup {new}
    BY <1>4 DEF UpdateRule, Reached
  <2>2. cur.done = {} /\ cur'.done = {}
    BY <1>4, <2>1 DEF UpdateRule, TypeOK, Request, CurOK
  <2>3. PICK y \in RuleAt(k, cur.sess, r) : GlobalId(k, cur.sess, r) = y.gid
    BY <2>1 DEF GlobalId
  <2>4. y \in Live /\ y.kind = new.kind /\ y.gid = new.gid /\ y.sess = new.sess /\ y.id = new.id
    BY <2>2, <2>3 DEF RuleAt, Live
  <2>5. Live' \subseteq Live \cup {new}
    BY <2>1, <2>2 DEF Live
  <2> HIDE DEF new
  <2> QED  BY <1>1, <2>4, <2>5
<1> QED  BY <1>2, <1>3, <1>4, LiveStep

\* The rules that have a FAR slot are live ones.
LEMMA HoldersAre == \A g : Holders(g) = Who(Live, g)
BY DEF Holders, Who, Live

\* The row found under a key belongs to a PDR with that key, and gives a packet the
\* FAR and QER of that PDR.
Gives(p, k, r) ==
    KeyOf(p) = k /\ r.far = p.far /\ r.qer = p.qer /\ (p.sdf => r.sdf)

LEMMA FoundIs ==
    ASSUME Mapped, NEW k, NEW m, NEW r, Found(r, k, m)
    PROVE  \E p \in pdrs : Gives(p, k, r)
<1>1. PICK e \in EntriesAt(k) : \E d \in SdfChoice(e, m) :
                 r.far = d.far /\ r.qer = d.qer /\ r.sdf = d.sdf
  BY DEF Found
<1>2. PICK d \in SdfChoice(e, m) : r.far = d.far /\ r.qer = d.qer /\ r.sdf = d.sdf
  BY <1>1
<1>3. PICK p \in pdrs : RowIs(e, p)
  BY DEF Mapped, Mirrored, InMaps, EntriesAt
<1>4. KeyOf(p) = k
  BY <1>3 DEF RowIs, EntriesAt
<1>5. \/ e.mode # 0 /\ d.far = e.sfar /\ d.qer = e.sqer /\ d.sdf = TRUE
      \/ e.mode # 1 /\ d.far = e.far /\ d.qer = e.qer
  BY OneChoice
<1>6. d.far = p.far /\ d.qer = p.qer /\ (p.sdf => d.sdf)
  BY <1>3, <1>5 DEF RowIs
<1> QED  BY <1>2, <1>4, <1>6 DEF Gives

\* While a request may create FARs, the FAR slot that a row names is not free.
LEMMA FoundNotFree ==
    ASSUME Stress = {}, TypeOK, CurOK, NoSharedRule, Mapped, Named, EarlyNamed,
           cur.op \in {"est", "mod"}, cur.stage <= 1, NEW p \in pdrs
    PROVE  <<"far", p.far>> \notin free
<1>1. Live = rules /\ cur.stage < 10
  BY DEF Live, CurOK, TypeOK, Request
<1>2. \E x \in rules : x.sess = p.sess /\ x.kind = "far" /\ x.gid = p.far
  <2>1. CASE ~Working(cur, p.sess)
    BY <2>1 DEF Named, RulesNamed
  <2>2. CASE Working(cur, p.sess)
    <3>1. p.sess = cur.sess
      BY <2>2 DEF Working
    <3>2. cur.op = "mod"
      BY <1>1, <3>1 DEF Mapped, SeidsFresh
    <3> QED  BY <3>1, <3>2 DEF EarlyNamed
  <2> QED  BY <2>1, <2>2
<1> QED  BY <1>1, <1>2 DEF NoSharedRule, SlotOf

\* A step of the program on one CPU keeps Unrecycled when its packet ends up clean.
LEMMA OneCpuClean ==
    ASSUME DpTypeOK, Unrecycled, UNCHANGED vars, NEW c \in Cpu, NEW r,
           pkt' = [pkt EXCEPT ![c] = r], Clean(r)
    PROVE  Unrecycled'
<1>1. \A d \in Cpu : pkt'[d] = IF d = c THEN r ELSE pkt[d]
  BY DEF DpTypeOK
<1>2. \A d \in Cpu : Clean(pkt'[d])
  BY <1>1 DEF Unrecycled
<1>3. UNCHANGED <<rules, cur, free>>
  BY DEF vars
<1> QED  BY <1>2, <1>3 DEF Unrecycled, Clean, Who, Live, InFlight

\* A packet that was just looked up is clean.
LEMMA LookedClean ==
    ASSUME Stress = {}, TypeOK, CurOK, NoSharedRule, Mapped, Named, EarlyNamed, NEW k, NEW m
    PROVE  Clean(Looked(k, m))
<1> DEFINE r == Looked(k, m)
<1>1. Fresh(r, k) /\ (Passed(r, k, m) \/ Found(r, k, m))
  BY LookedFields
<1> HIDE DEF r
<1>2. CASE Passed(r, k, m)
  <2>1. r.pc = "done" /\ r.out = "pass"
    BY <1>2 DEF Passed
  <2> QED  BY <2>1 DEF Clean, InFlight, r
<1>3. CASE Found(r, k, m)
  <2>1. PICK p \in pdrs : Gives(p, k, r)
    BY <1>3, FoundIs
  <2>2. cur.op \in {"est", "mod"} /\ cur.stage <= 1 => <<"far", r.far>> \notin free
    BY <2>1, FoundNotFree DEF Gives
  <2>3. r.out = "none" /\ r.rule = Who(Live, r.far)
    BY <1>3, HoldersAre DEF Found
  <2> QED  BY <2>2, <2>3 DEF Clean, r
<1> QED  BY <1>1, <1>2, <1>3

\* Every step keeps Unrecycled.
LEMMA UnrecycledStep ==
    ASSUME Stress = {}, TypeOK, CurOK, NoSharedRule, Mapped, Named, EarlyNamed,
           DpTypeOK, Unrecycled, [DpNext]_dpVars
    PROVE  Unrecycled'
<1>0. ASSUME NEW c \in Cpu PROVE pkt[c] \in Packet /\ Clean(pkt[c])
  BY DEF DpTypeOK, Unrecycled
<1>1. CASE Handler
  <2>0. Next
    BY <1>1 DEF Handler
  <2> SUFFICES ASSUME NEW c \in Cpu
               PROVE  /\ InFlight(pkt'[c]) /\ ~pkt'[c].late =>
                           /\ Who(Live', pkt'[c].far) \subseteq pkt'[c].rule
                           /\ cur'.op \in {"est", "mod"} /\ cur'.stage <= 1
                                => <<"far", pkt'[c].far>> \notin free'
                      /\ pkt'[c].out \in {"tunnel", "n6"} =>
                           pkt'[c].pc = "done" /\ (~pkt'[c].late => pkt'[c].sentBy \subseteq pkt'[c].rule)
    BY DEF Unrecycled, Clean, InFlight, Who, Live
  <2>1. CASE pkt[c].pc \in {"idle", "done"}
    <3>1. pkt'[c] = NoPacket
      BY <1>1, <2>1 DEF Handler
    <3>2. NoPacket.pc = "idle" /\ NoPacket.out = "none"
      BY DEF NoPacket
    <3> QED  BY <3>1, <3>2 DEF InFlight
  <2>2. CASE pkt[c].pc \notin {"idle", "done"}
    <3>0. PICK r : r = pkt[c]
      OBVIOUS
    <3>1. r \in Packet /\ Clean(r) /\ InFlight(r)
      BY <1>0, <2>2, <3>0 DEF InFlight, Packet
    <3>2. pkt'[c] = [r EXCEPT !.touched = @ \/ Busy(cur', r.owner),
                              !.late = @ \/ (cur.op = "idle" /\ cur'.op # "idle")]
      BY <1>1, <2>2, <3>0 DEF Handler
    <3>3. /\ pkt'[c].pc = r.pc /\ pkt'[c].far = r.far /\ pkt'[c].rule = r.rule
          /\ pkt'[c].out = r.out
      BY <3>1, <3>2 DEF Packet
    <3>4. ~pkt'[c].late => ~r.late /\ ~(cur.op = "idle" /\ cur'.op # "idle")
      BY <3>1, <3>2 DEF Packet
    <3>5. r.out \notin {"tunnel", "n6"}
      BY <2>2, <3>0, <3>1 DEF Clean
    <3> SUFFICES ASSUME ~pkt'[c].late
                 PROVE  /\ Who(Live', r.far) \subseteq r.rule
                        /\ cur'.op \in {"est", "mod"} /\ cur'.stage <= 1
                             => <<"far", r.far>> \notin free'
      BY <3>3, <3>5
    <3>6. /\ Who(Live, r.far) \subseteq r.rule
          /\ cur.op \in {"est", "mod"} /\ cur.stage <= 1 => <<"far", r.far>> \notin free
      BY <3>1, <3>4 DEF Clean
    <3>7. Who(Live', r.far) \subseteq Who(Live, r.far)
      BY <2>0, <3>6, HoldersStep
    <3>8. ASSUME cur'.op \in {"est", "mod"}, cur'.stage <= 1 PROVE <<"far", r.far>> \notin free'
      <4>1. cur.op # "idle"
        BY <3>4, <3>8
      <4>2. PICK q \in RuleId["far"], i \in InfoOf("far") : CreateRule("far", q, i)
        BY <2>0, <3>8, <4>1, EarlyStepIs
      <4>3. Stage("far", "create") = 1 /\ "far" \in Kind
        BY DEF Stage, Kind
      <4>4. cur.op \in {"est", "mod"} /\ cur.stage <= 1 /\ free' \subseteq free
        BY <4>2, <4>3, CreateIs
      <4> QED  BY <3>6, <4>4
    <3> QED  BY <3>6, <3>7, <3>8
  <2> QED  BY <2>1, <2>2
<1>2. ASSUME NEW c \in Cpu, NEW m \in Match, NEW f \in Frame, Receive(c, f, m)
      PROVE  Unrecycled'
  <2>1. CASE PathOf(f) \in {"pass", "echo"}
    <3> DEFINE r == [NoPacket EXCEPT !.pc = "done", !.out = PathOf(f)]
    <3>1. r.pc = "done" /\ r.out = PathOf(f)
      BY DEF NoPacket
    <3>2. pkt' = [pkt EXCEPT ![c] = r] /\ UNCHANGED vars
      BY <1>2, <2>1 DEF Receive
    <3> HIDE DEF r
    <3>3. Clean(r)
      BY <2>1, <3>1 DEF Clean, InFlight
    <3> QED  BY <3>2, <3>3, OneCpuClean
  <2>2. CASE PathOf(f) \notin {"pass", "echo"}
    <3>1. pkt' = [pkt EXCEPT ![c] = Looked(<<PathOf(f), f.addr>>, m)] /\ UNCHANGED vars
      BY <1>2, <2>2 DEF Receive
    <3> QED  BY <3>1, LookedClean, OneCpuClean
  <2> QED  BY <2>1, <2>2
<1>3. ASSUME NEW c \in Cpu, NEW m \in Match, NEW a \in UeIp4, AnswerPing(c, a, m)
      PROVE  Unrecycled'
  <2>1. pkt' = [pkt EXCEPT ![c] = Looked(<<"dl4", a>>, m)] /\ UNCHANGED vars
    BY <1>3 DEF AnswerPing
  <2> QED  BY <2>1, LookedClean, OneCpuClean
<1>4. ASSUME NEW c \in Cpu, NEW v \in {"drop", "closed", "limited", "aborted"}, Ends(c, v),
             UNCHANGED vars
      PROVE  Unrecycled'
  <2> DEFINE r == [pkt[c] EXCEPT !.pc = "done", !.out = v]
  <2>1. r.pc = "done" /\ r.out = v
    BY <1>0 DEF Packet
  <2>2. pkt' = [pkt EXCEPT ![c] = r]
    BY <1>4 DEF Ends
  <2> HIDE DEF r
  <2>3. Clean(r)
    BY <2>1 DEF Clean, InFlight
  <2> QED  BY <1>4, <2>2, <2>3, OneCpuClean
<1>5. ASSUME NEW c \in Cpu, NEW pc \in {"qer", "send"}, InFlight(pkt[c]),
             pkt' = [pkt EXCEPT ![c].pc = pc], UNCHANGED vars
      PROVE  Unrecycled'
  <2> DEFINE r == [pkt[c] EXCEPT !.pc = pc]
  <2>1. /\ r.pc = pc /\ r.far = pkt[c].far /\ r.rule = pkt[c].rule /\ r.out = pkt[c].out
        /\ (r.late <=> pkt[c].late)
    BY <1>0 DEF Packet
  <2>2. pkt' = [pkt EXCEPT ![c] = r]
    BY <1>5
  <2>3. Clean(pkt[c])
    BY <1>0
  <2> HIDE DEF r
  <2>4. pkt[c].out \notin {"tunnel", "n6"}
    BY <1>5, <2>3 DEF Clean, InFlight
  <2>5. Clean(r)
    BY <1>5, <2>1, <2>3, <2>4 DEF Clean
  <2> QED  BY <1>5, <2>2, <2>5, OneCpuClean
<1>6. ASSUME NEW c \in Cpu, CheckFar(c) PROVE Unrecycled'
  <2>1. InFlight(pkt[c]) /\ UNCHANGED vars
    BY <1>6 DEF CheckFar, InFlight
  <2>2. pkt' = [pkt EXCEPT ![c].pc = "qer"] \/ Ends(c, "drop")
    BY <1>6 DEF CheckFar
  <2> QED  BY <1>4, <1>5, <2>1, <2>2
<1>7. ASSUME NEW c \in Cpu, CheckQer(c) PROVE Unrecycled'
  <2>1. InFlight(pkt[c]) /\ UNCHANGED vars
    BY <1>7 DEF CheckQer, InFlight
  <2>2. pkt' = [pkt EXCEPT ![c].pc = "send"] \/ Ends(c, "closed") \/ Ends(c, "limited")
    BY <1>7 DEF CheckQer
  <2> QED  BY <1>4, <1>5, <2>1, <2>2
<1>8. ASSUME NEW c \in Cpu, Send(c) PROVE Unrecycled'
  <2> DEFINE r == [pkt[c] EXCEPT !.pc = "done", !.out = SendVerdict(c),
                                 !.to = FarSlot(c), !.sentBy = Holders(pkt[c].far)]
  <2>1. pkt' = [pkt EXCEPT ![c] = r] /\ InFlight(pkt[c]) /\ UNCHANGED vars
    BY <1>8 DEF Send, InFlight
  <2>2. /\ r.pc = "done" /\ r.sentBy = Holders(pkt[c].far) /\ r.rule = pkt[c].rule
        /\ (r.late <=> pkt[c].late)
    BY <1>0 DEF Packet
  <2>3. Clean(pkt[c])
    BY <1>0
  <2> HIDE DEF r
  <2>4. Clean(r)
    BY <2>1, <2>2, <2>3, HoldersAre DEF Clean, InFlight
  <2> QED  BY <2>1, <2>4, OneCpuClean
<1>9. ASSUME NEW c \in Cpu, Abort(c) PROVE Unrecycled'
  BY <1>4, <1>9 DEF Abort
<1>10. CASE UNCHANGED dpVars
  BY <1>10 DEF dpVars, vars, Unrecycled, Clean, Who, Live, InFlight
<1> QED
  BY <1>1, <1>2, <1>3, <1>6, <1>7, <1>8, <1>9, <1>10 DEF DpNext

\* What the session handlers keep, and the datapath's own invariants.
LEMMA DatapathAlways ==
    ASSUME Stress = {}, TeidsApart
    PROVE  DpSpec /\ []Roomy =>
             [](/\ TypeOK /\ CurOK /\ Exclusive /\ Mapped /\ Named
                /\ EarlyNamed /\ DpTypeOK /\ Unrecycled)
<1>1. DpInit => EarlyNamed /\ Unrecycled
  <2> SUFFICES ASSUME DpInit PROVE EarlyNamed /\ Unrecycled
    OBVIOUS
  <2>1. EarlyNamed
    BY DEF DpInit, Init, Idle, EarlyNamed
  <2>2. \A c \in Cpu : pkt[c] = NoPacket
    BY DEF DpInit
  <2>3. Clean(NoPacket)
    <3>1. NoPacket.pc = "idle" /\ NoPacket.out = "none"
      BY DEF NoPacket
    <3> QED  BY <3>1 DEF Clean, InFlight
  <2> QED  BY <2>1, <2>2, <2>3 DEF Unrecycled
<1>2. TypeOK /\ CurOK /\ Exclusive /\ Mapped /\ Named /\ EarlyNamed /\ DpTypeOK /\ Unrecycled
        /\ [DpNext]_dpVars => (EarlyNamed /\ Unrecycled)'
  BY DpNextIsNext, EarlyStep, UnrecycledStep DEF Exclusive
<1>3. Spec /\ []Roomy => [](TypeOK /\ CurOK /\ Exclusive /\ Mapped /\ Named)
  BY NamedAlways
<1> QED  BY <1>1, <1>2, <1>3, DpSpecIsSpec, DatapathTypes, PTL DEF DpSpec

\* For any number of CPUs, packets, peers and sessions, with peers that keep to the
\* protocol and room in trackers and maps: a packet that no new request overtakes
\* is never sent through a rule that got the slot after its PDR was found.  The
\* handlers hand out ids before they release any (HandlePfcpSessionModificationRequest
\* walks the Create lists before the Remove lists; deletions hand out none), and
\* handle_gtp_packet and handle_n6_packet_ipv4 read the slot again when they send.
THEOREM SlotsAreNotRecycled ==
    ASSUME Stress = {}, TeidsApart
    PROVE  DpSpec /\ []Roomy => []NoRecycledRule
<1>1. Unrecycled => NoRecycledRule
  BY DEF Unrecycled, Clean, NoRecycledRule
<1>2. DpSpec /\ []Roomy =>
             [](/\ TypeOK /\ CurOK /\ Exclusive /\ Mapped /\ Named
                /\ EarlyNamed /\ DpTypeOK /\ Unrecycled)
  BY DatapathAlways
<1> QED  BY <1>1, <1>2, PTL

-----------------------------------------------------------------------------
(* Sessions nobody works on *)

\* Busy and Working say the same.
LEMMA BusyIsWorking == \A c, s : Busy(c, s) <=> Working(c, s)
BY DEF Busy, Working

\* A step that works on a session neither before nor after leaves its PDRs and
\* rules alone.
LEMMA OthersStay ==
    ASSUME TypeOK, CurOK, Next, NEW s, ~Working(cur, s), ~Working(cur', s)
    PROVE  /\ \A p : p.sess = s => (p \in pdrs <=> p \in pdrs')
           /\ \A x : x.sess = s => (x \in rules <=> x \in rules')
<1> DEFINE Goal == /\ \A p : p.sess = s => (p \in pdrs <=> p \in pdrs')
                   /\ \A x : x.sess = s => (x \in rules <=> x \in rules')
<1> SUFFICES Goal
  OBVIOUS
<1>0. cur.op \in {"est", "mod", "del"} => s # cur.sess
  BY DEF Working
<1>1. ASSUME UNCHANGED <<pdrs, rules>> PROVE Goal
  BY <1>1
<1>2. ASSUME NEW n \in Node,
             AssociationSetup(n) \/ EstablishmentRequest(n) \/ PruneAssociation(n)
      PROVE  Goal
  BY <1>1, <1>2 DEF AssociationSetup, EstablishmentRequest, PruneAssociation
<1>3. CASE RejectRequest
  BY <1>1, <1>3 DEF RejectRequest
<1>4. ASSUME NEW t \in stored, ModificationRequest(t) \/ DeletionRequest(t) PROVE Goal
  BY <1>1, <1>4 DEF ModificationRequest, DeletionRequest
<1>5. ASSUME NEW k \in Kind, NEW r, NEW i, CreateRule(k, r, i) PROVE Goal
  <2>1. s # cur.sess /\ UNCHANGED pdrs
    BY <1>0, <1>5 DEF CreateRule, MayCreate, Reached
  <2>2. PICK u \in free : rules' = (rules \ RuleAt(k, cur.sess, r)) \cup
                 {[kind |-> k, sess |-> cur.sess, id |-> r, gid |-> u[2], info |-> i]}
    BY <1>5 DEF CreateRule
  <2> QED  BY <2>1, <2>2 DEF RuleAt
<1>6. ASSUME NEW k \in Kind, NEW r, NEW i, UpdateRule(k, r, i) PROVE Goal
  <2> DEFINE g == GlobalId(k, cur.sess, r)
  <2>1. s # cur.sess /\ UNCHANGED pdrs
    BY <1>0, <1>6 DEF UpdateRule, Reached
  <2>2. rules' = (rules \ RuleAt(k, cur.sess, r)) \cup
                 {[kind |-> k, sess |-> cur.sess, id |-> r, gid |-> g, info |-> i]}
    BY <1>6 DEF UpdateRule
  <2> HIDE DEF g
  <2> QED  BY <2>1, <2>2 DEF RuleAt
<1>7. ASSUME NEW k \in Kind, NEW r, RemoveRule(k, r) PROVE Goal
  <2>1. s # cur.sess /\ UNCHANGED pdrs /\ rules' = rules \ RuleAt(k, cur.sess, r)
    BY <1>0, <1>7 DEF RemoveRule, Reached
  <2> QED  BY <2>1 DEF RuleAt
<1>8. ASSUME NEW o \in {"create", "update"}, NEW i, NEW f, NEW q, NEW loc, NEW sdf,
             PutPdr(o, i, f, q, loc, sdf)
      PROVE  Goal
  <2> DEFINE d == ExtractedPdr(o, cur.sess, i, f, q, loc, sdf)
  <2>1. s # cur.sess
    BY <1>0, <1>8 DEF PutPdr, Reached
  <2>2. d.sess = cur.sess
    BY DEF ExtractedPdr
  <2>3. /\ pdrs' = (pdrs \ PdrAt(cur.sess, i)) \cup {d} \/ pdrs' = pdrs \ PdrsOf(cur.sess)
        /\ rules' = rules \/ rules' = rules \ RulesOf(cur.sess)
    BY <1>8 DEF PutPdr, RulesAfterFailure
  <2> HIDE DEF d
  <2> QED  BY <2>1, <2>2, <2>3 DEF PdrAt, PdrsOf, RulesOf
<1>9. ASSUME NEW p \in pdrs, RemovePdr(p) PROVE Goal
  <2>1. s # cur.sess /\ p.sess = cur.sess /\ pdrs' = pdrs \ {p} /\ UNCHANGED rules
    BY <1>0, <1>9 DEF RemovePdr, Reached, PdrsOf
  <2> QED  BY <2>1
<1>10. ASSUME NEW p, DeletionPdr(p) \/ PrunePdr(p) PROVE Goal
  BY <1>1, <1>10 DEF DeletionPdr, PrunePdr
<1>11. ASSUME NEW x, DeletionRule(x) \/ PruneRule(x) PROVE Goal
  BY <1>1, <1>11 DEF DeletionRule, PruneRule
<1>12. CASE RequestFails
  <2>1. /\ s # cur.sess
        /\ pdrs' = pdrs \/ pdrs' = pdrs \ PdrsOf(cur.sess)
        /\ rules' = rules \/ rules' = rules \ RulesOf(cur.sess)
    BY <1>0, <1>12 DEF RequestFails, RulesAfterFailure
  <2> QED  BY <2>1 DEF PdrsOf, RulesOf
<1>13. CASE RequestDone
  BY <1>1, <1>13 DEF RequestDone
<1>14. CASE DeletionDone
  BY <1>0, <1>14 DEF DeletionDone, PdrsOf, RulesOf
<1>15. ASSUME NEW t, PruneSession(t) PROVE Goal
  BY <1>1, <1>15 DEF PruneSession
<1>16. CASE PruneDone
  <2>1. s[1] # cur.sess[1]
    BY <1>16 DEF PruneDone, Working
  <2> QED  BY <1>16, <2>1 DEF PruneDone
<1> HIDE DEF Goal
<1> QED
  BY <1>2, <1>3, <1>4, <1>5, <1>6, <1>7, <1>8, <1>9, <1>10, <1>11, <1>12, <1>13, <1>14, <1>15,
     <1>16 DEF Next

\* The rules of a session nobody works on are live, so their slots have their
\* contents.
LEMMA IdleSession ==
    ASSUME CurOK, Exclusive, NEW s, ~Working(cur, s), NEW x \in rules, x.sess = s,
           x.kind # "urr", cur \in Request
    PROVE  x \in Live /\ slot[SlotOf(x)] = x.info
<1>1. x \notin cur.done
  <2>1. CASE cur.op \in {"idle", "est", "mod"}
    BY <2>1 DEF CurOK
  <2>2. CASE cur.op = "del"
    BY <2>2 DEF CurOK, Working
  <2>3. CASE cur.op = "prune"
    BY <2>3 DEF CurOK, Working
  <2> QED  BY <2>1, <2>2, <2>3 DEF Request
<1> QED  BY <1>1 DEF Live, Exclusive, SlotsMirrorSessions

\* What the tables of such a session hold for one of its PDRs is what the slots hold
\* that the PDR names.
LEMMA TablesAre ==
    ASSUME TypeOK, CurOK, Exclusive, Named, NEW p \in pdrs, ~Working(cur, p.sess)
    PROVE  /\ RowOf("far", p.sess, p.far) # {}
           /\ {x.info : x \in RowOf("far", p.sess, p.far)} = {slot[<<"far", p.far>>]}
           /\ RowOf("qer", p.sess, p.qer) # {} =>
                {x.info : x \in RowOf("qer", p.sess, p.qer)} = {slot[<<"qer", p.qer>>]}
<1>0. cur \in Request
  BY DEF TypeOK
<1>1. RowOf("far", p.sess, p.far) # {}
  BY DEF Named, RulesNamed, RowOf
<1>2. \A k \in {"far", "qer"} : \A g : \A x \in RowOf(k, p.sess, g) : slot[<<k, g>>] = x.info
  BY <1>0, IdleSession DEF RowOf, SlotOf
<1> QED  BY <1>1, <1>2

\* What may become of a packet of such a session, PDR p: what its tables order, unless
\* the PDR has no QER and the one in slot 0 stops the packet.
LEMMA AllowedHas ==
    ASSUME TypeOK, CurOK, Exclusive, Named, NEW p \in pdrs, ~Working(cur, p.sess),
           NEW f, f = slot[<<"far", p.far>>], NEW q, q = slot[<<"qer", p.qer>>], NEW sdf
    PROVE  /\ p.sdf /\ ~sdf => Allowed(p, sdf, "pass", Zero)
           /\ ~(p.sdf /\ ~sdf) /\ ~Usable(p, f) => Allowed(p, sdf, "drop", Zero)
           /\ ~(p.sdf /\ ~sdf) /\ Usable(p, f) =>
                /\ q \in Closed => Allowed(p, sdf, "closed", Zero)
                /\ q \notin Closed => Allowed(p, sdf, "limited", Zero)
                /\ (RowOf("qer", p.sess, p.qer) # {} => q \notin Closed) =>
                     /\ Allowed(p, sdf, "aborted", Zero)
                     /\ Allowed(p, sdf, IF f \in Gtp THEN "tunnel" ELSE "n6", f)
<1> DEFINE fars == {x.info : x \in RowOf("far", p.sess, p.far)}
           qers == {x.info : x \in RowOf("qer", p.sess, p.qer)}
           ul == Uplink(KeyOf(p))
           usable == {i \in fars : i \in Forw /\ (ul \/ i \in Gtp)}
           sent == {<<IF i \in Gtp THEN "tunnel" ELSE "n6", i>> : i \in usable}
           limited == {<<"limited", Zero>> : i \in qers}
<1>1. Ordered(p, sdf) =
        IF p.sdf /\ ~sdf THEN {<<"pass", Zero>>}
        ELSE IF usable = {} THEN {<<"drop", Zero>>}
        ELSE IF qers \cap Closed # {} THEN {<<"closed", Zero>>}
        ELSE {<<"aborted", Zero>>} \cup limited \cup sent
  BY DEF Ordered
<1>2. fars = {f}
  BY TablesAre
<1>3. qers = IF RowOf("qer", p.sess, p.qer) # {} THEN {q} ELSE {}
  BY TablesAre
<1>4. usable = IF Usable(p, f) THEN {f} ELSE {}
  BY <1>2 DEF Usable
<1>5. RowOf("qer", p.sess, p.qer) = {} =>
        StoppedByStranger(p, "closed") /\ StoppedByStranger(p, "limited")
  <2>1. p.qer # 0 => RowOf("qer", p.sess, p.qer) # {}
    BY DEF Named, RulesNamed, RowOf
  <2> QED  BY <2>1 DEF StoppedByStranger
<1> HIDE DEF fars, qers, usable
<1>6. Usable(p, f) => <<IF f \in Gtp THEN "tunnel" ELSE "n6", f>> \in sent
  BY <1>4
<1>7. RowOf("qer", p.sess, p.qer) # {} => <<"limited", Zero>> \in limited
  BY <1>3
<1> HIDE DEF sent, limited
<1>8. CASE p.sdf /\ ~sdf
  BY <1>1, <1>8 DEF Allowed
<1>9. CASE ~(p.sdf /\ ~sdf) /\ ~Usable(p, f)
  BY <1>1, <1>4, <1>9 DEF Allowed
<1>10. CASE ~(p.sdf /\ ~sdf) /\ Usable(p, f)
  <2>1. Ordered(p, sdf) = IF qers \cap Closed # {} THEN {<<"closed", Zero>>}
                          ELSE {<<"aborted", Zero>>} \cup limited \cup sent
    BY <1>1, <1>4, <1>10
  <2>2. CASE RowOf("qer", p.sess, p.qer) # {} /\ q \in Closed
    <3>1. Ordered(p, sdf) = {<<"closed", Zero>>}
      BY <1>3, <2>1, <2>2
    <3> QED  BY <1>10, <2>2, <3>1 DEF Allowed
  <2>3. CASE RowOf("qer", p.sess, p.qer) # {} => q \notin Closed
    <3>1. Ordered(p, sdf) = {<<"aborted", Zero>>} \cup limited \cup sent
      BY <1>3, <2>1, <2>3
    <3> QED  BY <1>5, <1>6, <1>7, <1>10, <2>3, <3>1 DEF Allowed
  <2> QED  BY <2>2, <2>3
<1> QED  BY <1>8, <1>9, <1>10

\* A step of the program on one CPU keeps Undisturbed when its packet is served.
LEMMA OneCpuServed ==
    ASSUME DpTypeOK, Undisturbed, UNCHANGED vars, NEW c \in Cpu, NEW r,
           pkt' = [pkt EXCEPT ![c] = r], Served(r)
    PROVE  Undisturbed'
<1>1. \A d \in Cpu : pkt'[d] = IF d = c THEN r ELSE pkt[d]
  BY DEF DpTypeOK
<1>2. \A d \in Cpu : Served(pkt'[d])
  BY <1>1 DEF Undisturbed
<1>3. UNCHANGED <<rules, pdrs, slot, cur, free>>
  BY DEF vars
<1>4. \A k, s, g : RowOf(k, s, g)' = RowOf(k, s, g)
  BY <1>3 DEF RowOf
<1>5. \A p, sdf, out, to : Allowed(p, sdf, out, to)' <=> Allowed(p, sdf, out, to)
  BY <1>4 DEF Allowed, Ordered, StoppedByStranger
<1> QED  BY <1>2, <1>3, <1>4, <1>5 DEF Undisturbed, Served, Fits, Of, Usable, InFlight, Working

\* A packet that was just looked up is served: the row it found is the one of its
\* PDR, or it was passed on because its PDR has an SDF filter it does not match.
LEMMA LookedServed ==
    ASSUME TypeOK, CurOK, Exclusive, Mapped, Named, NEW k, NEW m
    PROVE  Served(Looked(k, m))
<1>0. PICK r : r = Looked(k, m)
  OBVIOUS
<1>1. Fresh(r, k) /\ (Passed(r, k, m) \/ Found(r, k, m))
  BY <1>0, LookedFields
<1>2. ~r.touched => ~Working(cur, r.owner)
  BY <1>1, BusyIsWorking DEF Fresh
<1>3. ASSUME NEW p \in pdrs, Of(r, p)
      PROVE  KeyOf(p) = k /\ ~Working(cur, p.sess)
  BY <1>1, <1>2, <1>3 DEF Of, Fresh
<1>4. CASE Passed(r, k, m)
  <2>1. ASSUME NEW p \in pdrs, Of(r, p) PROVE Allowed(p, r.sdf, r.out, r.to)
    <3>1. p \in InMaps
      BY <1>3, <2>1 DEF InMaps, Gone, Working
    <3>2. PICK e \in pdrMap : e.key = KeyOf(p)
      BY <3>1 DEF Mapped, Mirrored
    <3>3. RowIs(e, p)
      <4>1. PICK q \in pdrs : RowIs(e, q)
        BY DEF Mapped, Mirrored, InMaps
      <4>2. q = p
        BY <3>2, <4>1 DEF RowIs, Mapped, PdrsDiffer
      <4> QED  BY <4>1, <4>2
    <3>4. SdfChoice(e, m) = {}
      BY <1>3, <1>4, <2>1, <3>2 DEF Passed, EntriesAt
    <3>5. e.mode # 0 /\ m # "yes"
      <4>1. e.mode = 0 => [far |-> e.far, qer |-> e.qer, sdf |-> FALSE] \in SdfChoice(e, m)
        BY DEF SdfChoice
      <4>2. e.mode # 0 /\ m = "yes" =>
              [far |-> e.sfar, qer |-> e.sqer, sdf |-> TRUE] \in SdfChoice(e, m)
        BY DEF SdfChoice
      <4> QED  BY <3>4, <4>1, <4>2, Zenon
    <3>6. p.sdf /\ ~r.sdf
      BY <1>4, <3>3, <3>5 DEF RowIs, Passed
    <3>7. Allowed(p, r.sdf, "pass", Zero)
      BY <1>3, <2>1, <3>6, AllowedHas
    <3>8. r.out = "pass" /\ r.to = Zero
      BY <1>1, <1>4 DEF Fresh, Passed
    <3> QED  BY <3>7, <3>8
  <2>2. r.pc = "done"
    BY <1>4 DEF Passed
  <2> QED  BY <1>0, <2>1, <2>2 DEF Served, InFlight
<1>5. CASE Found(r, k, m)
  <2>1. PICK q \in pdrs : Gives(q, k, r)
    BY <1>5, FoundIs
  <2>2. r.pc = "far" /\ r.to = Zero
    BY <1>1, <1>5 DEF Fresh, Found
  <2>3. ASSUME NEW p \in pdrs, Of(r, p) PROVE Fits(r, p)
    <3>1. p = q
      BY <1>3, <2>1, <2>3 DEF Gives, Mapped, PdrsDiffer
    <3> QED  BY <2>1, <2>2, <3>1 DEF Gives, Fits
  <2> QED  BY <1>0, <1>2, <2>2, <2>3 DEF Served
<1> QED  BY <1>1, <1>4, <1>5

\* What a packet in flight has found out still stands after a step of a handler that
\* does not work on its session.
LEMMA StillFits ==
    ASSUME TypeOK, CurOK, Exclusive, Named, TypeOK', CurOK', Exclusive', Named', Next,
           NEW r, NEW p \in pdrs', ~Working(cur, p.sess), ~Working(cur', p.sess),
           p \in pdrs => Fits(r, p)
    PROVE  /\ r.far = p.far /\ r.qer = p.qer /\ (p.sdf => r.sdf)
           /\ r.pc # "far" => Usable(p, slot'[<<"far", p.far>>])
           /\ r.pc = "send" /\ {x \in rules' : x.kind = "qer" /\ x.sess = p.sess /\ x.gid = p.qer} # {}
                => slot'[<<"qer", p.qer>>] \notin Closed
<1> DEFINE R(S, k, g) == {x \in S : x.kind = k /\ x.sess = p.sess /\ x.gid = g}
<1>1. \A x : x.sess = p.sess => (x \in rules <=> x \in rules')
  BY OthersStay
<1>2. p \in pdrs
  BY OthersStay
<1>3. \A k, g : R(rules, k, g) = R(rules', k, g)
  BY <1>1
<1>4. cur \in Request /\ cur' \in Request
  BY DEF TypeOK
<1>5. \A k \in {"far", "qer"} : \A g : \A x \in R(rules, k, g) : slot[<<k, g>>] = x.info
  BY <1>4, IdleSession DEF SlotOf
<1>6. \A k \in {"far", "qer"} : \A g : \A x \in R(rules', k, g) : slot'[<<k, g>>] = x.info
  <2> SUFFICES ASSUME NEW k \in {"far", "qer"}, NEW g, NEW x \in R(rules', k, g)
               PROVE  slot'[<<k, g>>] = x.info
    OBVIOUS
  <2>1. x \notin cur'.done
    <3>1. CASE cur'.op \in {"idle", "est", "mod"}
      BY <3>1 DEF CurOK
    <3>2. CASE cur'.op = "del"
      BY <3>2 DEF CurOK, Working
    <3>3. CASE cur'.op = "prune"
      BY <3>3 DEF CurOK, Working
    <3> QED  BY <1>4, <3>1, <3>2, <3>3 DEF Request
  <2>2. x \in Live'
    BY <2>1 DEF Live
  <2>3. \A y \in Live' : y.kind # "urr" => slot'[<<y.kind, y.gid>>] = y.info
    BY DEF Exclusive, SlotsMirrorSessions, SlotOf
  <2> QED  BY <2>2, <2>3
<1>7. R(rules, "far", p.far) # {}
  BY <1>2 DEF Named, RulesNamed
<1>8. RowOf("qer", p.sess, p.qer) = R(rules, "qer", p.qer)
  BY DEF RowOf
<1>9. slot'[<<"far", p.far>>] = slot[<<"far", p.far>>]
  BY <1>3, <1>5, <1>6, <1>7
<1>10. R(rules', "qer", p.qer) # {} => slot'[<<"qer", p.qer>>] = slot[<<"qer", p.qer>>]
  BY <1>3, <1>5, <1>6
<1> HIDE DEF R
<1>11. /\ r.far = p.far /\ r.qer = p.qer /\ (p.sdf => r.sdf)
       /\ r.pc # "far" => Usable(p, slot'[<<"far", p.far>>])
       /\ r.pc = "send" /\ R(rules', "qer", p.qer) # {} => slot'[<<"qer", p.qer>>] \notin Closed
  BY <1>2, <1>3, <1>8, <1>9, <1>10 DEF Fits
<1> QED  BY <1>11 DEF R

\* Every step keeps Undisturbed.
LEMMA UndisturbedStep ==
    ASSUME TypeOK, CurOK, Exclusive, Mapped, Named, TypeOK', CurOK', Exclusive', Named',
           DpTypeOK, Undisturbed, [DpNext]_dpVars
    PROVE  Undisturbed'
<1>0. ASSUME NEW c \in Cpu PROVE pkt[c] \in Packet /\ Served(pkt[c])
  BY DEF DpTypeOK, Undisturbed
<1>1. CASE Handler
  <2>0. Next
    BY <1>1 DEF Handler
  <2>1. ASSUME NEW c \in Cpu, pkt[c].pc \in {"idle", "done"}
        PROVE  pkt'[c].pc = "idle"
    <3>1. pkt'[c] = NoPacket
      BY <1>1, <2>1 DEF Handler
    <3> QED  BY <3>1 DEF NoPacket
  <2>2. ASSUME NEW c \in Cpu, pkt[c].pc \notin {"idle", "done"}, NEW r, r = pkt[c], NEW n, n = pkt'[c]
        PROVE  /\ n.pc # "done" /\ n.to = Zero
               /\ ~n.touched => ~Working(cur', n.owner)
               /\ \A p \in pdrs' : Of(n, p) =>
                    /\ n.far = p.far /\ n.qer = p.qer /\ (p.sdf => n.sdf)
                    /\ n.pc # "far" => Usable(p, slot'[<<"far", p.far>>])
                    /\ /\ n.pc = "send"
                       /\ {x \in rules' : x.kind = "qer" /\ x.sess = p.sess /\ x.gid = p.qer} # {}
                       => slot'[<<"qer", p.qer>>] \notin Closed
    <3>1. r \in Packet /\ Served(r) /\ InFlight(r)
      BY <1>0, <2>2 DEF InFlight, Packet
    <3>2. n = [r EXCEPT !.touched = @ \/ Busy(cur', r.owner),
                        !.late = @ \/ (cur.op = "idle" /\ cur'.op # "idle")]
      BY <1>1, <2>2 DEF Handler
    <3>3. /\ n.pc = r.pc /\ n.far = r.far /\ n.qer = r.qer /\ n.sdf = r.sdf
          /\ n.to = r.to /\ n.owner = r.owner /\ n.key = r.key
      BY <3>1, <3>2 DEF Packet
    <3>4. ~n.touched => ~r.touched /\ ~Busy(cur', r.owner)
      BY <3>1, <3>2 DEF Packet
    <3>5. ~n.touched => ~Working(cur', n.owner) /\ ~Working(cur, n.owner)
      BY <3>1, <3>3, <3>4, BusyIsWorking DEF Served
    <3>6. ASSUME NEW p \in pdrs', Of(n, p)
          PROVE  /\ r.far = p.far /\ r.qer = p.qer /\ (p.sdf => r.sdf)
                 /\ r.pc # "far" => Usable(p, slot'[<<"far", p.far>>])
                 /\ /\ r.pc = "send"
                    /\ {x \in rules' : x.kind = "qer" /\ x.sess = p.sess /\ x.gid = p.qer} # {}
                    => slot'[<<"qer", p.qer>>] \notin Closed
      <4>1. ~Working(cur, p.sess) /\ ~Working(cur', p.sess) /\ Of(r, p)
        BY <3>3, <3>4, <3>5, <3>6 DEF Of
      <4>2. p \in pdrs => Fits(r, p)
        BY <3>1, <4>1 DEF Served
      <4> QED  BY <2>0, <4>1, <4>2, StillFits
    <3>7. n.pc # "done" /\ n.to = Zero
      BY <3>1, <3>3 DEF Served, InFlight
    <3> QED  BY <3>3, <3>5, <3>6, <3>7
  <2> QED  BY <2>1, <2>2 DEF Undisturbed, Served, InFlight, Fits, Of, Usable, RowOf, Working
<1>2. ASSUME NEW c \in Cpu, NEW m \in Match, NEW f \in Frame, Receive(c, f, m)
      PROVE  Undisturbed'
  <2>1. CASE PathOf(f) \in {"pass", "echo"}
    <3>0. PICK r : r = [NoPacket EXCEPT !.pc = "done", !.out = PathOf(f)]
      OBVIOUS
    <3>1. r.pc = "done" /\ r.key = NoLoc
      BY <3>0 DEF NoPacket
    <3>2. pkt' = [pkt EXCEPT ![c] = r] /\ UNCHANGED vars
      BY <1>2, <2>1, <3>0 DEF Receive
    <3>3. \A p : KeyOf(p) # NoLoc
      BY DEF KeyOf, NoLoc
    <3>4. Served(r)
      BY <3>1, <3>3 DEF Served, InFlight, Of
    <3> QED  BY <3>2, <3>4, OneCpuServed
  <2>2. CASE PathOf(f) \notin {"pass", "echo"}
    <3>1. pkt' = [pkt EXCEPT ![c] = Looked(<<PathOf(f), f.addr>>, m)] /\ UNCHANGED vars
      BY <1>2, <2>2 DEF Receive
    <3> QED  BY <3>1, LookedServed, OneCpuServed
  <2> QED  BY <2>1, <2>2
<1>3. ASSUME NEW c \in Cpu, NEW m \in Match, NEW a \in UeIp4, AnswerPing(c, a, m)
      PROVE  Undisturbed'
  <2>1. pkt' = [pkt EXCEPT ![c] = Looked(<<"dl4", a>>, m)] /\ UNCHANGED vars
    BY <1>3 DEF AnswerPing
  <2> QED  BY <2>1, LookedServed, OneCpuServed
<1>4. ASSUME NEW c \in Cpu, InFlight(pkt[c]), NEW p \in pdrs, Of(pkt[c], p)
      PROVE  /\ ~Working(cur, p.sess) /\ Fits(pkt[c], p) /\ ~(p.sdf /\ ~pkt[c].sdf)
             /\ FarSlot(c) = slot[<<"far", p.far>>] /\ QerSlot(c) = slot[<<"qer", p.qer>>]
  BY <1>0, <1>4 DEF Served, Of, Fits, FarSlot, QerSlot
<1>5. ASSUME NEW c \in Cpu, InFlight(pkt[c]), NEW v, Ends(c, v), UNCHANGED vars,
             \A p \in pdrs : Of(pkt[c], p) => Allowed(p, pkt[c].sdf, v, Zero)
      PROVE  Undisturbed'
  <2>0. PICK r : r = [pkt[c] EXCEPT !.pc = "done", !.out = v]
    OBVIOUS
  <2>1. /\ r.pc = "done" /\ r.out = v /\ r.to = pkt[c].to /\ r.sdf = pkt[c].sdf
        /\ r.owner = pkt[c].owner /\ r.key = pkt[c].key /\ r.touched = pkt[c].touched
    BY <1>0, <2>0 DEF Packet
  <2>2. r.to = Zero
    BY <1>0, <1>5, <2>1 DEF Served
  <2>3. pkt' = [pkt EXCEPT ![c] = r]
    BY <1>5, <2>0 DEF Ends
  <2>4. \A p \in pdrs : Of(r, p) => Allowed(p, r.sdf, r.out, r.to)
    BY <1>5, <2>1, <2>2 DEF Of
  <2>5. Served(r)
    BY <2>1, <2>4 DEF Served, InFlight
  <2> QED  BY <1>5, <2>3, <2>5, OneCpuServed
<1>6. ASSUME NEW c \in Cpu, InFlight(pkt[c]), NEW pc \in {"qer", "send"},
             pkt' = [pkt EXCEPT ![c].pc = pc], UNCHANGED vars,
             \A p \in pdrs : Of(pkt[c], p) =>
               /\ Usable(p, slot[<<"far", p.far>>])
               /\ pc = "send" /\ RowOf("qer", p.sess, p.qer) # {} => slot[<<"qer", p.qer>>] \notin Closed
      PROVE  Undisturbed'
  <2>0. PICK r : r = [pkt[c] EXCEPT !.pc = pc]
    OBVIOUS
  <2>1. /\ r.pc = pc /\ r.far = pkt[c].far /\ r.qer = pkt[c].qer /\ r.to = pkt[c].to
        /\ r.sdf = pkt[c].sdf
        /\ r.owner = pkt[c].owner /\ r.key = pkt[c].key /\ r.touched = pkt[c].touched
    BY <1>0, <2>0 DEF Packet
  <2>2. pkt' = [pkt EXCEPT ![c] = r]
    BY <1>6, <2>0
  <2>3. r.to = Zero /\ (~r.touched => ~Working(cur, r.owner))
    BY <1>0, <1>6, <2>1 DEF Served
  <2>4. ASSUME NEW p \in pdrs, Of(r, p) PROVE Fits(r, p)
    <3>1. Of(pkt[c], p)
      BY <2>1, <2>4 DEF Of
    <3>2. Fits(pkt[c], p)
      BY <1>4, <1>6, <3>1
    <3> QED  BY <1>6, <2>1, <3>1, <3>2 DEF Fits
  <2>5. Served(r)
    BY <2>1, <2>3, <2>4 DEF Served
  <2> QED  BY <1>6, <2>2, <2>5, OneCpuServed
<1>7. ASSUME NEW c \in Cpu, CheckFar(c) PROVE Undisturbed'
  <2>1. InFlight(pkt[c]) /\ UNCHANGED vars /\ pkt[c].pc = "far"
    BY <1>7 DEF CheckFar, InFlight
  <2>2. \A p : Of(pkt[c], p) => pkt[c].key = KeyOf(p)
    BY DEF Of
  <2>3. CASE FarSlot(c) \in Forw /\ (Uplink(pkt[c].key) \/ FarSlot(c) \in Gtp)
    <3>1. pkt' = [pkt EXCEPT ![c].pc = "qer"]
      BY <1>7, <2>3 DEF CheckFar
    <3>2. \A p \in pdrs : Of(pkt[c], p) => Usable(p, slot[<<"far", p.far>>])
      BY <1>4, <2>1, <2>2, <2>3 DEF Usable
    <3> QED  BY <1>6, <2>1, <3>1, <3>2
  <2>4. CASE ~(FarSlot(c) \in Forw /\ (Uplink(pkt[c].key) \/ FarSlot(c) \in Gtp))
    <3>1. Ends(c, "drop")
      BY <1>7, <2>4 DEF CheckFar
    <3>2. ASSUME NEW p \in pdrs, Of(pkt[c], p) PROVE Allowed(p, pkt[c].sdf, "drop", Zero)
      <4>1. ~Working(cur, p.sess) /\ ~(p.sdf /\ ~pkt[c].sdf) /\ FarSlot(c) = slot[<<"far", p.far>>]
        BY <1>4, <2>1, <3>2
      <4>2. ~Usable(p, slot[<<"far", p.far>>])
        BY <2>2, <2>4, <3>2, <4>1 DEF Usable
      <4> QED  BY <4>1, <4>2, AllowedHas
    <3> QED  BY <1>5, <2>1, <3>1, <3>2
  <2> QED  BY <2>3, <2>4
<1>8. ASSUME NEW c \in Cpu, CheckQer(c) PROVE Undisturbed'
  <2>1. InFlight(pkt[c]) /\ UNCHANGED vars /\ pkt[c].pc = "qer"
    BY <1>8 DEF CheckQer, InFlight
  <2>2. ASSUME NEW p \in pdrs, Of(pkt[c], p)
        PROVE  /\ ~Working(cur, p.sess) /\ ~(p.sdf /\ ~pkt[c].sdf)
               /\ QerSlot(c) = slot[<<"qer", p.qer>>] /\ Usable(p, slot[<<"far", p.far>>])
    BY <1>4, <2>1, <2>2 DEF Fits
  <2>3. CASE QerSlot(c) \in Closed /\ Ends(c, "closed")
    <3>1. \A p \in pdrs : Of(pkt[c], p) => Allowed(p, pkt[c].sdf, "closed", Zero)
      BY <2>2, <2>3, AllowedHas
    <3> QED  BY <1>5, <2>1, <2>3, <3>1
  <2>4. CASE QerSlot(c) \notin Closed /\ pkt' = [pkt EXCEPT ![c].pc = "send"]
    BY <1>6, <2>1, <2>2, <2>4
  <2>5. CASE QerSlot(c) \notin Closed \cup {Zero} /\ Ends(c, "limited")
    <3>1. \A p \in pdrs : Of(pkt[c], p) => Allowed(p, pkt[c].sdf, "limited", Zero)
      BY <2>2, <2>5, AllowedHas
    <3> QED  BY <1>5, <2>1, <2>5, <3>1
  <2> QED  BY <1>8, <2>3, <2>4, <2>5 DEF CheckQer
<1>9. ASSUME NEW c \in Cpu, pkt[c].pc = "send", NEW p \in pdrs, Of(pkt[c], p)
      PROVE  /\ ~Working(cur, p.sess) /\ ~(p.sdf /\ ~pkt[c].sdf)
             /\ FarSlot(c) = slot[<<"far", p.far>>] /\ Usable(p, slot[<<"far", p.far>>])
             /\ RowOf("qer", p.sess, p.qer) # {} => slot[<<"qer", p.qer>>] \notin Closed
  <2>1. InFlight(pkt[c])
    BY <1>9 DEF InFlight
  <2>2. Fits(pkt[c], p)
    BY <1>4, <1>9, <2>1
  <2> QED  BY <1>4, <1>9, <2>1, <2>2 DEF Fits
<1>10. ASSUME NEW c \in Cpu, Send(c) PROVE Undisturbed'
  <2>0. PICK r : r = [pkt[c] EXCEPT !.pc = "done", !.out = SendVerdict(c),
                                    !.to = FarSlot(c), !.sentBy = Holders(pkt[c].far)]
    OBVIOUS
  <2>1. pkt' = [pkt EXCEPT ![c] = r] /\ pkt[c].pc = "send" /\ UNCHANGED vars
    BY <1>10, <2>0 DEF Send
  <2>2. /\ r.pc = "done" /\ r.out = SendVerdict(c) /\ r.to = FarSlot(c) /\ r.sdf = pkt[c].sdf
        /\ r.owner = pkt[c].owner /\ r.key = pkt[c].key /\ r.touched = pkt[c].touched
    BY <1>0, <2>0 DEF Packet
  <2>3. ASSUME NEW p \in pdrs, Of(r, p) PROVE Allowed(p, r.sdf, r.out, r.to)
    <3>1. Of(pkt[c], p) /\ pkt[c].key = KeyOf(p)
      BY <2>2, <2>3 DEF Of
    <3> DEFINE f == slot[<<"far", p.far>>]
    <3>2. /\ ~Working(cur, p.sess) /\ ~(p.sdf /\ ~pkt[c].sdf)
          /\ FarSlot(c) = f /\ Usable(p, f)
          /\ RowOf("qer", p.sess, p.qer) # {} => slot[<<"qer", p.qer>>] \notin Closed
      BY <1>9, <2>1, <3>1
    <3>3. SendVerdict(c) = IF f \in Gtp THEN "tunnel" ELSE "n6"
      BY <3>1, <3>2 DEF SendVerdict, Usable
    <3>4. Allowed(p, pkt[c].sdf, IF f \in Gtp THEN "tunnel" ELSE "n6", f)
      BY <3>2, AllowedHas
    <3> HIDE DEF f
    <3> QED  BY <2>2, <3>2, <3>3, <3>4
  <2>4. Served(r)
    BY <2>2, <2>3 DEF Served, InFlight
  <2> QED  BY <2>1, <2>4, OneCpuServed
<1>11. ASSUME NEW c \in Cpu, Abort(c) PROVE Undisturbed'
  <2>1. pkt[c].pc = "send" /\ InFlight(pkt[c]) /\ UNCHANGED vars /\ Ends(c, "aborted")
    BY <1>11 DEF Abort, InFlight
  <2>2. ASSUME NEW p \in pdrs, Of(pkt[c], p) PROVE Allowed(p, pkt[c].sdf, "aborted", Zero)
    BY <1>9, <2>1, <2>2, AllowedHas
  <2> QED  BY <1>5, <2>1, <2>2
<1>12. CASE UNCHANGED dpVars
  <2>1. UNCHANGED <<rules, pdrs, slot, cur, pkt>>
    BY <1>12 DEF dpVars, vars
  <2>2. \A k, s, g : RowOf(k, s, g)' = RowOf(k, s, g)
    BY <2>1 DEF RowOf
  <2>3. \A p, sdf, out, to : Allowed(p, sdf, out, to)' <=> Allowed(p, sdf, out, to)
    BY <2>2 DEF Allowed, Ordered, StoppedByStranger
  <2> QED  BY <2>1, <2>2, <2>3 DEF Undisturbed, Served, Fits, Of, Usable, InFlight, Working
<1> QED
  BY <1>1, <1>2, <1>3, <1>7, <1>8, <1>10, <1>11, <1>12 DEF DpNext

\* For any number of CPUs, packets, peers and sessions: a packet whose session no
\* request touches while it is in flight gets exactly what its session's own tables
\* order, wherever in handle_gtp_packet, handle_n6_packet_ipv4 or handle_n6_packet_ipv6
\* it is when requests of other sessions take, rewrite, release and hand out again the
\* ids of their rules; the one exception is a PDR without a QER, whose packets the QER
\* in slot 0, anybody's, may stop.  Assumed: peers that do nothing the code does not
\* guard against (Stress), TEIDs that differ in their low byte (TeidsApart), room left
\* in trackers and PDR maps (Roomy).
THEOREM ForwardingIsUndisturbed ==
    ASSUME Stress = {}, TeidsApart
    PROVE  DpSpec /\ []Roomy => []UndisturbedForwarding
<1>1. DpInit => Undisturbed
  <2> SUFFICES ASSUME DpInit PROVE Undisturbed
    OBVIOUS
  <2>1. \A c \in Cpu : pkt[c] = NoPacket
    BY DEF DpInit
  <2>2. NoPacket.pc = "idle"
    BY DEF NoPacket
  <2> QED  BY <2>1, <2>2 DEF Undisturbed, Served, InFlight
<1>2. /\ TypeOK /\ CurOK /\ Exclusive /\ Mapped /\ Named /\ DpTypeOK /\ Undisturbed
      /\ (TypeOK /\ CurOK /\ Exclusive /\ Mapped /\ Named)' /\ [DpNext]_dpVars
      => Undisturbed'
  BY UndisturbedStep
<1>3. Undisturbed => UndisturbedForwarding
  BY DEF Undisturbed, Served, Of, Allowed, UndisturbedForwarding
<1>4. Spec /\ []Roomy => [](TypeOK /\ CurOK /\ Exclusive /\ Mapped /\ Named)
  BY NamedAlways
<1> QED  BY <1>1, <1>2, <1>3, <1>4, DpSpecIsSpec, DatapathTypes, PTL DEF DpSpec
=============================================================================
