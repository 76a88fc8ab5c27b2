--------------------------- MODULE UpfSessionProofs ---------------------------
(***************************************************************************)
(* Proofs about UpfSession, for every set of peers, every pool and map     *)
(* size and every set of ids.                                              *)
(***************************************************************************)
EXTENDS UpfSession, TLAPS

\* The request record and its session fit the handler that runs: a session
\* handler works on a session, only deletions have released rules, the rules
\* they released are of their own session or peer, and a Session Deletion
\* releases none before it is through with the PDRs.
CurOK ==
    /\ cur.op \in {"est", "mod", "del"} => cur.sess \in Sess
    /\ cur.op = "prune" => cur.sess \in Node \X (0 .. MaxSeid)
    /\ cur.op \in {"idle", "est", "mod"} => cur.done = {}
    /\ cur.op = "del" =>
         /\ \A x \in cur.done : x.sess = cur.sess
         /\ cur.left # {} => cur.done = {}
    /\ cur.op = "prune" =>
         /\ \A x \in cur.done : x.sess[1] = cur.sess[1]
         /\ \A s \in cur.pending : s[1] = cur.sess[1]

\* A slot is a kind and an id below the size of that kind's pool.
LEMMA SlotMembers ==
    /\ \A k \in Kind, i \in Nat : i < PoolSize[k] => <<k, i>> \in Slot
    /\ \A p \in Slot : /\ p = <<p[1], p[2]>>
                       /\ p[1] \in Kind
                       /\ p[2] \in Nat
                       /\ p[2] < PoolSize[p[1]]
<1>1. \A k \in Kind : PoolSize[k] \in Nat \ {0}
  BY ConstantsAssumption
<1>2. \A k \in Kind, i \in Nat : i < PoolSize[k] => <<k, i>> \in Slot
  <2> SUFFICES ASSUME NEW k \in Kind, NEW i \in Nat, i < PoolSize[k]
               PROVE  <<k, i>> \in Slot
    OBVIOUS
  <2>1. i \in 0 .. PoolSize[k] - 1
    BY <1>1
  <2> QED  BY <2>1 DEF Slot
<1>3. ASSUME NEW p \in Slot
      PROVE  /\ p = <<p[1], p[2]>>
             /\ p[1] \in Kind
             /\ p[2] \in Nat
             /\ p[2] < PoolSize[p[1]]
  <2>1. PICK k \in Kind : p \in {k} \X (0 .. PoolSize[k] - 1)
    BY DEF Slot
  <2> QED  BY <2>1, <1>1
<1> QED  BY <1>2, <1>3

\* The id a session row, or its absence, stands for is the id of a slot.
LEMMA GlobalIdInPool ==
    ASSUME TypeOK, NEW k \in Kind, NEW s, NEW r
    PROVE  /\ GlobalId(k, s, r) \in Nat
           /\ GlobalId(k, s, r) < PoolSize[k]
           /\ <<k, GlobalId(k, s, r)>> \in Slot
<1>1. CASE RuleAt(k, s, r) = {}
  BY <1>1, ConstantsAssumption, SlotMembers DEF GlobalId
<1>2. CASE RuleAt(k, s, r) # {}
  <2>1. PICK x \in RuleAt(k, s, r) : GlobalId(k, s, r) = x.gid
    BY <1>2 DEF GlobalId
  <2>2. x \in rules /\ x.kind = k
    BY <2>1 DEF RuleAt
  <2>3. x \in RuleRow /\ x.gid < PoolSize[x.kind]
    BY <2>2 DEF TypeOK
  <2> QED  BY <2>1, <2>2, <2>3, SlotMembers DEF RuleRow
<1> QED  BY <1>1, <1>2

\* extractPDR makes a PDR row of whatever the IE carries.
LEMMA ExtractedPdrType ==
    ASSUME TypeOK, NEW o, NEW s \in Sess, NEW i \in PdrId, NEW f, NEW q,
           NEW loc \in Loc, NEW sdf \in BOOLEAN
    PROVE  ExtractedPdr(o, s, i, f, q, loc, sdf) \in PdrRow
<1> DEFINE zero == [sess |-> s, id |-> i, teid |-> 0, ip4 |-> NoIp,
                    ip6 |-> NoIp, far |-> 0, qer |-> 0, sdf |-> FALSE]
           base == IF o = "create" \/ PdrAt(s, i) = {} THEN zero
                   ELSE CHOOSE p \in PdrAt(s, i) : TRUE
<1>1. base \in PdrRow
  <2>1. zero \in PdrRow
    BY DEF PdrRow
  <2>2. PdrAt(s, i) \subseteq PdrRow
    BY DEF PdrAt, TypeOK
  <2> QED  BY <2>1, <2>2
<1>2. GlobalId("far", s, f) \in Nat /\ GlobalId("qer", s, q) \in Nat
  BY GlobalIdInPool DEF Kind
<1>3. /\ loc[1] = "ul" => loc[2] \in Teid \cup {0}
      /\ loc[1] = "dl4" => loc[2] \in UeIp4
      /\ loc[1] = "dl6" => loc[2] \in UeIp6
  BY DEF Loc, NoLoc, Key
<1> HIDE DEF base
<1>4. /\ base.teid \in Teid \cup {0}
      /\ base.ip4 \in UeIp4 \cup {NoIp}
      /\ base.ip6 \in UeIp6 \cup {NoIp}
      /\ base.far \in Nat /\ base.qer \in Nat
  BY <1>1 DEF PdrRow
<1>5. (base.sdf \/ sdf) \in BOOLEAN
  OBVIOUS
<1>6. /\ (IF loc[1] = "ul" THEN loc[2] ELSE base.teid) \in Teid \cup {0}
      /\ (IF loc[1] = "dl4" THEN loc[2] ELSE base.ip4) \in UeIp4 \cup {NoIp}
      /\ (IF loc[1] = "dl6" THEN loc[2] ELSE base.ip6) \in UeIp6 \cup {NoIp}
      /\ (IF f = NoRef THEN base.far ELSE GlobalId("far", s, f)) \in Nat
      /\ (IF q = NoRef THEN base.qer ELSE GlobalId("qer", s, q)) \in Nat
  BY <1>2, <1>3, <1>4
<1> QED  BY <1>5, <1>6, Zenon DEF ExtractedPdr, base, PdrRow

\* What a Put writes is a row of a PDR map.
LEMMA StoredPdrType ==
    ASSUME TypeOK, NEW p \in PdrRow
    PROVE  PdrToStore(p) \in EntryRow
<1>1. KeyOf(p) \in Key
  BY DEF KeyOf, Key, PdrRow
<1>2. EntriesAt(KeyOf(p)) \subseteq EntryRow
  BY DEF EntriesAt, TypeOK
<1>3. p.far \in Nat /\ p.qer \in Nat /\ p.sess \in Sess
  BY DEF PdrRow
<1> DEFINE old == CHOOSE e \in EntriesAt(KeyOf(p)) : TRUE
<1>4. EntriesAt(KeyOf(p)) # {} => old.far \in Nat /\ old.qer \in Nat
  <2>1. EntriesAt(KeyOf(p)) # {} => old \in EntryRow
    BY <1>2
  <2> QED  BY <2>1 DEF EntryRow
<1> HIDE DEF old
<1> QED  BY <1>1, <1>3, <1>4 DEF PdrToStore, EntryRow, old

\* A session is a session or none, and has a peer.
LEMMA SessNotNone == \A s \in Sess : s \in SessOrNone /\ s[1] \in Node
BY ConstantsAssumption DEF Sess, SessOrNone

\* Between requests the request record has its type.
LEMMA IdleType == Idle \in Request
BY DEF Idle, Request, SessOrNone

\* The initial state has its type.
LEMMA TypeInit == Init => TypeOK /\ CurOK
<1> SUFFICES ASSUME Init PROVE TypeOK /\ CurOK
  OBVIOUS
<1>1. cur \in Request
  BY IdleType DEF Init
<1>2. CurOK
  BY DEF Init, CurOK, Idle
<1> QED  BY <1>1, <1>2 DEF Init, TypeOK, Replies

\* Stages are numbers.
LEMMA StageType ==
    \A k \in Kind \cup {"pdr"}, o \in {"create", "update", "remove"} : Stage(k, o) \in Nat
BY DEF Kind, Stage

\* The TEID cache holds numbers.
LEMMA CacheWithType ==
    ASSUME TypeOK, NEW p \in pdrs
    PROVE  CacheWith(p) \subseteq Nat
<1>1. p.teid \in Nat
  <2>1. p.teid \in Teid \cup {0}
    BY DEF TypeOK, PdrRow
  <2>2. \A t \in Teid \cup {0} : t \in Nat
    BY ConstantsAssumption
  <2> QED  BY <2>1, <2>2, Zenon
<1>2. CacheKey(p) \in Nat
  BY <1>1 DEF CacheKey
<1>3. cur.cache \subseteq Nat
  BY DEF TypeOK, Request
<1> QED  BY <1>2, <1>3 DEF CacheWith

\* Every step keeps TypeOK and CurOK.
LEMMA TypeStep == TypeOK /\ CurOK /\ [Next]_vars => TypeOK' /\ CurOK'
<1> SUFFICES ASSUME TypeOK, CurOK, [Next]_vars
             PROVE  TypeOK' /\ CurOK'
  OBVIOUS
<1>1. ASSUME NEW n \in Node, AssociationSetup(n) PROVE TypeOK' /\ CurOK'
  BY <1>1 DEF AssociationSetup, TypeOK, CurOK, Replies
<1>2. ASSUME NEW n \in Node, EstablishmentRequest(n) PROVE TypeOK' /\ CurOK'
  <2>1. <<n, nextSeid[n] + 1>> \in Sess /\ nextSeid[n] + 1 \in Nat \ {0}
    BY <1>2, ConstantsAssumption DEF EstablishmentRequest, TypeOK, Sess
  <2>2. cur' \in Request /\ CurOK'
    BY <1>2, <2>1, SessNotNone, IdleType DEF EstablishmentRequest, Request, CurOK, Idle
  <2> QED  BY <1>2, <2>1, <2>2 DEF EstablishmentRequest, TypeOK, Replies
<1>3. ASSUME NEW n \in Node, PruneAssociation(n) PROVE TypeOK' /\ CurOK'
  <2>1. <<n, 0>> \in Node \X (0 .. MaxSeid) /\ <<n, 0>> \in SessOrNone
    BY ConstantsAssumption DEF SessOrNone
  <2>2. SessionsOf(n) \subseteq Sess /\ \A s \in SessionsOf(n) : s[1] = n
    BY DEF SessionsOf, TypeOK
  <2>3. cur' \in Request /\ CurOK'
    BY <1>3, <2>1, <2>2, IdleType DEF PruneAssociation, Request, CurOK, Idle
  <2> QED  BY <1>3, <2>3 DEF PruneAssociation, TypeOK, Replies
<1>4. CASE RejectRequest
  BY <1>4 DEF RejectRequest, TypeOK, CurOK, Replies
<1>5. ASSUME NEW s \in stored, ModificationRequest(s) PROVE TypeOK' /\ CurOK'
  <2>1. s \in Sess
    BY DEF TypeOK
  <2>2. cur' \in Request /\ CurOK'
    BY <1>5, <2>1, SessNotNone, IdleType DEF ModificationRequest, Request, CurOK, Idle
  <2> QED  BY <1>5, <2>2 DEF ModificationRequest, TypeOK, Replies
<1>6. ASSUME NEW s \in stored, DeletionRequest(s) PROVE TypeOK' /\ CurOK'
  <2>1. s \in Sess /\ PdrsOf(s) \subseteq PdrRow
    BY DEF TypeOK, PdrsOf
  <2>2. cur' \in Request /\ CurOK'
    BY <1>6, <2>1, SessNotNone, IdleType DEF DeletionRequest, Request, CurOK, Idle
  <2> QED  BY <1>6, <2>2 DEF DeletionRequest, TypeOK, Replies
<1>7. ASSUME NEW k \in Kind, NEW r \in RuleId[k], NEW i \in InfoOf(k), CreateRule(k, r, i)
      PROVE  TypeOK' /\ CurOK'
  <2>1. cur.op \in {"est", "mod"} /\ cur.sess \in Sess /\ cur.done = {}
    BY <1>7 DEF CreateRule, MayCreate, Reached, CurOK
  <2>2. Stage(k, "create") \in Nat
    BY StageType
  <2>3. cur' \in Request /\ CurOK'
    BY <1>7, <2>1, <2>2 DEF CreateRule, TypeOK, Request, CurOK
  <2>4. PICK p \in free : /\ p[1] = k
                          /\ free' = free \ {p}
                          /\ slot' = [slot EXCEPT ![p] = i]
                          /\ rules' = (rules \ RuleAt(k, cur.sess, r)) \cup
                               {[kind |-> k, sess |-> cur.sess, id |-> r, gid |-> p[2], info |-> i]}
    BY <1>7 DEF CreateRule
  <2>5. p \in Slot /\ p[2] \in Nat /\ p[2] < PoolSize[k]
    BY <2>4, SlotMembers DEF TypeOK
  <2>6. r \in Nat /\ i \in Info \cup {Zero}
    BY ConstantsAssumption DEF InfoOf
  <2>7. rules' \subseteq RuleRow /\ \A x \in rules' : x.gid < PoolSize[x.kind]
    BY <2>1, <2>4, <2>5, <2>6 DEF TypeOK, RuleRow
  <2>8. slot' \in [Slot -> Info \cup {Zero}]
    BY <2>4, <2>5, <2>6 DEF TypeOK
  <2> QED  BY <1>7, <2>3, <2>4, <2>7, <2>8 DEF CreateRule, TypeOK
<1>8. ASSUME NEW k \in Kind, NEW r \in RuleId[k], NEW i \in InfoOf(k), UpdateRule(k, r, i)
      PROVE  TypeOK' /\ CurOK'
  <2>1. cur.op = "mod" /\ cur.sess \in Sess /\ cur.done = {}
    BY <1>8 DEF UpdateRule, Reached, CurOK
  <2>2. cur' \in Request /\ CurOK'
    BY <1>8, <2>1, StageType DEF UpdateRule, TypeOK, Request, CurOK
  <2> DEFINE g == GlobalId(k, cur.sess, r)
  <2>3. g \in Nat /\ g < PoolSize[k] /\ <<k, g>> \in Slot
    BY GlobalIdInPool
  <2>4. r \in Nat /\ i \in Info \cup {Zero}
    BY ConstantsAssumption DEF InfoOf
  <2>5. /\ rules' = (rules \ RuleAt(k, cur.sess, r)) \cup
                   {[kind |-> k, sess |-> cur.sess, id |-> r, gid |-> g, info |-> i]}
        /\ slot' = [slot EXCEPT ![<<k, g>>] = i]
    BY <1>8 DEF UpdateRule
  <2> HIDE DEF g
  <2>6. rules' \subseteq RuleRow /\ \A x \in rules' : x.gid < PoolSize[x.kind]
    BY <2>1, <2>3, <2>4, <2>5 DEF TypeOK, RuleRow
  <2>7. slot' \in [Slot -> Info \cup {Zero}]
    BY <2>3, <2>4, <2>5 DEF TypeOK
  <2> QED  BY <1>8, <2>2, <2>6, <2>7 DEF UpdateRule, TypeOK
<1>9. ASSUME NEW k \in Kind, NEW r \in RuleId[k], RemoveRule(k, r)
      PROVE  TypeOK' /\ CurOK'
  <2>1. cur.op = "mod" /\ cur.sess \in Sess /\ cur.done = {}
    BY <1>9 DEF RemoveRule, Reached, CurOK
  <2>2. cur' \in Request /\ CurOK'
    BY <1>9, <2>1, StageType DEF RemoveRule, TypeOK, Request, CurOK
  <2> DEFINE g == GlobalId(k, cur.sess, r)
  <2>3. <<k, g>> \in Slot
    BY GlobalIdInPool
  <2>4. /\ rules' \subseteq rules
        /\ free' = free \cup {<<k, g>>}
        /\ slot' = [slot EXCEPT ![<<k, g>>] = Zero]
    BY <1>9 DEF RemoveRule
  <2> HIDE DEF g
  <2> QED  BY <1>9, <2>2, <2>3, <2>4 DEF RemoveRule, TypeOK
<1>10. ASSUME NEW o \in {"create", "update"}, NEW i \in PdrId, NEW loc \in Loc,
              NEW sdf \in Sdf, NEW f, NEW q, PutPdr(o, i, f, q, loc, sdf)
       PROVE  TypeOK' /\ CurOK'
  <2>1. cur.op \in {"est", "mod"} /\ cur.sess \in Sess /\ cur.done = {}
    BY <1>10 DEF PutPdr, Reached, CurOK
  <2> DEFINE p == ExtractedPdr(o, cur.sess, i, f, q, loc, sdf)
             rows == (pdrs \ PdrAt(cur.sess, i)) \cup {p}
  <2>2. sdf \in BOOLEAN
    BY ConstantsAssumption
  <2>3. p \in PdrRow
    BY <2>1, <2>2, ExtractedPdrType
  <2>4. PdrToStore(p) \in EntryRow
    BY <2>3, StoredPdrType
  <2>5. rows \subseteq PdrRow /\ pdrs \ PdrsOf(cur.sess) \subseteq PdrRow
    BY <2>3 DEF TypeOK
  <2>6. RulesAfterFailure \subseteq rules
    BY DEF RulesAfterFailure
  <2>7. UNCHANGED <<assoc, nextSeid, stored, free, slot>>
    BY <1>10 DEF PutPdr
  <2>8. CASE /\ pdrs' = rows
             /\ pdrMap' = (pdrMap \ EntriesAt(KeyOf(p))) \cup {PdrToStore(p)}
             /\ cur' = [cur EXCEPT !.stage = Stage("pdr", o)]
             /\ UNCHANGED <<rules, reply>>
    <3> HIDE DEF p, rows
    <3>1. cur' \in Request /\ CurOK'
      BY <2>8, <2>1, StageType DEF TypeOK, Request, CurOK
    <3> QED  BY <3>1, <2>4, <2>5, <2>7, <2>8 DEF TypeOK
  <2>9. CASE /\ pdrs' = IF cur.op = "est" THEN pdrs \ PdrsOf(cur.sess) ELSE rows
             /\ rules' = RulesAfterFailure
             /\ cur' = Idle
             /\ reply' = "failure"
             /\ UNCHANGED pdrMap
    <3> HIDE DEF p, rows
    <3>1. cur' \in Request /\ CurOK'
      BY <2>9, IdleType DEF Idle, CurOK
    <3>2. pdrs' \subseteq PdrRow
      BY <2>9, <2>5
    <3> QED  BY <3>1, <3>2, <2>6, <2>7, <2>9 DEF TypeOK, Replies
  <2> QED  BY <1>10, <2>8, <2>9 DEF PutPdr
<1>11. ASSUME NEW p \in pdrs, RemovePdr(p) PROVE TypeOK' /\ CurOK'
  <2>1. cur.op = "mod" /\ cur.sess \in Sess /\ cur.done = {}
    BY <1>11 DEF RemovePdr, Reached, CurOK
  <2>2. CacheWith(p) \subseteq Nat
    BY CacheWithType
  <2>3. MapWithout(p) \subseteq pdrMap
    BY DEF MapWithout
  <2>4. CASE cur' = Idle /\ reply' = "failure" /\ UNCHANGED pdrMap
    <3>1. cur' \in Request /\ CurOK'
      BY <2>4, IdleType DEF Idle, CurOK
    <3> QED  BY <1>11, <2>4, <3>1 DEF RemovePdr, TypeOK, Replies
  <2>5. CASE /\ pdrMap' = MapWithout(p)
             /\ cur' = [cur EXCEPT !.stage = Stage("pdr", "remove"), !.cache = CacheWith(p)]
             /\ UNCHANGED reply
    <3>1. cur' \in Request /\ CurOK'
      BY <2>5, <2>1, <2>2, StageType DEF TypeOK, Request, CurOK
    <3> QED  BY <1>11, <2>3, <2>5, <3>1 DEF RemovePdr, TypeOK
  <2> QED  BY <1>11, <2>4, <2>5 DEF RemovePdr
<1>12. CASE RequestFails
  <2>1. cur' \in Request /\ CurOK'
    BY <1>12, IdleType DEF RequestFails, Idle, CurOK
  <2>2. RulesAfterFailure \subseteq rules
    BY DEF RulesAfterFailure
  <2> QED  BY <1>12, <2>1, <2>2 DEF RequestFails, TypeOK, Replies
<1>13. CASE RequestDone
  <2>1. cur' \in Request /\ CurOK'
    BY <1>13, IdleType DEF RequestDone, Idle, CurOK
  <2>2. cur.sess \in Sess
    BY <1>13 DEF RequestDone, CurOK
  <2> QED  BY <1>13, <2>1, <2>2 DEF RequestDone, TypeOK, Replies
<1>14. ASSUME NEW p \in pdrs, DeletionPdr(p) PROVE TypeOK' /\ CurOK'
  <2>1. CacheWith(p) \subseteq Nat
    BY CacheWithType
  <2>2. MapWithout(p) \subseteq pdrMap
    BY DEF MapWithout
  <2>3. CASE cur' = Idle /\ reply' = "silent" /\ UNCHANGED pdrMap
    <3>1. cur' \in Request /\ CurOK'
      BY <2>3, IdleType DEF Idle, CurOK
    <3> QED  BY <1>14, <2>3, <3>1 DEF DeletionPdr, TypeOK, Replies
  <2>4. CASE /\ pdrMap' = MapWithout(p)
             /\ cur' = [cur EXCEPT !.left = @ \ {p}, !.cache = CacheWith(p)]
             /\ UNCHANGED reply
    <3>1. cur.op = "del" /\ p \in cur.left
      BY <1>14 DEF DeletionPdr
    <3>2. cur' \in Request /\ CurOK'
      BY <2>4, <2>1, <3>1 DEF TypeOK, Request, CurOK
    <3> QED  BY <1>14, <2>2, <2>4, <3>2 DEF DeletionPdr, TypeOK
  <2> QED  BY <1>14, <2>3, <2>4 DEF DeletionPdr
<1>15. ASSUME NEW x \in rules, NEW kinds, ReleaseNext(kinds, x)
       PROVE  /\ free' \subseteq Slot
              /\ slot' \in [Slot -> Info \cup {Zero}]
              /\ x \in RuleRow /\ x.sess = cur.sess
              /\ cur' = [cur EXCEPT !.done = @ \cup {x}]
  <2>1. x \in RuleRow /\ x.gid < PoolSize[x.kind]
    BY DEF TypeOK
  <2>2. <<x.kind, x.gid>> \in Slot
    BY <2>1, SlotMembers DEF RuleRow
  <2> QED  BY <1>15, <2>1, <2>2 DEF ReleaseNext, Remaining, RulesOf, TypeOK
<1>16. ASSUME NEW x \in rules, DeletionRule(x) PROVE TypeOK' /\ CurOK'
  <2>1. ReleaseNext(Kind, x) /\ cur.op = "del" /\ cur.left = {}
    BY <1>16 DEF DeletionRule
  <2>2. cur' \in Request /\ CurOK'
    BY <2>1, <1>15 DEF TypeOK, Request, CurOK
  <2> QED  BY <1>15, <1>16, <2>1, <2>2 DEF DeletionRule, TypeOK
<1>17. CASE DeletionDone
  <2>1. cur' \in Request /\ CurOK'
    BY <1>17, IdleType DEF DeletionDone, Idle, CurOK
  <2> QED  BY <1>17, <2>1 DEF DeletionDone, TypeOK, Replies
<1>18. ASSUME NEW s \in cur.pending, PruneSession(s) PROVE TypeOK' /\ CurOK'
  <2>1. s \in Sess /\ s \in SessOrNone /\ s \in Node \X (0 .. MaxSeid) /\ s[1] = cur.sess[1]
    BY <1>18, SessNotNone, ConstantsAssumption DEF PruneSession, TypeOK, Request, CurOK, Sess
  <2>2. PdrsOf(s) \subseteq PdrRow
    BY DEF PdrsOf, TypeOK
  <2>3. cur' \in Request /\ CurOK'
    BY <1>18, <2>1, <2>2 DEF PruneSession, TypeOK, Request, CurOK
  <2> QED  BY <1>18, <2>3 DEF PruneSession, TypeOK
<1>19. ASSUME NEW x \in rules, PruneRule(x) PROVE TypeOK' /\ CurOK'
  <2>1. ReleaseNext(PrunedKinds, x) /\ cur.op = "prune"
    BY <1>19 DEF PruneRule
  <2>2. cur' \in Request /\ CurOK'
    BY <2>1, <1>15 DEF TypeOK, Request, CurOK
  <2> QED  BY <1>15, <1>19, <2>1, <2>2 DEF PruneRule, TypeOK
<1>20. ASSUME NEW p \in pdrs, PrunePdr(p) PROVE TypeOK' /\ CurOK'
  <2>1. CacheWith(p) \subseteq Nat
    BY CacheWithType
  <2>2. MapWithout(p) \subseteq pdrMap
    BY DEF MapWithout
  <2>3. cur.op = "prune" /\ cur' = [cur EXCEPT !.left = @ \ {p},
                             !.cache = IF DeleteFails(p) THEN @ ELSE CacheWith(p)]
    BY <1>20 DEF PrunePdr
  <2>4. cur' \in Request /\ CurOK'
    BY <2>1, <2>3 DEF TypeOK, Request, CurOK
  <2> QED  BY <1>20, <2>2, <2>4 DEF PrunePdr, TypeOK
<1>21. CASE PruneDone
  <2>1. cur' \in Request /\ CurOK'
    BY <1>21, IdleType DEF PruneDone, Idle, CurOK
  <2> QED  BY <1>21, <2>1 DEF PruneDone, TypeOK
<1>22. CASE UNCHANGED vars
  BY <1>22 DEF vars, TypeOK, CurOK
<1> QED
  BY <1>1, <1>2, <1>3, <1>4, <1>5, <1>6, <1>7, <1>8, <1>9, <1>10, <1>11, <1>12, <1>13,
     <1>14, <1>16, <1>17, <1>18, <1>19, <1>20, <1>21, <1>22 DEF Next

\* Whatever peers send, in any order, and wherever requests fail, the tables of
\* the sessions and of the forwarding plane keep their types: in particular no
\* session ever holds a global id outside the map its rule lives in.
THEOREM TypeCorrect == Spec => []TypeOK
<1>1. Spec => [](TypeOK /\ CurOK)
  BY TypeInit, TypeStep, PTL DEF Spec
<1> QED  BY <1>1, PTL

-----------------------------------------------------------------------------
(* Exclusive slots *)

Exclusive == NoSharedRule /\ SlotsMirrorSessions

\* Exclusive only speaks of live rules, the trackers and the slots: a step that
\* touches neither trackers nor slots and makes no rule live keeps it.
LEMMA ShrinkKeepsExclusive ==
    ASSUME Exclusive, UNCHANGED <<free, slot>>, Live' \subseteq Live
    PROVE  Exclusive'
BY DEF Exclusive, NoSharedRule, SlotsMirrorSessions, SlotOf

\* Deleting a PDR changes other fields of the request record than done.
LEMMA DoneKept ==
    ASSUME NEW c \in Request, NEW n, NEW left, NEW cache
    PROVE  /\ [c EXCEPT !.stage = n, !.cache = cache].done = c.done
           /\ [c EXCEPT !.left = left, !.cache = cache].done = c.done
BY DEF Request

\* Slots of live rules are slots.
LEMMA LiveSlots ==
    ASSUME TypeOK, NEW x \in rules
    PROVE  SlotOf(x) \in Slot /\ x \in RuleRow
<1>1. x \in RuleRow /\ x.gid < PoolSize[x.kind]
  BY DEF TypeOK
<1> QED  BY <1>1, SlotMembers DEF RuleRow, SlotOf

\* Releasing a live rule's slot and zeroing it keeps Exclusive.
LEMMA ReleaseKeepsExclusive ==
    ASSUME TypeOK, Exclusive, NEW x \in Live,
           free' = free \cup {SlotOf(x)},
           slot' = [slot EXCEPT ![SlotOf(x)] = Zero],
           Live' \subseteq Live \ {x}
    PROVE  Exclusive'
<1>1. \A y \in Live' : y \in Live /\ SlotOf(y) # SlotOf(x)
  BY DEF Exclusive, NoSharedRule
<1>2. \A y \in Live' : SlotOf(y)' = SlotOf(y)
  BY DEF SlotOf
<1>3. SlotOf(x) \in Slot /\ \A y \in Live' : SlotOf(y) \in Slot
  BY <1>1, LiveSlots DEF Live
<1>4. slot \in [Slot -> Info \cup {Zero}] /\ free \subseteq Slot
  BY DEF TypeOK
<1>5. NoSharedRule'
  BY <1>1, <1>2 DEF Exclusive, NoSharedRule, SlotOf
<1>6. SlotsMirrorSessions'
  BY <1>1, <1>2, <1>3, <1>4 DEF Exclusive, SlotsMirrorSessions, SlotOf
<1> QED  BY <1>5, <1>6 DEF Exclusive

\* Every step keeps Exclusive when peers name only rules they created.
LEMMA ExclusiveStep ==
    ASSUME "unknown" \notin Stress
    PROVE  TypeOK /\ CurOK /\ Exclusive /\ [Next]_vars => Exclusive'
<1> SUFFICES ASSUME TypeOK, CurOK, Exclusive, [Next]_vars
             PROVE  Exclusive'
  OBVIOUS
<1>1. ASSUME NEW n \in Node,
             AssociationSetup(n) \/ EstablishmentRequest(n) \/ PruneAssociation(n)
      PROVE  Exclusive'
  <2>1. UNCHANGED <<free, slot, rules>> /\ cur'.done = cur.done
    BY <1>1 DEF AssociationSetup, EstablishmentRequest, PruneAssociation, Idle, CurOK
  <2> QED  BY <2>1, ShrinkKeepsExclusive DEF Live
<1>2. CASE RejectRequest
  BY <1>2, ShrinkKeepsExclusive DEF RejectRequest, Live
<1>3. ASSUME NEW s \in stored, ModificationRequest(s) \/ DeletionRequest(s)
      PROVE  Exclusive'
  <2>1. UNCHANGED <<free, slot, rules>> /\ cur'.done = cur.done
    BY <1>3 DEF ModificationRequest, DeletionRequest, Idle, CurOK
  <2> QED  BY <2>1, ShrinkKeepsExclusive DEF Live
<1>4. ASSUME NEW k \in Kind, NEW r \in RuleId[k], NEW i \in InfoOf(k), CreateRule(k, r, i)
      PROVE  Exclusive'
  <2>1. cur.done = {} /\ cur'.done = {}
    BY <1>4 DEF CreateRule, MayCreate, Reached, CurOK, TypeOK, Request
  <2>2. PICK p \in free : /\ p[1] = k
                          /\ free' = free \ {p}
                          /\ slot' = [slot EXCEPT ![p] = i]
                          /\ rules' = (rules \ RuleAt(k, cur.sess, r)) \cup
                               {[kind |-> k, sess |-> cur.sess, id |-> r, gid |-> p[2], info |-> i]}
    BY <1>4 DEF CreateRule
  <2> DEFINE new == [kind |-> k, sess |-> cur.sess, id |-> r, gid |-> p[2], info |-> i]
  <2>3. SlotOf(new) = p /\ p \in Slot
    BY <2>2, SlotMembers DEF SlotOf, TypeOK
  <2>4. \A y \in Live' : y = new \/ (y \in Live /\ SlotOf(y) # p /\ SlotOf(y) \in Slot)
    BY <2>1, <2>2, LiveSlots DEF Live, Exclusive, NoSharedRule
  <2>5. new.info = i
    OBVIOUS
  <2> HIDE DEF new
  <2>6. NoSharedRule'
    BY <2>2, <2>3, <2>4 DEF Exclusive, NoSharedRule, SlotOf
  <2>7. slot \in [Slot -> Info \cup {Zero}] /\ free \subseteq Slot
    BY DEF TypeOK
  <2>8. \A y \in Live' : y.kind # "urr" => slot'[SlotOf(y)] = y.info
    BY <2>2, <2>3, <2>4, <2>5, <2>7 DEF Exclusive, SlotsMirrorSessions
  <2>9. \A q \in free' : q[1] # "urr" => slot'[q] = Zero
    BY <2>2, <2>7 DEF Exclusive, SlotsMirrorSessions
  <2> QED  BY <2>6, <2>8, <2>9 DEF Exclusive, SlotsMirrorSessions, SlotOf
<1>5. ASSUME NEW k \in Kind, NEW r, RuleAt(k, cur.sess, r) # {}, cur.done = {}
      PROVE  \E x \in Live : /\ x \in RuleAt(k, cur.sess, r)
                             /\ SlotOf(x) = <<k, GlobalId(k, cur.sess, r)>>
  <2>1. PICK x \in RuleAt(k, cur.sess, r) : GlobalId(k, cur.sess, r) = x.gid
    BY <1>5 DEF GlobalId
  <2> QED  BY <2>1, <1>5 DEF RuleAt, Live, SlotOf
<1>6. ASSUME NEW k \in Kind, NEW r \in RuleId[k], NEW i \in InfoOf(k), UpdateRule(k, r, i)
      PROVE  Exclusive'
  <2>1. cur.done = {} /\ cur'.done = {}
    BY <1>6 DEF UpdateRule, Reached, CurOK, TypeOK, Request
  <2>2. RuleAt(k, cur.sess, r) # {}
    BY <1>6 DEF UpdateRule
  <2> DEFINE g == GlobalId(k, cur.sess, r)
             new == [kind |-> k, sess |-> cur.sess, id |-> r, gid |-> g, info |-> i]
  <2>3. PICK x \in Live : x \in RuleAt(k, cur.sess, r) /\ SlotOf(x) = <<k, g>>
    BY <2>1, <2>2, <1>5
  <2>4. /\ rules' = (rules \ RuleAt(k, cur.sess, r)) \cup {new}
        /\ slot' = [slot EXCEPT ![<<k, g>>] = i]
        /\ free' = free
    BY <1>6 DEF UpdateRule
  <2>5. SlotOf(new) = <<k, g>> /\ new.info = i
    BY DEF SlotOf
  <2> HIDE DEF g, new
  <2>6. <<k, g>> \in Slot
    BY <2>3, LiveSlots DEF Live
  <2>7. \A y \in Live' : y = new \/ (y \in Live /\ y # x /\ SlotOf(y) \in Slot)
    BY <2>1, <2>3, <2>4, LiveSlots DEF Live
  <2>8. \A y \in Live' : y = new \/ (y \in Live /\ SlotOf(y) # <<k, g>> /\ SlotOf(y) \in Slot)
    BY <2>3, <2>7 DEF Exclusive, NoSharedRule
  <2>9. <<k, g>> \notin free
    BY <2>3 DEF Exclusive, NoSharedRule
  <2>10. NoSharedRule'
    BY <2>4, <2>5, <2>8, <2>9 DEF Exclusive, NoSharedRule, SlotOf
  <2>11. slot \in [Slot -> Info \cup {Zero}] /\ free \subseteq Slot
    BY DEF TypeOK
  <2>12. \A y \in Live' : y.kind # "urr" => slot'[SlotOf(y)] = y.info
    BY <2>4, <2>5, <2>6, <2>8, <2>11 DEF Exclusive, SlotsMirrorSessions
  <2>13. \A q \in free' : q[1] # "urr" => slot'[q] = Zero
    BY <2>4, <2>9, <2>11 DEF Exclusive, SlotsMirrorSessions
  <2> QED  BY <2>10, <2>12, <2>13 DEF Exclusive, SlotsMirrorSessions, SlotOf
<1>7. ASSUME NEW k \in Kind, NEW r \in RuleId[k], RemoveRule(k, r)
      PROVE  Exclusive'
  <2>1. cur.done = {} /\ cur'.done = {}
    BY <1>7 DEF RemoveRule, Reached, CurOK, TypeOK, Request
  <2>2. RuleAt(k, cur.sess, r) # {}
    BY <1>7 DEF RemoveRule
  <2>3. PICK x \in Live : /\ x \in RuleAt(k, cur.sess, r)
                          /\ SlotOf(x) = <<k, GlobalId(k, cur.sess, r)>>
    BY <2>1, <2>2, <1>5
  <2>4. /\ rules' = rules \ RuleAt(k, cur.sess, r)
        /\ free' = free \cup {SlotOf(x)}
        /\ slot' = [slot EXCEPT ![SlotOf(x)] = Zero]
    BY <1>7, <2>3 DEF RemoveRule
  <2>5. Live' \subseteq Live \ {x}
    BY <2>1, <2>3, <2>4 DEF Live
  <2> QED  BY <2>4, <2>5, ReleaseKeepsExclusive
<1>8. ASSUME NEW o \in {"create", "update"}, NEW i \in PdrId, NEW loc \in Loc,
             NEW sdf \in Sdf, NEW f, NEW q, PutPdr(o, i, f, q, loc, sdf)
      PROVE  Exclusive'
  <2>1. /\ cur.op \in {"est", "mod"}
        /\ UNCHANGED <<free, slot>>
        /\ \/ rules' = rules /\ cur' = [cur EXCEPT !.stage = Stage("pdr", o)]
           \/ rules' = RulesAfterFailure /\ cur' = Idle
    BY <1>8 DEF PutPdr, Reached
  <2>2. rules' \subseteq rules /\ cur.done = {} /\ cur'.done = {}
    BY <2>1 DEF RulesAfterFailure, CurOK, Idle, TypeOK, Request
  <2> QED  BY <2>1, <2>2, ShrinkKeepsExclusive DEF Live
<1>9. ASSUME NEW p \in pdrs, RemovePdr(p) PROVE Exclusive'
  <2>1. /\ cur.op = "mod"
        /\ UNCHANGED <<free, slot, rules>>
        /\ \/ cur' = Idle
           \/ cur' = [cur EXCEPT !.stage = Stage("pdr", "remove"), !.cache = CacheWith(p)]
    BY <1>9 DEF RemovePdr, Reached
  <2>2. cur.done = {}
    BY <2>1 DEF CurOK
  <2>3. cur'.done = cur.done \/ cur'.done = {}
    <3>1. cur \in Request
      BY DEF TypeOK
    <3>2. [cur EXCEPT !.stage = Stage("pdr", "remove"), !.cache = CacheWith(p)].done
            = cur.done
      BY <3>1, DoneKept
    <3>3. Idle.done = {}
      BY DEF Idle
    <3> QED  BY <2>1, <3>2, <3>3
  <2> QED  BY <2>1, <2>2, <2>3, ShrinkKeepsExclusive DEF Live
<1>10. CASE RequestFails \/ RequestDone
  <2>1. /\ cur.op \in {"est", "mod"}
        /\ UNCHANGED <<free, slot>>
        /\ rules' \subseteq rules
        /\ cur' = Idle
    BY <1>10 DEF RequestFails, RequestDone, RulesAfterFailure
  <2>2. cur.done = {} /\ cur'.done = {}
    BY <2>1 DEF CurOK, Idle
  <2> QED  BY <2>1, <2>2, ShrinkKeepsExclusive DEF Live
<1>11. ASSUME NEW p \in pdrs, DeletionPdr(p) PROVE Exclusive'
  <2>1. /\ cur.op = "del"
        /\ cur.left # {}
        /\ UNCHANGED <<free, slot, rules>>
        /\ \/ cur' = Idle
           \/ cur' = [cur EXCEPT !.left = @ \ {p}, !.cache = CacheWith(p)]
    BY <1>11 DEF DeletionPdr
  <2>2. cur.done = {}
    BY <2>1 DEF CurOK
  <2>3. cur'.done = cur.done \/ cur'.done = {}
    <3>1. cur \in Request
      BY DEF TypeOK
    <3>2. [cur EXCEPT !.left = @ \ {p}, !.cache = CacheWith(p)].done = cur.done
      BY <3>1, DoneKept
    <3>3. Idle.done = {}
      BY DEF Idle
    <3> QED  BY <2>1, <3>2, <3>3
  <2> QED  BY <2>1, <2>2, <2>3, ShrinkKeepsExclusive DEF Live
<1>12. ASSUME NEW x \in rules, DeletionRule(x) \/ PruneRule(x) PROVE Exclusive'
  <2>1. PICK kinds \in {Kind, PrunedKinds} : ReleaseNext(kinds, x) /\ UNCHANGED rules
    BY <1>12 DEF DeletionRule, PruneRule
  <2>2. /\ x \in Live
        /\ free' = free \cup {SlotOf(x)}
        /\ slot' = [slot EXCEPT ![SlotOf(x)] = Zero]
        /\ cur' = [cur EXCEPT !.done = @ \cup {x}]
    BY <2>1 DEF ReleaseNext, Remaining, RulesOf, Live, SlotOf
  <2>3. cur'.done = cur.done \cup {x}
    BY <2>2 DEF TypeOK, Request
  <2>4. Live' \subseteq Live \ {x}
    BY <2>1, <2>3 DEF Live
  <2> QED  BY <2>2, <2>4, ReleaseKeepsExclusive
<1>13. CASE DeletionDone
  <2>1. /\ UNCHANGED <<free, slot>>
        /\ rules' = rules \ RulesOf(cur.sess)
        /\ \A x \in cur.done : x.sess = cur.sess
    BY <1>13 DEF DeletionDone, CurOK
  <2>2. Live' \subseteq Live
    BY <2>1 DEF Live, RulesOf
  <2> QED  BY <2>1, <2>2, ShrinkKeepsExclusive
<1>14. ASSUME NEW s \in cur.pending, PruneSession(s) PROVE Exclusive'
  <2>1. UNCHANGED <<free, slot, rules>> /\ cur'.done = cur.done
    BY <1>14 DEF PruneSession, TypeOK, Request
  <2> QED  BY <2>1, ShrinkKeepsExclusive DEF Live
<1>15. ASSUME NEW p \in pdrs, PrunePdr(p) PROVE Exclusive'
  <2>1. UNCHANGED <<free, slot, rules>> /\ cur'.done = cur.done
    BY <1>15 DEF PrunePdr, TypeOK, Request
  <2> QED  BY <2>1, ShrinkKeepsExclusive DEF Live
<1>16. CASE PruneDone
  <2>1. /\ UNCHANGED <<free, slot>>
        /\ rules' = {x \in rules : x.sess[1] # cur.sess[1]}
        /\ \A x \in cur.done : x.sess[1] = cur.sess[1]
    BY <1>16 DEF PruneDone, CurOK
  <2>2. Live' \subseteq Live
    BY <2>1 DEF Live
  <2> QED  BY <2>1, <2>2, ShrinkKeepsExclusive
<1>17. CASE UNCHANGED vars
  BY <1>17, ShrinkKeepsExclusive DEF vars, Live
<1> QED
  BY <1>1, <1>2, <1>3, <1>4, <1>6, <1>7, <1>8, <1>9, <1>10, <1>11, <1>12, <1>13, <1>14,
     <1>15, <1>16, <1>17 DEF Next

\* The initial trackers are full, the slots zero and no rule is live.
LEMMA ExclusiveInit == Init => Exclusive
BY DEF Init, Exclusive, NoSharedRule, SlotsMirrorSessions, Live

\* The inductive invariant behind the two theorems below.
LEMMA ExclusiveAlways ==
    ASSUME "unknown" \notin Stress
    PROVE  Spec => [](TypeOK /\ CurOK /\ Exclusive)
<1>1. Init => TypeOK /\ CurOK /\ Exclusive
  BY TypeInit, ExclusiveInit
<1>2. TypeOK /\ CurOK /\ Exclusive /\ [Next]_vars => (TypeOK /\ CurOK /\ Exclusive)'
  BY TypeStep, ExclusiveStep
<1> QED  BY <1>1, <1>2, PTL DEF Spec

\* For any number of peers, sessions and rules, any pool sizes and any requests
\* (failing ones, PDRs that share or change addresses, PDRs left dangling), two
\* rules never share a slot and no id in use is ever free, provided peers only
\* update and remove rules they created (handlers of pfcp_session_handlers.go,
\* IdTracker, DeleteAssociation).
THEOREM RulesAreExclusive ==
    ASSUME "unknown" \notin Stress
    PROVE  Spec => []NoSharedRule
BY ExclusiveAlways, PTL DEF Exclusive

\* Under the same assumption the datapath's FARs, QERs and URRs are at every step
\* the ones the sessions hold, and free slots are zeroed.
THEOREM SlotsAlwaysMirror ==
    ASSUME "unknown" \notin Stress
    PROVE  Spec => []SlotsMirrorSessions
BY ExclusiveAlways, PTL DEF Exclusive
-----------------------------------------------------------------------------
(* Where ids get lost *)

\* A session has at most one rule with a kind and an id.
OneRow ==
    \A x, y \in rules : x.kind = y.kind /\ x.sess = y.sess /\ x.id = y.id => x = y

\* The rules a deletion is done with have given their ids back.
DoneFreed == \A x \in cur.done : SlotOf(x) \in free

\* Rules belong to stored sessions, or to the one being established; a session
\* being modified is stored.
RulesOwned ==
    /\ \A x \in rules : x.sess \in stored \/ (cur.op = "est" /\ x.sess = cur.sess)
    /\ cur.op = "mod" => cur.sess \in stored

\* DeleteAssociation passes over no FAR and no QER of the peer: it is done with
\* it, or at its session, or the session is still to come.
PruneReaches ==
    cur.op = "prune" =>
        \A x \in rules : x.sess[1] = cur.sess[1] /\ x.kind \in PrunedKinds =>
            x \in cur.done \/ x.sess = cur.sess \/ x.sess \in cur.pending

Kept == OneRow /\ DoneFreed /\ RulesOwned /\ PruneReaches

\* Fields of a request record that an EXCEPT names or leaves alone.
LEMMA RequestFields ==
    ASSUME NEW c \in Request, NEW a, NEW b, NEW d, NEW e
    PROVE  /\ LET n == [c EXCEPT !.stage = a]
              IN  n.op = c.op /\ n.sess = c.sess /\ n.done = c.done /\ n.pending = c.pending
           /\ LET n == [c EXCEPT !.stage = a, !.cache = b]
              IN  n.op = c.op /\ n.sess = c.sess /\ n.done = c.done /\ n.pending = c.pending
           /\ LET n == [c EXCEPT !.left = a, !.cache = b]
              IN  n.op = c.op /\ n.sess = c.sess /\ n.done = c.done /\ n.pending = c.pending
           /\ LET n == [c EXCEPT !.done = a]
              IN  n.op = c.op /\ n.sess = c.sess /\ n.done = a /\ n.pending = c.pending
           /\ LET n == [c EXCEPT !.sess = a, !.left = b, !.cache = d, !.pending = e]
              IN  n.op = c.op /\ n.sess = a /\ n.done = c.done /\ n.pending = e
BY DEF Request

\* A step that leaves the tables alone and only moves on in its request keeps Kept,
\* and so does one that starts a request or ends one without losing a session.
LEMMA QuietKeepsKept ==
    ASSUME Kept, UNCHANGED <<rules, free>>, stored \subseteq stored',
           cur'.done = {} \/ cur'.done = cur.done,
           cur.op = "est" => (cur'.op = "est" /\ cur'.sess = cur.sess) \/ cur.sess \in stored',
           cur'.op = "mod" => cur'.sess \in stored',
           cur'.op # "prune" \/ UNCHANGED <<cur>>
             \/ /\ cur.op = "prune" /\ cur'.sess = cur.sess
                /\ cur'.pending = cur.pending /\ cur'.done = cur.done
    PROVE  Kept'
<1>1. OneRow'
  BY DEF Kept, OneRow
<1>2. DoneFreed'
  <2>1. free' = free
    OBVIOUS
  <2>2. \A x \in cur'.done : SlotOf(x) \in free
    BY DEF Kept, DoneFreed
  <2> QED  BY <2>1, <2>2 DEF DoneFreed, SlotOf
<1>3. RulesOwned'
  BY DEF Kept, RulesOwned
<1>4. PruneReaches'
  BY DEF Kept, PruneReaches
<1> QED  BY <1>1, <1>2, <1>3, <1>4 DEF Kept

\* A request that fails drops the rules of a session it was establishing; dropping
\* the rules of other sessions than those stored keeps Kept.
LEMMA FailureKeepsKept ==
    ASSUME TypeOK, Kept, cur.op \in {"est", "mod"}, UNCHANGED <<free, stored>>,
           rules' = RulesAfterFailure, cur' = Idle
    PROVE  Kept'
<1>1. rules' \subseteq rules /\ cur'.done = {} /\ cur'.op = "idle"
  BY DEF RulesAfterFailure, Idle
<1>2. OneRow' /\ DoneFreed' /\ PruneReaches'
  BY <1>1 DEF Kept, OneRow, DoneFreed, PruneReaches
<1>3. \A x \in rules' : x.sess \in stored
  BY DEF Kept, RulesOwned, RulesAfterFailure, RulesOf
<1> QED  BY <1>1, <1>2, <1>3 DEF Kept, RulesOwned

\* Every step keeps Kept, whatever peers do.
LEMMA KeptStep == TypeOK /\ CurOK /\ Kept /\ [Next]_vars => Kept'
<1> SUFFICES ASSUME TypeOK, CurOK, Kept, [Next]_vars
             PROVE  Kept'
  OBVIOUS
<1>0. cur \in Request
  BY DEF TypeOK
<1>1. ASSUME NEW n \in Node, AssociationSetup(n) \/ EstablishmentRequest(n)
      PROVE  Kept'
  BY <1>1, QuietKeepsKept DEF AssociationSetup, EstablishmentRequest, Idle, Kept, RulesOwned
<1>2. ASSUME NEW n \in Node, PruneAssociation(n) PROVE Kept'
  <2>1. /\ UNCHANGED <<rules, free, stored>>
        /\ cur'.op = "prune" /\ cur'.sess = <<n, 0>> /\ cur'.done = {}
        /\ cur'.pending = SessionsOf(n)
        /\ cur.op = "idle"
    BY <1>2 DEF PruneAssociation, Idle
  <2>2. \A x \in rules' : x.sess \in stored
    BY <2>1 DEF Kept, RulesOwned
  <2>3. OneRow' /\ DoneFreed' /\ RulesOwned'
    BY <2>1, <2>2 DEF Kept, OneRow, DoneFreed, RulesOwned
  <2>4. PruneReaches'
    BY <2>1, <2>2 DEF PruneReaches, SessionsOf
  <2> QED  BY <2>3, <2>4 DEF Kept
<1>3. CASE RejectRequest
  BY <1>3, QuietKeepsKept DEF RejectRequest, Kept, RulesOwned
<1>4. ASSUME NEW s \in stored, ModificationRequest(s) \/ DeletionRequest(s)
      PROVE  Kept'
  BY <1>4, QuietKeepsKept DEF ModificationRequest, DeletionRequest, Idle
<1>5. ASSUME NEW k, NEW r, NEW new, NEW o,
             cur.op \in {"est", "mod"}, UNCHANGED stored,
             cur' = [cur EXCEPT !.stage = o],
             new.kind = k, new.sess = cur.sess, new.id = r,
             rules' \subseteq (rules \ RuleAt(k, cur.sess, r)) \cup {new}
      PROVE  Kept'
  <2>1. cur'.op = cur.op /\ cur'.sess = cur.sess /\ cur'.done = {}
    BY <1>0, <1>5, RequestFields DEF CurOK
  <2>2. OneRow'
    BY <1>5 DEF Kept, OneRow, RuleAt
  <2>3. DoneFreed' /\ PruneReaches'
    BY <1>5, <2>1 DEF DoneFreed, PruneReaches
  <2>4. RulesOwned'
    BY <1>5, <2>1 DEF Kept, RulesOwned, RuleAt
  <2> QED  BY <2>2, <2>3, <2>4 DEF Kept
<1>6. ASSUME NEW k \in Kind, NEW r \in RuleId[k], NEW i \in InfoOf(k),
             CreateRule(k, r, i) \/ UpdateRule(k, r, i)
      PROVE  Kept'
  <2>1. PICK g : rules' = (rules \ RuleAt(k, cur.sess, r)) \cup
                   {[kind |-> k, sess |-> cur.sess, id |-> r, gid |-> g, info |-> i]}
    BY <1>6 DEF CreateRule, UpdateRule
  <2> DEFINE new == [kind |-> k, sess |-> cur.sess, id |-> r, gid |-> g, info |-> i]
  <2>2. new.kind = k /\ new.sess = cur.sess /\ new.id = r
    OBVIOUS
  <2>3. PICK o : cur' = [cur EXCEPT !.stage = o]
    BY <1>6 DEF CreateRule, UpdateRule
  <2>4. cur.op \in {"est", "mod"} /\ UNCHANGED stored
    BY <1>6 DEF CreateRule, MayCreate, UpdateRule, Reached
  <2>5. rules' \subseteq (rules \ RuleAt(k, cur.sess, r)) \cup {new}
    BY <2>1
  <2> HIDE DEF new
  <2> QED  BY <1>5, <2>2, <2>3, <2>4, <2>5
<1>7. ASSUME NEW k \in Kind, NEW r \in RuleId[k], RemoveRule(k, r) PROVE Kept'
  <2>1. rules' = rules \ RuleAt(k, cur.sess, r)
    BY <1>7 DEF RemoveRule
  <2>2. cur' = [cur EXCEPT !.stage = Stage(k, "remove")]
    BY <1>7 DEF RemoveRule
  <2>3. cur.op \in {"est", "mod"} /\ UNCHANGED stored
    BY <1>7 DEF RemoveRule, Reached
  <2> DEFINE new == [kind |-> k, sess |-> cur.sess, id |-> r]
  <2>4. new.kind = k /\ new.sess = cur.sess /\ new.id = r
    OBVIOUS
  <2> HIDE DEF new
  <2> QED  BY <1>5, <2>1, <2>2, <2>3, <2>4
<1>8. ASSUME NEW o \in {"create", "update"}, NEW i \in PdrId, NEW loc \in Loc,
             NEW sdf \in Sdf, NEW f, NEW q, PutPdr(o, i, f, q, loc, sdf)
      PROVE  Kept'
  <2>1. /\ cur.op \in {"est", "mod"}
        /\ UNCHANGED <<free, stored>>
        /\ \/ rules' = rules /\ cur' = [cur EXCEPT !.stage = Stage("pdr", o)]
           \/ rules' = RulesAfterFailure /\ cur' = Idle
    BY <1>8 DEF PutPdr, Reached
  <2>2. CASE rules' = rules /\ cur' = [cur EXCEPT !.stage = Stage("pdr", o)]
    <3>1. cur'.op = cur.op /\ cur'.sess = cur.sess /\ cur'.done = cur.done
      BY <1>0, <2>2, RequestFields
    <3> QED  BY <2>1, <2>2, <3>1, QuietKeepsKept DEF Kept, RulesOwned
  <2> QED  BY <2>1, <2>2, FailureKeepsKept
<1>9. ASSUME NEW p \in pdrs, RemovePdr(p) PROVE Kept'
  <2>1. /\ cur.op = "mod"
        /\ UNCHANGED <<free, rules, stored>>
        /\ \/ cur' = Idle
           \/ cur' = [cur EXCEPT !.stage = Stage("pdr", "remove"), !.cache = CacheWith(p)]
    BY <1>9 DEF RemovePdr, Reached
  <2>2. CASE cur' = Idle
    BY <2>1, <2>2, QuietKeepsKept DEF Idle
  <2>3. CASE cur' = [cur EXCEPT !.stage = Stage("pdr", "remove"), !.cache = CacheWith(p)]
    <3>1. cur'.op = cur.op /\ cur'.sess = cur.sess /\ cur'.done = cur.done
      BY <1>0, <2>3, RequestFields
    <3> QED  BY <2>1, <3>1, QuietKeepsKept DEF Kept, RulesOwned
  <2> QED  BY <2>1, <2>2, <2>3
<1>10. CASE RequestFails
  BY <1>10, FailureKeepsKept DEF RequestFails
<1>11. CASE RequestDone
  BY <1>11, QuietKeepsKept DEF RequestDone, Idle
<1>12. ASSUME NEW p \in pdrs, DeletionPdr(p) PROVE Kept'
  <2>1. /\ cur.op = "del"
        /\ UNCHANGED <<free, rules, stored>>
        /\ \/ cur' = Idle
           \/ cur' = [cur EXCEPT !.left = cur.left \ {p}, !.cache = CacheWith(p)]
    BY <1>12 DEF DeletionPdr
  <2>2. CASE cur' = Idle
    BY <2>1, <2>2, QuietKeepsKept DEF Idle
  <2>3. CASE cur' = [cur EXCEPT !.left = cur.left \ {p}, !.cache = CacheWith(p)]
    <3>1. cur'.op = cur.op /\ cur'.sess = cur.sess /\ cur'.done = cur.done
      BY <1>0, <2>3, RequestFields
    <3> QED  BY <2>1, <3>1, QuietKeepsKept
  <2> QED  BY <2>1, <2>2, <2>3
<1>13. ASSUME NEW x \in rules, DeletionRule(x) \/ PruneRule(x) PROVE Kept'
  <2>1. PICK kinds \in {Kind, PrunedKinds} :
          ReleaseNext(kinds, x) /\ UNCHANGED <<rules, stored>> /\ cur.op \in {"del", "prune"}
    BY <1>13 DEF DeletionRule, PruneRule
  <2>2. free' = free \cup {SlotOf(x)} /\ cur' = [cur EXCEPT !.done = cur.done \cup {x}]
    BY <2>1 DEF ReleaseNext, SlotOf
  <2>3. /\ cur'.op = cur.op /\ cur'.sess = cur.sess /\ cur'.pending = cur.pending
        /\ cur'.done = cur.done \cup {x}
    BY <1>0, <2>2, RequestFields
  <2>4. OneRow' /\ RulesOwned' /\ PruneReaches'
    BY <2>1, <2>3 DEF Kept, OneRow, RulesOwned, PruneReaches
  <2>5. \A y \in cur'.done : SlotOf(y) \in free'
    BY <2>2, <2>3 DEF Kept, DoneFreed
  <2> QED  BY <2>4, <2>5 DEF Kept, DoneFreed, SlotOf
<1>14. CASE DeletionDone
  <2>1. /\ UNCHANGED <<free>>
        /\ rules' = rules \ RulesOf(cur.sess)
        /\ stored' = stored \ {cur.sess}
        /\ cur'.op = "idle" /\ cur'.done = {} /\ cur.op = "del"
    BY <1>14 DEF DeletionDone, Idle
  <2> QED  BY <2>1 DEF Kept, OneRow, DoneFreed, RulesOwned, PruneReaches, RulesOf
<1>15. ASSUME NEW s \in cur.pending, PruneSession(s) PROVE Kept'
  <2>1. /\ UNCHANGED <<free, rules, stored>>
        /\ cur.op = "prune" /\ cur'.op = "prune" /\ cur'.sess = s
        /\ cur'.done = cur.done /\ cur'.pending = cur.pending \ {s}
    BY <1>15 DEF PruneSession, TypeOK, Request
  <2>2. s[1] = cur.sess[1] /\ Remaining(PrunedKinds) = {}
    BY <1>15 DEF PruneSession, SessionPruned, CurOK
  <2>3. \A x \in rules : x.sess = cur.sess /\ x.kind \in PrunedKinds => x \in cur.done
    BY <2>2 DEF Remaining, RulesOf
  <2>4. PruneReaches'
    BY <2>1, <2>2, <2>3 DEF Kept, PruneReaches
  <2>5. OneRow' /\ DoneFreed' /\ RulesOwned'
    BY <2>1 DEF Kept, OneRow, DoneFreed, RulesOwned, SlotOf
  <2> QED  BY <2>4, <2>5 DEF Kept
<1>16. ASSUME NEW p \in pdrs, PrunePdr(p) PROVE Kept'
  <2>1. PICK cache : /\ cur.op = "prune"
                     /\ UNCHANGED <<free, rules, stored>>
                     /\ cur' = [cur EXCEPT !.left = cur.left \ {p}, !.cache = cache]
    BY <1>16 DEF PrunePdr
  <2>2. /\ cur'.op = cur.op /\ cur'.sess = cur.sess /\ cur'.done = cur.done
        /\ cur'.pending = cur.pending
    BY <1>0, <2>1, RequestFields
  <2> QED  BY <2>1, <2>2, QuietKeepsKept
<1>17. CASE PruneDone
  <2>1. /\ UNCHANGED <<free>>
        /\ rules' = {x \in rules : x.sess[1] # cur.sess[1]}
        /\ stored' = stored \ SessionsOf(cur.sess[1])
        /\ cur'.op = "idle" /\ cur'.done = {} /\ cur.op = "prune"
    BY <1>17 DEF PruneDone, Idle
  <2> QED  BY <2>1 DEF Kept, OneRow, DoneFreed, RulesOwned, PruneReaches, SessionsOf
<1>18. CASE UNCHANGED vars
  BY <1>18, QuietKeepsKept DEF vars, Kept, RulesOwned
<1> QED
  BY <1>1, <1>2, <1>3, <1>4, <1>6, <1>7, <1>8, <1>9, <1>10, <1>11, <1>12, <1>13, <1>14,
     <1>15, <1>16, <1>17, <1>18 DEF Next

\* The inductive invariant behind LeaksOnlyWhereKnown, for every Stress.
LEMMA KeptAlways == Spec => [](TypeOK /\ CurOK /\ Kept)
<1>1. Init => TypeOK /\ CurOK /\ Kept
  BY TypeInit DEF Init, Idle, Kept, OneRow, DoneFreed, RulesOwned, PruneReaches
<1>2. TypeOK /\ CurOK /\ Kept /\ [Next]_vars => (TypeOK /\ CurOK /\ Kept)'
  BY TypeStep, KeptStep
<1> QED  BY <1>1, <1>2, PTL DEF Spec

Known(p) ==
    \/ cur.op = "est" /\ reply' = "failure"
    \/ cur.op = "prune" /\ p[1] = "urr"
    \/ /\ "reuse" \in Stress
       /\ \E x \in rules \ rules', y \in rules' \ rules :
            SlotOf(x) = p /\ x.kind = y.kind /\ x.sess = y.sess /\ x.id = y.id

\* An id that gets lost in a step was free or held before.
LEMMA LostWas ==
    ASSUME NEW p \in Lost' \ Lost
    PROVE  /\ p \in free \/ \E x \in rules : p = SlotOf(x)
           /\ p \notin free'
           /\ \A x \in rules' : p # SlotOf(x)
BY DEF Lost, SlotOf

\* A step that gives back no fewer ids and drops no rule loses none.
LEMMA NothingLost ==
    ASSUME free \subseteq free',
           \A x \in rules : SlotOf(x) \in free' \/ \E y \in rules' : SlotOf(y) = SlotOf(x),
           NEW p \in Lost' \ Lost
    PROVE  FALSE
BY LostWas

\* Every step that loses an id is one of the three.
LEMMA LeakStep ==
    ASSUME TypeOK, CurOK, Kept, Next, NEW p \in Lost' \ Lost
    PROVE  Known(p)
<1>1. ASSUME UNCHANGED <<rules, free>> PROVE FALSE
  BY <1>1, NothingLost
<1>2. ASSUME NEW n \in Node,
             AssociationSetup(n) \/ EstablishmentRequest(n) \/ PruneAssociation(n)
      PROVE  FALSE
  BY <1>1, <1>2 DEF AssociationSetup, EstablishmentRequest, PruneAssociation
<1>3. CASE RejectRequest
  BY <1>1, <1>3 DEF RejectRequest
<1>4. ASSUME NEW s \in stored, ModificationRequest(s) \/ DeletionRequest(s)
      PROVE  FALSE
  BY <1>1, <1>4 DEF ModificationRequest, DeletionRequest
<1>5. ASSUME NEW k \in Kind, NEW r \in RuleId[k], NEW i \in InfoOf(k), CreateRule(k, r, i)
      PROVE  Known(p)
  <2>1. PICK u \in free : /\ u[1] = k
                          /\ free' = free \ {u}
                          /\ rules' = (rules \ RuleAt(k, cur.sess, r)) \cup
                               {[kind |-> k, sess |-> cur.sess, id |-> r, gid |-> u[2], info |-> i]}
    BY <1>5 DEF CreateRule
  <2> DEFINE new == [kind |-> k, sess |-> cur.sess, id |-> r, gid |-> u[2], info |-> i]
  <2>2. new \in rules' /\ SlotOf(new) = u
    BY <2>1, SlotMembers DEF TypeOK, SlotOf
  <2>3. new.kind = k /\ new.sess = cur.sess /\ new.id = r
    OBVIOUS
  <2>4. rules' = (rules \ RuleAt(k, cur.sess, r)) \cup {new}
    BY <2>1
  <2> HIDE DEF new
  <2>5. PICK x \in rules : p = SlotOf(x)
    BY <2>1, <2>2, LostWas
  <2>6. x \notin rules' /\ x \in RuleAt(k, cur.sess, r)
    BY <2>4, <2>5, LostWas
  <2>7. new \notin rules
    BY <2>2, <2>3, <2>6 DEF Kept, OneRow, RuleAt
  <2>8. "reuse" \in Stress
    BY <1>5, <2>6 DEF CreateRule, MayCreate
  <2>9. x.kind = new.kind /\ x.sess = new.sess /\ x.id = new.id
    BY <2>3, <2>6 DEF RuleAt
  <2> QED  BY <2>2, <2>5, <2>6, <2>7, <2>8, <2>9 DEF Known
<1>6. ASSUME NEW k \in Kind, NEW s, NEW r, NEW x \in RuleAt(k, s, r)
      PROVE  SlotOf(x) = <<k, GlobalId(k, s, r)>>
  <2>1. PICK y \in RuleAt(k, s, r) : GlobalId(k, s, r) = y.gid
    BY <1>6 DEF GlobalId
  <2>2. x = y
    BY <2>1 DEF Kept, OneRow, RuleAt
  <2> QED  BY <2>1, <2>2 DEF RuleAt, SlotOf
<1>7. ASSUME NEW k \in Kind, NEW r \in RuleId[k], NEW i \in InfoOf(k), UpdateRule(k, r, i)
      PROVE  FALSE
  <2> DEFINE g == GlobalId(k, cur.sess, r)
             new == [kind |-> k, sess |-> cur.sess, id |-> r, gid |-> g, info |-> i]
  <2>1. free' = free /\ rules' = (rules \ RuleAt(k, cur.sess, r)) \cup {new}
    BY <1>7 DEF UpdateRule
  <2>2. SlotOf(new) = <<k, g>>
    BY DEF SlotOf
  <2>3. \A x \in rules : x \in rules' \/ SlotOf(x) = <<k, g>>
    BY <1>6, <2>1
  <2> HIDE DEF g, new
  <2> QED  BY <2>1, <2>2, <2>3, NothingLost
<1>8. ASSUME NEW k \in Kind, NEW r \in RuleId[k], RemoveRule(k, r) PROVE FALSE
  <2>1. /\ rules' = rules \ RuleAt(k, cur.sess, r)
        /\ free' = free \cup {<<k, GlobalId(k, cur.sess, r)>>}
    BY <1>8 DEF RemoveRule
  <2>2. \A x \in rules : x \in rules' \/ SlotOf(x) \in free'
    BY <1>6, <2>1
  <2> QED  BY <2>1, <2>2, NothingLost
<1>9. ASSUME cur.op \in {"est", "mod"}, rules' = RulesAfterFailure, UNCHANGED free,
             reply' = "failure"
      PROVE  Known(p)
  BY <1>1, <1>9 DEF RulesAfterFailure, Known
<1>10. ASSUME NEW o \in {"create", "update"}, NEW i \in PdrId, NEW loc \in Loc,
              NEW sdf \in Sdf, NEW f, NEW q, PutPdr(o, i, f, q, loc, sdf)
       PROVE  Known(p)
  <2>1. /\ cur.op \in {"est", "mod"}
        /\ UNCHANGED free
        /\ rules' = rules \/ (rules' = RulesAfterFailure /\ reply' = "failure")
    BY <1>10 DEF PutPdr, Reached
  <2> QED  BY <1>1, <1>9, <2>1
<1>11. ASSUME NEW d \in pdrs, RemovePdr(d) \/ DeletionPdr(d) \/ PrunePdr(d) PROVE FALSE
  BY <1>1, <1>11 DEF RemovePdr, DeletionPdr, PrunePdr
<1>12. CASE RequestFails
  BY <1>9, <1>12 DEF RequestFails
<1>13. CASE RequestDone
  BY <1>1, <1>13 DEF RequestDone
<1>14. ASSUME NEW x \in rules, DeletionRule(x) \/ PruneRule(x) PROVE FALSE
  <2>1. free \subseteq free' /\ rules' = rules
    BY <1>14 DEF DeletionRule, PruneRule, ReleaseNext
  <2> QED  BY <2>1, NothingLost
<1>15. CASE DeletionDone
  <2>1. free' = free /\ rules' = rules \ RulesOf(cur.sess) /\ Remaining(Kind) = {}
    BY <1>15 DEF DeletionDone
  <2>2. \A x \in RulesOf(cur.sess) : x \in cur.done
    BY <2>1 DEF Remaining, RulesOf, TypeOK, RuleRow
  <2>3. \A x \in rules : x \in rules' \/ SlotOf(x) \in free'
    BY <2>1, <2>2 DEF Kept, DoneFreed
  <2> QED  BY <2>1, <2>3, NothingLost
<1>16. ASSUME NEW s \in cur.pending, PruneSession(s) PROVE FALSE
  BY <1>1, <1>16 DEF PruneSession
<1>17. CASE PruneDone
  <2>1. /\ free' = free
        /\ rules' = {x \in rules : x.sess[1] # cur.sess[1]}
        /\ Remaining(PrunedKinds) = {} /\ cur.pending = {} /\ cur.op = "prune"
    BY <1>17 DEF PruneDone, SessionPruned
  <2>2. PICK x \in rules : p = SlotOf(x) /\ x \notin rules' /\ p \notin free
    BY <2>1, LostWas
  <2>3. x \notin cur.done /\ x.sess[1] = cur.sess[1]
    BY <2>1, <2>2 DEF Kept, DoneFreed
  <2>4. x.kind \notin PrunedKinds
    BY <2>1, <2>2, <2>3 DEF Kept, PruneReaches, Remaining, RulesOf
  <2>5. x.kind = "urr"
    BY <2>4 DEF TypeOK, RuleRow, Kind, PrunedKinds
  <2> QED  BY <2>1, <2>2, <2>5 DEF Known, SlotOf
<1> QED
  BY <1>2, <1>3, <1>4, <1>5, <1>7, <1>8, <1>10, <1>11, <1>12, <1>13, <1>14,
     <1>15, <1>16, <1>17 DEF Next

\* Whatever peers send, ids are lost in three places only: establishments that
\* fail, URRs of pruned associations, and creates that overwrite a rule
\* (handlers of pfcp_session_handlers.go, DeleteSession of pfcp_connection.go).
THEOREM LeaksAreKnown == Spec => LeaksOnlyWhereKnown
<1>1. TypeOK /\ CurOK /\ Kept /\ [Next]_vars =>
        [\A p \in Lost' \ Lost : Known(p)]_vars
  BY LeakStep
<1> QED  BY <1>1, KeptAlways, PTL DEF Spec, LeaksOnlyWhereKnown, Known

-----------------------------------------------------------------------------
(* The slots are a pool *)

HolderOf(x) == <<x.kind, x.sess, x.id>>

\* The pool as IdPool sees it: who is where, before and after a step.
LEMMA PlacesAre ==
    /\ \A p \in Slot : \A z : z \in SlotPlaces[p] <=>
         \/ \E y \in Live : SlotOf(y) = p /\ z = HolderOf(y)
         \/ p \in free /\ z = <<>>
    /\ \A p \in Slot : \A z : z \in SlotPlaces'[p] <=>
         \/ \E y \in Live' : SlotOf(y) = p /\ z = HolderOf(y)
         \/ p \in free' /\ z = <<>>
    /\ \A x : HolderOf(x) # <<>>
<1>1. \A x : HolderOf(x) # <<>>
  BY DEF HolderOf
<1>2. ASSUME NEW p \in Slot, NEW z
      PROVE  z \in SlotPlaces[p] <=>
               \/ \E y \in Live : SlotOf(y) = p /\ z = HolderOf(y)
               \/ p \in free /\ z = <<>>
  BY DEF SlotPlaces, HolderOf
<1>3. ASSUME NEW p \in Slot, NEW z
      PROVE  z \in SlotPlaces'[p] <=>
               \/ \E y \in Live' : SlotOf(y) = p /\ z = HolderOf(y)
               \/ p \in free' /\ z = <<>>
  BY DEF SlotPlaces, HolderOf, SlotOf
<1> QED  BY <1>1, <1>2, <1>3

\* The places are a function on the slots.
LEMMA PlacesFunction ==
    /\ SlotPlaces = [p \in Slot |-> SlotPlaces[p]]
    /\ SlotPlaces' = [p \in Slot |-> SlotPlaces'[p]]
BY DEF SlotPlaces

\* A step after which the same rules have the same slots is no step of the pool.
LEMMA PlacesStay ==
    ASSUME UNCHANGED free,
           \A y \in Live : \E z \in Live' : SlotOf(z) = SlotOf(y) /\ HolderOf(z) = HolderOf(y),
           \A y \in Live' : \E z \in Live : SlotOf(z) = SlotOf(y) /\ HolderOf(z) = HolderOf(y)
    PROVE  UNCHANGED SlotPlaces
<1>1. ASSUME NEW p \in Slot PROVE SlotPlaces'[p] = SlotPlaces[p]
  <2>1. \A z : z \in SlotPlaces'[p] <=> z \in SlotPlaces[p]
    BY PlacesAre
  <2> QED  BY <2>1
<1> QED  BY <1>1, PlacesFunction

\* Giving back the slot of a live rule.
LEMMA PlaceReleased ==
    ASSUME TypeOK, NoSharedRule, OneRow, NEW x \in Live,
           free' = free \cup {SlotOf(x)}, Live' = Live \ {x}
    PROVE  Trackers!Next
<1> DEFINE H == {HolderOf(x)}
<1>1. SlotOf(x) \in Slot
  BY LiveSlots DEF Live
<1>2. \A y \in Live : HolderOf(y) = HolderOf(x) => y = x
  BY DEF OneRow, Live, HolderOf
<1>3. \A y \in Live : SlotOf(y) = SlotOf(x) => y = x
  BY DEF NoSharedRule
<1>4. HolderOf(x) \in SlotPlaces[SlotOf(x)]
  BY <1>1, PlacesAre
<1>5. SlotPlaces'[SlotOf(x)] = {<<>>}
  <2>1. \A z : z \in SlotPlaces'[SlotOf(x)] <=> z = <<>>
    BY <1>1, <1>3, PlacesAre
  <2> QED  BY <2>1
<1>6. ASSUME NEW p \in Slot, p # SlotOf(x)
      PROVE  SlotPlaces[p] \cap H = {} /\ SlotPlaces'[p] = SlotPlaces[p]
  <2>1. HolderOf(x) \notin SlotPlaces[p]
    BY <1>2, <1>6, PlacesAre
  <2>2. \A z : z \in SlotPlaces'[p] <=> z \in SlotPlaces[p]
    BY <1>6, PlacesAre
  <2> QED  BY <2>1, <2>2
<1>7. ASSUME NEW p \in Slot
      PROVE  SlotPlaces'[p] = IF SlotPlaces[p] \cap H # {} THEN {<<>>} ELSE SlotPlaces[p]
  BY <1>4, <1>5, <1>6
<1>8. H \in SUBSET Trackers!Holders
  BY <1>1, <1>4, PlacesAre DEF Trackers!Holders
<1> HIDE DEF H
<1>9. Trackers!Release(H)
  BY <1>7, PlacesFunction DEF Trackers!Release
<1> QED  BY <1>8, <1>9 DEF Trackers!Next

\* Rules R that go without giving their slots back.
LEMMA PlacesForgotten ==
    ASSUME TypeOK, UNCHANGED free, NEW R \in SUBSET Live, Live' = Live \ R,
           \A x \in R, y \in Live : HolderOf(x) = HolderOf(y) => y \in R
    PROVE  Trackers!LossyNext
<1> DEFINE H == {HolderOf(x) : x \in R}
<1>1. ASSUME NEW p \in Slot PROVE SlotPlaces'[p] = SlotPlaces[p] \ H
  <2>1. \A z : z \in SlotPlaces'[p] <=> z \in SlotPlaces[p] /\ z \notin H
    BY PlacesAre
  <2> QED  BY <2>1
<1>2. H \in SUBSET Trackers!Holders
  <2> SUFFICES ASSUME NEW x \in R PROVE HolderOf(x) \in Trackers!Holders
    OBVIOUS
  <2>1. SlotOf(x) \in Slot
    BY LiveSlots DEF Live
  <2>2. HolderOf(x) \in SlotPlaces[SlotOf(x)] /\ HolderOf(x) # <<>>
    BY <2>1, PlacesAre
  <2> QED  BY <2>1, <2>2 DEF Trackers!Holders
<1> HIDE DEF H
<1>3. Trackers!Forget(H)
  BY <1>1, PlacesFunction DEF Trackers!Forget
<1> QED  BY <1>2, <1>3 DEF Trackers!LossyNext

\* A create takes a free slot; a rule it overwrites loses its own.
LEMMA PlaceTaken ==
    ASSUME TypeOK, NoSharedRule, NEW u \in free, NEW new, SlotOf(new) = u,
           HolderOf(new) \in Kind \X Sess \X UNION {RuleId[k] : k \in Kind},
           free' = free \ {u},
           Live' = {y \in Live : HolderOf(y) # HolderOf(new)} \cup {new}
    PROVE  Trackers!Next
<1>1. u \in Slot
  BY DEF TypeOK
<1>2. \A y \in Live : SlotOf(y) # u
  BY DEF NoSharedRule
<1>3. SlotPlaces[u] = {<<>>}
  <2>1. \A z : z \in SlotPlaces[u] <=> z = <<>>
    BY <1>1, <1>2, PlacesAre
  <2> QED  BY <2>1
<1>4. SlotPlaces'[u] = {HolderOf(new)}
  <2>1. \A z : z \in SlotPlaces'[u] <=> z = HolderOf(new)
    BY <1>1, <1>2, PlacesAre
  <2> QED  BY <2>1
<1>5. ASSUME NEW p \in Slot, p # u
      PROVE  SlotPlaces'[p] = SlotPlaces[p] \ {HolderOf(new)}
  <2>1. \A z : z \in SlotPlaces'[p] <=> z \in SlotPlaces[p] /\ z # HolderOf(new)
    BY <1>5, PlacesAre
  <2> QED  BY <2>1
<1>6. Trackers!Take(u, HolderOf(new))
  BY <1>4, <1>5, PlacesFunction DEF Trackers!Take
<1>7. u \in Trackers!FreeIds
  BY <1>1, <1>3 DEF Trackers!FreeIds
<1> QED  BY <1>6, <1>7 DEF Trackers!Next

\* Every step of every handler is a step of the pool or none.
LEMMA TrackersStep ==
    ASSUME "unknown" \notin Stress, TypeOK, CurOK, Exclusive, Kept, [Next]_vars
    PROVE  [Trackers!LossyNext]_SlotPlaces
<1>0. cur \in Request /\ NoSharedRule /\ OneRow
  BY DEF TypeOK, Exclusive, Kept
<1>1. ASSUME UNCHANGED free, Live' = Live PROVE UNCHANGED SlotPlaces
  BY <1>1, PlacesStay
<1>2. ASSUME NEW n \in Node,
             AssociationSetup(n) \/ EstablishmentRequest(n) \/ PruneAssociation(n)
      PROVE  UNCHANGED SlotPlaces
  <2>1. UNCHANGED <<free, rules>> /\ cur'.done = cur.done
    BY <1>2 DEF AssociationSetup, EstablishmentRequest, PruneAssociation, Idle, CurOK
  <2> QED  BY <1>1, <2>1 DEF Live
<1>3. CASE RejectRequest
  BY <1>1, <1>3 DEF RejectRequest, Live
<1>4. ASSUME NEW s \in stored, ModificationRequest(s) \/ DeletionRequest(s)
      PROVE  UNCHANGED SlotPlaces
  <2>1. UNCHANGED <<free, rules>> /\ cur'.done = cur.done
    BY <1>4 DEF ModificationRequest, DeletionRequest, Idle, CurOK
  <2> QED  BY <1>1, <2>1 DEF Live
<1>5. ASSUME cur.op \in {"est", "mod"}, NEW o, cur' = [cur EXCEPT !.stage = o]
      PROVE  Live = rules /\ Live' = rules' /\ cur.sess \in Sess
  <2>1. cur.done = {} /\ cur'.done = {}
    BY <1>0, <1>5, RequestFields DEF CurOK
  <2> QED  BY <1>5, <2>1 DEF Live, CurOK
<1>6. ASSUME NEW k, NEW r
      PROVE  \A y \in rules : y \in RuleAt(k, cur.sess, r) <=> HolderOf(y) = <<k, cur.sess, r>>
  BY DEF RuleAt, HolderOf
<1>7. ASSUME NEW k \in Kind, NEW r \in RuleId[k], NEW i \in InfoOf(k), CreateRule(k, r, i)
      PROVE  Trackers!Next
  <2>1. Live = rules /\ Live' = rules' /\ cur.sess \in Sess
    BY <1>5, <1>7 DEF CreateRule, MayCreate, Reached
  <2>2. PICK u \in free : /\ u[1] = k
                          /\ free' = free \ {u}
                          /\ rules' = (rules \ RuleAt(k, cur.sess, r)) \cup
                               {[kind |-> k, sess |-> cur.sess, id |-> r, gid |-> u[2], info |-> i]}
    BY <1>7 DEF CreateRule
  <2> DEFINE new == [kind |-> k, sess |-> cur.sess, id |-> r, gid |-> u[2], info |-> i]
  <2>3. SlotOf(new) = u /\ HolderOf(new) = <<k, cur.sess, r>>
    BY <2>2, SlotMembers DEF SlotOf, HolderOf, TypeOK
  <2>4. rules' = (rules \ RuleAt(k, cur.sess, r)) \cup {new}
    BY <2>2
  <2> HIDE DEF new
  <2>5. Live' = {y \in Live : HolderOf(y) # HolderOf(new)} \cup {new}
    BY <1>6, <2>1, <2>3, <2>4
  <2>6. HolderOf(new) \in Kind \X Sess \X UNION {RuleId[j] : j \in Kind}
    BY <2>1, <2>3
  <2> QED  BY <1>0, <2>2, <2>3, <2>5, <2>6, PlaceTaken
<1>8. ASSUME NEW k \in Kind, NEW r, RuleAt(k, cur.sess, r) # {}
      PROVE  \E x \in rules : /\ RuleAt(k, cur.sess, r) = {x}
                              /\ SlotOf(x) = <<k, GlobalId(k, cur.sess, r)>>
                              /\ HolderOf(x) = <<k, cur.sess, r>>
  <2>1. PICK x \in RuleAt(k, cur.sess, r) : GlobalId(k, cur.sess, r) = x.gid
    BY <1>8 DEF GlobalId
  <2>2. RuleAt(k, cur.sess, r) = {x}
    BY <1>0, <2>1 DEF OneRow, RuleAt
  <2> QED  BY <2>1, <2>2 DEF RuleAt, SlotOf, HolderOf
<1>9. ASSUME NEW k \in Kind, NEW r \in RuleId[k], NEW i \in InfoOf(k), UpdateRule(k, r, i)
      PROVE  UNCHANGED SlotPlaces
  <2>1. Live = rules /\ Live' = rules'
    BY <1>5, <1>9 DEF UpdateRule, Reached
  <2> DEFINE g == GlobalId(k, cur.sess, r)
             new == [kind |-> k, sess |-> cur.sess, id |-> r, gid |-> g, info |-> i]
  <2>2. /\ rules' = (rules \ RuleAt(k, cur.sess, r)) \cup {new}
        /\ free' = free
        /\ RuleAt(k, cur.sess, r) # {}
    BY <1>9 DEF UpdateRule
  <2>3. SlotOf(new) = <<k, g>> /\ HolderOf(new) = <<k, cur.sess, r>>
    BY DEF SlotOf, HolderOf
  <2>4. PICK x \in rules : /\ RuleAt(k, cur.sess, r) = {x}
                           /\ SlotOf(x) = <<k, g>> /\ HolderOf(x) = <<k, cur.sess, r>>
    BY <1>8, <2>2
  <2> HIDE DEF g, new
  <2> QED  BY <2>1, <2>2, <2>3, <2>4, PlacesStay
<1>10. ASSUME NEW k \in Kind, NEW r \in RuleId[k], RemoveRule(k, r) PROVE Trackers!Next
  <2>1. Live = rules /\ Live' = rules'
    BY <1>5, <1>10 DEF RemoveRule, Reached
  <2>2. /\ rules' = rules \ RuleAt(k, cur.sess, r)
        /\ free' = free \cup {<<k, GlobalId(k, cur.sess, r)>>}
        /\ RuleAt(k, cur.sess, r) # {}
    BY <1>10 DEF RemoveRule
  <2>3. PICK x \in rules : /\ RuleAt(k, cur.sess, r) = {x}
                           /\ SlotOf(x) = <<k, GlobalId(k, cur.sess, r)>>
    BY <1>8, <2>2
  <2> QED  BY <1>0, <2>1, <2>2, <2>3, PlaceReleased
<1>11. ASSUME cur.op \in {"est", "mod"}, rules' = RulesAfterFailure, UNCHANGED free, cur' = Idle
       PROVE  Trackers!LossyNext
  <2>1. Live = rules /\ Live' = rules'
    BY <1>11 DEF Live, CurOK, Idle
  <2>2. PICK R : /\ R \in SUBSET rules /\ rules' = rules \ R
                 /\ R = {} \/ R = RulesOf(cur.sess)
    BY <1>11 DEF RulesAfterFailure, RulesOf
  <2>3. \A x \in R, y \in Live : HolderOf(x) = HolderOf(y) => y \in R
    BY <2>1, <2>2 DEF RulesOf, HolderOf
  <2> QED  BY <1>11, <2>1, <2>2, <2>3, PlacesForgotten
<1>12. ASSUME NEW o \in {"create", "update"}, NEW i \in PdrId, NEW loc \in Loc,
              NEW sdf \in Sdf, NEW f, NEW q, PutPdr(o, i, f, q, loc, sdf)
       PROVE  Trackers!LossyNext \/ UNCHANGED SlotPlaces
  <2>1. /\ cur.op \in {"est", "mod"}
        /\ UNCHANGED free
        /\ \/ rules' = rules /\ cur' = [cur EXCEPT !.stage = Stage("pdr", o)]
           \/ rules' = RulesAfterFailure /\ cur' = Idle
    BY <1>12 DEF PutPdr, Reached
  <2> QED  BY <1>1, <1>5, <1>11, <2>1
<1>13. ASSUME UNCHANGED <<free, rules>>, cur.done = {},
              cur' = Idle \/ cur'.done = cur.done
       PROVE  UNCHANGED SlotPlaces
  BY <1>1, <1>13 DEF Live, Idle
<1>14. ASSUME NEW p \in pdrs, RemovePdr(p) PROVE UNCHANGED SlotPlaces
  <2>1. /\ cur.op = "mod"
        /\ UNCHANGED <<free, rules>>
        /\ \/ cur' = Idle
           \/ cur' = [cur EXCEPT !.stage = Stage("pdr", "remove"), !.cache = CacheWith(p)]
    BY <1>14 DEF RemovePdr, Reached
  <2>2. cur.done = {}
    BY <2>1 DEF CurOK
  <2>3. [cur EXCEPT !.stage = Stage("pdr", "remove"), !.cache = CacheWith(p)].done = cur.done
    BY <1>0, DoneKept
  <2> QED  BY <1>13, <2>1, <2>2, <2>3
<1>15. ASSUME NEW p \in pdrs, DeletionPdr(p) PROVE UNCHANGED SlotPlaces
  <2>1. /\ cur.op = "del" /\ cur.left # {}
        /\ UNCHANGED <<free, rules>>
        /\ \/ cur' = Idle
           \/ cur' = [cur EXCEPT !.left = cur.left \ {p}, !.cache = CacheWith(p)]
    BY <1>15 DEF DeletionPdr
  <2>2. cur.done = {}
    BY <2>1 DEF CurOK
  <2>3. [cur EXCEPT !.left = cur.left \ {p}, !.cache = CacheWith(p)].done = cur.done
    BY <1>0, DoneKept
  <2> QED  BY <1>13, <2>1, <2>2, <2>3
<1>16. ASSUME NEW p \in pdrs, PrunePdr(p) PROVE UNCHANGED SlotPlaces
  <2>1. UNCHANGED <<free, rules>> /\ cur'.done = cur.done
    BY <1>16 DEF PrunePdr, TypeOK, Request
  <2> QED  BY <1>1, <2>1 DEF Live
<1>17. CASE RequestFails
  BY <1>11, <1>17 DEF RequestFails
<1>18. CASE RequestDone
  BY <1>13, <1>18 DEF RequestDone, CurOK
<1>19. ASSUME NEW x \in rules, DeletionRule(x) \/ PruneRule(x) PROVE Trackers!Next
  <2>1. PICK kinds \in {Kind, PrunedKinds} : ReleaseNext(kinds, x) /\ UNCHANGED rules
    BY <1>19 DEF DeletionRule, PruneRule
  <2>2. /\ x \in Live
        /\ free' = free \cup {SlotOf(x)}
        /\ cur' = [cur EXCEPT !.done = @ \cup {x}]
    BY <2>1 DEF ReleaseNext, Remaining, RulesOf, Live, SlotOf
  <2>3. cur'.done = cur.done \cup {x}
    BY <2>2 DEF TypeOK, Request
  <2>4. Live' = Live \ {x}
    BY <2>1, <2>3 DEF Live
  <2> QED  BY <1>0, <2>2, <2>4, PlaceReleased
<1>20. CASE DeletionDone
  <2>1. /\ UNCHANGED free /\ cur' = Idle
        /\ rules' = rules \ RulesOf(cur.sess)
        /\ Remaining(Kind) = {}
        /\ \A x \in cur.done : x.sess = cur.sess
    BY <1>20 DEF DeletionDone, CurOK
  <2>2. \A x \in RulesOf(cur.sess) : x \in cur.done
    BY <2>1 DEF Remaining, RulesOf, TypeOK, RuleRow
  <2>3. Live' = Live
    BY <2>1, <2>2 DEF Live, RulesOf, Idle
  <2> QED  BY <1>1, <2>1, <2>3
<1>21. ASSUME NEW s \in cur.pending, PruneSession(s) PROVE UNCHANGED SlotPlaces
  <2>1. UNCHANGED <<free, rules>> /\ cur'.done = cur.done
    BY <1>21 DEF PruneSession, TypeOK, Request
  <2> QED  BY <1>1, <2>1 DEF Live
<1>22. CASE PruneDone
  <2>1. /\ UNCHANGED free /\ cur' = Idle
        /\ rules' = {x \in rules : x.sess[1] # cur.sess[1]}
        /\ \A x \in cur.done : x.sess[1] = cur.sess[1]
    BY <1>22 DEF PruneDone, CurOK
  <2> DEFINE R == {x \in Live : x.sess[1] = cur.sess[1]}
  <2>2. Live' = Live \ R
    BY <2>1 DEF Live, Idle
  <2>3. \A x \in R, y \in Live : HolderOf(x) = HolderOf(y) => y \in R
    BY DEF HolderOf
  <2>4. R \in SUBSET Live
    OBVIOUS
  <2> HIDE DEF R
  <2> QED  BY <2>1, <2>2, <2>3, <2>4, PlacesForgotten
<1>23. CASE UNCHANGED vars
  BY <1>1, <1>23 DEF vars, Live
<1> QED
  BY <1>2, <1>3, <1>4, <1>7, <1>9, <1>10, <1>12, <1>14, <1>15, <1>16, <1>17, <1>18, <1>19,
     <1>20, <1>21, <1>22, <1>23 DEF Next, Trackers!LossyNext

\* At first every slot is with its tracker.
LEMMA TrackersInit == Init => Trackers!Init
<1> SUFFICES ASSUME Init PROVE Trackers!Init
  OBVIOUS
<1>1. ASSUME NEW p \in Slot PROVE SlotPlaces[p] = {<<>>}
  <2>1. Live = {} /\ p \in free
    BY DEF Init, Live
  <2>2. \A z : z \in SlotPlaces[p] <=> z = <<>>
    BY <2>1, PlacesAre
  <2> QED  BY <2>2
<1> QED  BY <1>1, PlacesFunction DEF Trackers!Init

\* With peers that name only rules they created, the trackers and the handlers
\* implement IdPool for pools of any size: a slot is with one rule or with its
\* tracker, passes through the tracker between two rules, and once forgotten
\* never comes back (IdTracker of ebpf/objects.go under the session handlers).
THEOREM SlotsImplementPool ==
    ASSUME "unknown" \notin Stress
    PROVE  Spec => SlotsAreAPool
<1>1. TypeOK /\ CurOK /\ Exclusive /\ Kept /\ [Next]_vars => [Trackers!LossyNext]_SlotPlaces
  BY TrackersStep
<1> QED  BY <1>1, ExclusiveAlways, KeptAlways, TrackersInit, PTL
         DEF Spec, SlotsAreAPool, Trackers!LossySpec

\* A step of a pool keeps every slot in one place and passes it on only when free.
LEMMA TrackersPassOn ==
    ASSUME Trackers!OnePlace, [Trackers!LossyNext]_SlotPlaces
    PROVE  Trackers!OnePlace' /\ Trackers!Passes
<1> USE DEF Trackers!OnePlace, Trackers!Passes
<1>1. ASSUME NEW i \in Slot, NEW h, Trackers!Take(i, h), SlotPlaces[i] = {<<>>}
      PROVE  Trackers!OnePlace' /\ Trackers!Passes
  <2>1. SlotPlaces'[i] = {h} /\ \A j \in Slot \ {i} : SlotPlaces'[j] = SlotPlaces[j] \ {h}
    BY <1>1 DEF Trackers!Take
  <2>2. \A j \in Slot \ {i} : SlotPlaces'[j] = SlotPlaces[j] \/ (SlotPlaces[j] # {} /\ SlotPlaces'[j] = {})
    BY <2>1
  <2> QED  BY <1>1, <2>1, <2>2
<1>2. ASSUME NEW H, Trackers!Release(H) PROVE Trackers!OnePlace' /\ Trackers!Passes
  BY <1>2 DEF Trackers!Release
<1>3. ASSUME NEW H, Trackers!Forget(H) PROVE Trackers!OnePlace' /\ Trackers!Passes
  <2>1. \A j \in Slot : SlotPlaces'[j] = SlotPlaces[j] \ H
    BY <1>3 DEF Trackers!Forget
  <2>2. \A j \in Slot : SlotPlaces'[j] = SlotPlaces[j] \/ (SlotPlaces[j] # {} /\ SlotPlaces'[j] = {})
    BY <2>1
  <2> QED  BY <2>1, <2>2
<1>4. CASE UNCHANGED SlotPlaces
  BY <1>4
<1> QED
  BY <1>1, <1>2, <1>3, <1>4 DEF Trackers!LossyNext, Trackers!Next, Trackers!FreeIds

\* What the abstract pool promises holds of the trackers and the sessions: a slot is
\* in one place, was free since its last rule when a rule gets it, and is never
\* found again when its rule is gone without Release (IdTracker, session handlers,
\* DeleteSession).
THEOREM SlotsChangeHandsFree ==
    ASSUME "unknown" \notin Stress
    PROVE  Spec => []Trackers!OnePlace /\ Trackers!Handover
<1>1. Trackers!Init => Trackers!OnePlace
  BY DEF Trackers!Init, Trackers!OnePlace
<1>2. Trackers!OnePlace /\ [Trackers!LossyNext]_SlotPlaces => Trackers!OnePlace' /\ Trackers!Passes
  BY TrackersPassOn
<1>3. Trackers!LossySpec => []Trackers!OnePlace /\ Trackers!Handover
  BY <1>1, <1>2, PTL DEF Trackers!LossySpec, Trackers!Handover
<1> QED  BY <1>3, SlotsImplementPool DEF SlotsAreAPool

-----------------------------------------------------------------------------
(* Peers that keep to the protocol *)

\* No PDR map is full.
MapsRoomy == \A key \in Key : ~MapFull(key)

\* Nor does a create that may come find its tracker empty.
Roomy ==
    /\ \A k \in Kind : \A r \in RuleId[k] : MayCreate(k, r) => \E p \in free : p[1] = k
    /\ MapsRoomy

\* The TEIDs of the peers differ in the byte TEIDCache looks at.
TeidsApart == \A s, t \in Teid : s % 256 = t % 256 => s = t

\* Request c is about session s.
Working(c, s) ==
    \/ c.op \in {"est", "mod", "del"} /\ s = c.sess
    \/ c.op = "prune" /\ s[1] = c.sess[1]

\* Request c is a deletion and through with PDR p.
Gone(c, p) ==
    \/ c.op = "del" /\ p.sess = c.sess /\ p \notin c.left
    \/ c.op = "prune" /\ p.sess[1] = c.sess[1] /\ p \notin c.left /\ p.sess \notin c.pending

InMaps == {p \in pdrs : ~Gone(cur, p)}

\* No two PDRs of a session have an id, and no two of all sessions a key.
PdrsDiffer ==
    /\ \A p, q \in pdrs : p.sess = q.sess /\ p.id = q.id => p = q
    /\ \A p, q \in pdrs : KeyOf(p) = KeyOf(q) => p = q

\* PDRs have an address, and a session that is stored or being established.
PdrsOwned ==
    /\ \A p \in pdrs : KeyOf(p) # <<"ul", 0>>
    /\ \A p \in pdrs : p.sess \in stored \/ (cur.op = "est" /\ p.sess = cur.sess)

\* SEIDs are given once in the life of an association, so a session that is being
\* established has no PDR before its request comes to the PDRs.
SeidsFresh ==
    /\ \A s \in stored : s[1] \in assoc /\ s[2] <= nextSeid[s[1]]
    /\ cur.op = "est" => /\ cur.sess \notin stored
                         /\ cur.sess[1] \in assoc /\ cur.sess[2] <= nextSeid[cur.sess[1]]
                         /\ cur.stage < 10 => \A p \in pdrs : p.sess # cur.sess
    /\ cur.op \in {"mod", "del"} => cur.sess \in stored

\* The row e of a PDR map is what PDR p makes of an empty place.
RowIs(e, p) ==
    /\ e.key = KeyOf(p) /\ e.owner = p.sess
    /\ p.sdf => e.mode = 1 /\ e.sfar = p.far /\ e.sqer = p.qer
    /\ ~p.sdf => e.mode = 0 /\ e.far = p.far /\ e.qer = p.qer

\* The maps m have a row for each PDR of P, and no other.
Mirrored(P, m) ==
    /\ \A e \in m : \E p \in P : RowIs(e, p)
    /\ \A p \in P : \E e \in m : e.key = KeyOf(p)

\* No TEID of P is in the cache.
Uncached(P, cache) == \A p \in P : KeyOf(p)[1] = "ul" => CacheKey(p) \notin cache

\* What a deletion has still to do are PDRs of its session, and none but a deletion
\* and a removal has filled the TEIDCache.
LeftToDo ==
    /\ cur.left \subseteq PdrsOf(cur.sess)
    /\ cur.left # {} => cur.op \in {"del", "prune"}
    /\ cur.op \in {"est", "mod"} => cur.cache = {} \/ cur.stage >= 12
    /\ cur.op = "prune" => cur.sess \notin cur.pending

Mapped ==
    /\ PdrsDiffer /\ PdrsOwned /\ SeidsFresh /\ LeftToDo
    /\ Mirrored(InMaps, pdrMap) /\ Uncached(InMaps, cur.cache)

\* Sessions nobody is working on have the rules their PDRs name.
RulesNamed ==
    \A p \in pdrs : ~Working(cur, p.sess) =>
        /\ \E x \in rules : x.sess = p.sess /\ x.kind = "far" /\ x.gid = p.far
        /\ p.qer # 0 => \E x \in rules : x.sess = p.sess /\ x.kind = "qer" /\ x.gid = p.qer

\* No session has the slot that a PDR of another names.
RulesOwn ==
    \A p \in pdrs, x \in Live :
        /\ SlotOf(x) = <<"far", p.far>> => x.sess = p.sess
        /\ SlotOf(x) = <<"qer", p.qer>> /\ p.qer # 0 => x.sess = p.sess

\* The order in which a request walks through its IE lists.
LEMMA Stages ==
    /\ \A k \in Kind, o \in {"create", "update", "remove"} : Stage(k, o) < 10
    /\ Stage("pdr", "create") = 10 /\ Stage("pdr", "update") = 11 /\ Stage("pdr", "remove") = 12
    /\ \A k \in Kind \cup {"pdr"}, o \in {"create", "update", "remove"} : Stage(k, o) \in Nat
BY DEF Stage, Kind

\* Deleting one PDR: its row is there, the TEIDCache does not hide it, and the maps
\* and the cache fit the PDRs that remain.
LEMMA DropOne ==
    ASSUME TeidsApart, TypeOK, PdrsDiffer, PdrsOwned, NEW P \in SUBSET pdrs,
           Mirrored(P, pdrMap), Uncached(P, cur.cache), NEW p \in P
    PROVE  /\ ~DeleteFails(p)
           /\ Mirrored(P \ {p}, MapWithout(p))
           /\ Uncached(P \ {p}, CacheWith(p))
<1>1. ~SkipsMap(p)
  BY DEF SkipsMap, Uncached
<1>2. ~DeleteFails(p)
  BY <1>1 DEF DeleteFails, Mirrored, EntriesAt
<1>3. MapWithout(p) = {e \in pdrMap : e.key # KeyOf(p)}
  BY <1>1 DEF MapWithout, EntriesAt
<1>4. \A q \in P : KeyOf(q) = KeyOf(p) => q = p
  BY DEF PdrsDiffer
<1>5. Mirrored(P \ {p}, MapWithout(p))
  <2>1. \A e \in MapWithout(p) : \E q \in P \ {p} : RowIs(e, q)
    BY <1>3, <1>4 DEF Mirrored, RowIs
  <2>2. \A q \in P \ {p} : \E e \in MapWithout(p) : e.key = KeyOf(q)
    BY <1>3, <1>4 DEF Mirrored
  <2> QED  BY <2>1, <2>2 DEF Mirrored
<1>6. ASSUME NEW q \in P PROVE KeyOf(q)[1] = "ul" => q.teid \in Teid /\ KeyOf(q) = <<"ul", q.teid>>
  <2>1. q \in PdrRow /\ KeyOf(q) # <<"ul", 0>>
    BY DEF TypeOK, PdrsOwned
  <2>2. q.teid \in Teid \cup {0}
    BY <2>1 DEF PdrRow
  <2>3. KeyOf(q)[1] = "ul" => KeyOf(q) = <<"ul", q.teid>>
    BY DEF KeyOf
  <2> QED  BY <2>1, <2>2, <2>3
<1>7. ASSUME NEW q \in P \ {p}, KeyOf(q)[1] = "ul" PROVE CacheKey(q) \notin CacheWith(p)
  <2>1. CacheKey(q) \notin cur.cache
    BY <1>7 DEF Uncached
  <2>2. KeyOf(p)[1] = "ul" => CacheKey(q) # CacheKey(p)
    BY <1>4, <1>6, <1>7 DEF TeidsApart, CacheKey
  <2> QED  BY <2>1, <2>2 DEF CacheWith
<1> QED  BY <1>2, <1>5, <1>7 DEF Uncached

\* A PDR that such a peer creates or updates: its key is new or the one it had, and
\* its row is as if it found the place empty.
LEMMA PutClean ==
    ASSUME Stress \subseteq {"dangle"}, TypeOK, PdrsDiffer, PdrsOwned,
           NEW s \in Sess, NEW o \in {"create", "update"}, NEW i \in PdrId, NEW loc \in Loc,
           NEW sdf \in BOOLEAN, NEW f, NEW q, NEW p,
           p = ExtractedPdr(o, s, i, f, q, loc, sdf), PeerAllows(o, s, i, f, q, p, loc, sdf)
    PROVE  /\ p.sess = s /\ p.id = i /\ KeyOf(p) # <<"ul", 0>>
           /\ \A x \in pdrs \ PdrAt(s, i) : KeyOf(x) # KeyOf(p)
           /\ \A x \in PdrAt(s, i) : KeyOf(x) = KeyOf(p)
           /\ PdrAt(s, i) = {} \/ ~p.sdf
           /\ o = "create" => PdrAt(s, i) = {}
           /\ o = "update" => \E x \in pdrs : PdrAt(s, i) = {x}
<1>0. \A z \in {"noAddr", "unknown", "reuse", "shared", "sdfPair", "rekey", "sdfUpdate"} :
        z \notin Stress
  OBVIOUS
<1>1. p.sess = s /\ p.id = i
  BY DEF ExtractedPdr
<1>2. \A x \in pdrs \ PdrAt(s, i) : KeyOf(x) # KeyOf(p)
  BY <1>0 DEF PeerAllows
<1>3. CASE o = "create"
  <2>1. PdrAt(s, i) = {} /\ loc # NoLoc
    BY <1>0, <1>3 DEF PeerAllows
  <2>2. loc \in Key /\ loc # <<"ul", 0>>
    BY <2>1 DEF Loc
  <2>3. /\ p.ip4 = IF loc[1] = "dl4" THEN loc[2] ELSE NoIp
        /\ p.ip6 = IF loc[1] = "dl6" THEN loc[2] ELSE NoIp
        /\ p.teid = IF loc[1] = "ul" THEN loc[2] ELSE 0
    BY <1>3 DEF ExtractedPdr
  <2>4. KeyOf(p) = loc
    BY <2>2, <2>3, ConstantsAssumption DEF KeyOf, Key
  <2> QED  BY <1>1, <1>2, <1>3, <2>1, <2>2, <2>4
<1>4. CASE o = "update"
  <2>1. PdrAt(s, i) # {} /\ ~sdf /\ \A x \in PdrAt(s, i) : ~x.sdf /\ KeyOf(x) = KeyOf(p)
    BY <1>0, <1>4 DEF PeerAllows
  <2>2. PICK x \in pdrs : PdrAt(s, i) = {x}
    BY <2>1 DEF PdrAt, PdrsDiffer
  <2>3. (CHOOSE y \in PdrAt(s, i) : TRUE) = x
    BY <2>2
  <2>4. p.sdf = (x.sdf \/ sdf)
    BY <1>4, <2>1, <2>3 DEF ExtractedPdr
  <2>5. KeyOf(p) # <<"ul", 0>>
    BY <2>1, <2>2 DEF PdrsOwned
  <2> QED  BY <1>1, <1>2, <1>4, <2>1, <2>2, <2>4, <2>5
<1> QED  BY <1>3, <1>4

\* Create PDR and Update PDR keep Mapped while the maps have room.
LEMMA PutKeepsMapped ==
    ASSUME Stress \subseteq {"dangle"}, TypeOK, CurOK, Kept, Mapped, MapsRoomy,
           NEW o \in {"create", "update"}, NEW i \in PdrId, NEW loc \in Loc,
           NEW sdf \in Sdf, NEW f, NEW q, PutPdr(o, i, f, q, loc, sdf)
    PROVE  Mapped'
<1> DEFINE s == cur.sess
           p == ExtractedPdr(o, s, i, f, q, loc, sdf)
           old == PdrAt(s, i)
<1>1. /\ cur.op \in {"est", "mod"} /\ s \in Sess /\ cur.stage <= Stage("pdr", o)
      /\ sdf \in BOOLEAN
  BY ConstantsAssumption DEF PutPdr, Reached, CurOK
<1>2. p \in PdrRow
  BY <1>1, ExtractedPdrType
<1>3. KeyOf(p) \in Key
  BY <1>2 DEF KeyOf, Key, PdrRow
<1>4. /\ pdrs' = (pdrs \ old) \cup {p}
      /\ pdrMap' = (pdrMap \ EntriesAt(KeyOf(p))) \cup {PdrToStore(p)}
      /\ cur' = [cur EXCEPT !.stage = Stage("pdr", o)]
      /\ UNCHANGED <<stored, assoc, nextSeid>>
      /\ PeerAllows(o, s, i, f, q, p, loc, sdf)
  BY <1>3 DEF PutPdr, MapsRoomy
<1>5. /\ p.sess = s /\ p.id = i /\ KeyOf(p) # <<"ul", 0>>
      /\ \A x \in pdrs \ old : KeyOf(x) # KeyOf(p)
      /\ \A x \in old : KeyOf(x) = KeyOf(p)
      /\ old = {} \/ ~p.sdf
  BY <1>1, <1>4, PutClean DEF Mapped
<1>6. \A x \in pdrs : x \in old <=> x.sess = s /\ x.id = i
  BY DEF PdrAt
<1>7. cur \in Request /\ Stage("pdr", o) \in 10 .. 11
  BY Stages DEF TypeOK
<1>8. /\ cur'.op = cur.op /\ cur'.sess = s /\ cur'.left = cur.left /\ cur'.cache = cur.cache
      /\ cur'.stage = Stage("pdr", o)
  BY <1>4, <1>7 DEF Request
<1>9. cur.left = {} /\ cur.cache = {}
  BY <1>1, <1>7 DEF Mapped, LeftToDo, TypeOK, Request
<1> HIDE DEF p, old
<1>10. PdrsDiffer'
  <2>1. \A x, y \in pdrs' : x.sess = y.sess /\ x.id = y.id => x = y
    BY <1>4, <1>5, <1>6 DEF Mapped, PdrsDiffer
  <2>2. \A x, y \in pdrs' : KeyOf(x) = KeyOf(y) => x = y
    BY <1>4, <1>5 DEF Mapped, PdrsDiffer
  <2> QED  BY <2>1, <2>2 DEF PdrsDiffer
<1>11. PdrsOwned'
  <2>1. \A x \in pdrs' : KeyOf(x) # <<"ul", 0>>
    BY <1>4, <1>5 DEF Mapped, PdrsOwned
  <2>2. s \in stored \/ cur.op = "est"
    BY <1>1 DEF Kept, RulesOwned
  <2>3. \A x \in pdrs' : x.sess \in stored' \/ (cur'.op = "est" /\ x.sess = cur'.sess)
    BY <1>4, <1>5, <1>8, <2>2 DEF Mapped, PdrsOwned
  <2> QED  BY <2>1, <2>3 DEF PdrsOwned
<1>12. SeidsFresh'
  BY <1>4, <1>7, <1>8 DEF Mapped, SeidsFresh
<1>13. LeftToDo'
  BY <1>1, <1>8, <1>9 DEF LeftToDo
<1>14. InMaps = pdrs /\ InMaps' = pdrs'
  BY <1>1, <1>8 DEF InMaps, Gone
<1>15. RowIs(PdrToStore(p), p)
  <2>1. CASE ~p.sdf
    BY <2>1 DEF PdrToStore, RowIs
  <2>2. CASE p.sdf
    <3>1. EntriesAt(KeyOf(p)) = {}
      <4>1. \A x \in pdrs : KeyOf(x) # KeyOf(p)
        BY <1>5, <2>2
      <4> QED  BY <4>1, <1>14 DEF EntriesAt, Mapped, Mirrored, RowIs
    <3> QED  BY <2>2, <3>1 DEF PdrToStore, RowIs
  <2> QED  BY <2>1, <2>2
<1> DEFINE row == PdrToStore(p)
<1>16. row.key = KeyOf(p) /\ pdrMap' = {e \in pdrMap : e.key # KeyOf(p)} \cup {row}
  BY <1>4, <1>15 DEF RowIs, EntriesAt
<1> HIDE DEF row
<1>17. \A e \in pdrMap' : \E x \in pdrs' : RowIs(e, x)
  <2>1. RowIs(row, p) /\ p \in pdrs'
    BY <1>4, <1>15 DEF row
  <2>2. ASSUME NEW e \in pdrMap, e.key # KeyOf(p) PROVE \E x \in pdrs' : RowIs(e, x)
    <3>1. PICK x \in pdrs : RowIs(e, x)
      BY <1>14 DEF Mapped, Mirrored
    <3>2. x \notin old
      BY <1>5, <2>2, <3>1 DEF RowIs
    <3> QED  BY <1>4, <3>1, <3>2
  <2> QED  BY <1>16, <2>1, <2>2
<1>18. \A x \in pdrs' : \E e \in pdrMap' : e.key = KeyOf(x)
  BY <1>4, <1>5, <1>14, <1>16 DEF Mapped, Mirrored
<1>19. Mirrored(InMaps, pdrMap)'
  BY <1>14, <1>17, <1>18 DEF Mirrored, RowIs, KeyOf
<1>20. Uncached(InMaps, cur.cache)'
  BY <1>8, <1>9 DEF Uncached
<1> QED  BY <1>10, <1>11, <1>12, <1>13, <1>19, <1>20 DEF Mapped

\* A step that leaves the PDRs in the maps and their rows as they are.
LEMMA SameMaps ==
    ASSUME Mapped, pdrMap' = pdrMap, InMaps' = InMaps, cur'.cache \in {cur.cache, {}}
    PROVE  Mirrored(InMaps, pdrMap)' /\ Uncached(InMaps, cur.cache)'
<1>1. Mirrored(InMaps', pdrMap') /\ Uncached(InMaps', cur'.cache)
  BY DEF Mapped, Uncached
<1> QED  BY <1>1 DEF Mirrored, Uncached, RowIs, KeyOf, CacheKey

\* Every step keeps Mapped while the maps have room: a deletion never misses a row,
\* so it never fails, and nothing else touches the maps.
LEMMA MappedStep ==
    ASSUME Stress \subseteq {"dangle"}, TeidsApart,
           TypeOK, CurOK, Kept, Mapped, MapsRoomy, [Next]_vars
    PROVE  Mapped'
<1>0. /\ cur \in Request /\ stored \subseteq Sess /\ nextSeid \in [Node -> Nat \ {0}]
      /\ "badIE" \notin Stress
  BY DEF TypeOK
<1>i. /\ Idle.op = "idle" /\ Idle.left = {} /\ Idle.cache = {} /\ Idle.pending = {}
      /\ Idle.stage = 0
  BY DEF Idle
<1>1. ASSUME NEW n \in Node, AssociationSetup(n) PROVE Mapped'
  <2>1. /\ UNCHANGED <<stored, pdrs, pdrMap, cur>> /\ cur.op = "idle"
        /\ assoc' = assoc \cup {n}
        /\ nextSeid' = IF n \in assoc THEN nextSeid ELSE [nextSeid EXCEPT ![n] = 1]
    BY <1>1 DEF AssociationSetup
  <2>2. InMaps' = InMaps /\ PdrsDiffer' /\ PdrsOwned' /\ LeftToDo'
    BY <2>1 DEF InMaps, Gone, Mapped, PdrsDiffer, PdrsOwned, LeftToDo, PdrsOf
  <2>3. SeidsFresh'
    BY <1>0, <2>1 DEF Mapped, SeidsFresh, Sess
  <2> QED  BY <2>1, <2>2, <2>3, SameMaps DEF Mapped
<1>2. ASSUME cur.op = "idle", UNCHANGED <<stored, pdrs, pdrMap, assoc>>,
             cur'.op \in {"est", "mod", "del", "prune"}, cur'.cache = {}, cur'.stage = 0,
             cur'.left = {} \/ (cur'.left = PdrsOf(cur'.sess) /\ cur'.op = "del"),
             cur'.op = "del" => cur'.left = PdrsOf(cur'.sess),
             cur'.op = "prune" => /\ cur'.pending = SessionsOf(cur'.sess[1])
                                  /\ cur'.sess \notin stored,
             SeidsFresh'
      PROVE  Mapped'
  <2>1. PdrsDiffer' /\ PdrsOwned' /\ LeftToDo'
    BY <1>2 DEF Mapped, PdrsDiffer, PdrsOwned, LeftToDo, PdrsOf, SessionsOf
  <2>2. \A p \in pdrs : p.sess \in stored
    BY <1>2 DEF Mapped, PdrsOwned
  <2>3. InMaps = pdrs /\ InMaps' = pdrs
    BY <1>2, <2>2 DEF InMaps, Gone, PdrsOf, SessionsOf
  <2> QED  BY <1>2, <2>1, <2>3, SameMaps DEF Mapped
<1>3. ASSUME NEW n \in Node, EstablishmentRequest(n) PROVE Mapped'
  <2>1. /\ UNCHANGED <<stored, pdrs, pdrMap, assoc>> /\ cur.op = "idle"
        /\ n \in assoc
        /\ nextSeid' = [nextSeid EXCEPT ![n] = @ + 1]
        /\ cur' = [Idle EXCEPT !.op = "est", !.sess = <<n, nextSeid[n] + 1>>]
    BY <1>3 DEF EstablishmentRequest
  <2>2. /\ cur'.op = "est" /\ cur'.sess = <<n, nextSeid[n] + 1>>
        /\ cur'.stage = 0 /\ cur'.left = {} /\ cur'.cache = {}
    BY <2>1 DEF Idle
  <2>3. \A s \in stored : s[1] \in assoc /\ s[1] \in Node /\ s[2] \in Nat /\ s[2] <= nextSeid[s[1]]
    BY <1>0, ConstantsAssumption DEF Mapped, SeidsFresh, Sess
  <2>4. <<n, nextSeid[n] + 1>> \notin stored
    BY <1>0, <2>3
  <2>5. \A p \in pdrs : p.sess \in stored
    BY <2>1 DEF Mapped, PdrsOwned
  <2>6. SeidsFresh'
    BY <1>0, <2>1, <2>2, <2>3, <2>4, <2>5 DEF SeidsFresh
  <2> QED  BY <1>2, <2>1, <2>2, <2>6
<1>4. ASSUME NEW n \in Node, PruneAssociation(n) PROVE Mapped'
  <2>1. /\ UNCHANGED <<stored, pdrs, pdrMap, assoc, nextSeid>> /\ cur.op = "idle"
        /\ cur' = [Idle EXCEPT !.op = "prune", !.sess = <<n, 0>>, !.pending = SessionsOf(n)]
    BY <1>4 DEF PruneAssociation
  <2>2. /\ cur'.op = "prune" /\ cur'.sess = <<n, 0>> /\ cur'.pending = SessionsOf(n)
        /\ cur'.stage = 0 /\ cur'.left = {} /\ cur'.cache = {}
    BY <2>1 DEF Idle
  <2>3. SeidsFresh'
    BY <2>1, <2>2 DEF Mapped, SeidsFresh
  <2>4. <<n, 0>> \notin stored
    BY <1>0 DEF Sess
  <2> QED  BY <1>2, <2>1, <2>2, <2>3, <2>4
<1>5. CASE RejectRequest
  <2>1. UNCHANGED <<stored, pdrs, pdrMap, assoc, nextSeid, cur>>
    BY <1>5 DEF RejectRequest
  <2>2. InMaps' = InMaps /\ PdrsDiffer' /\ PdrsOwned' /\ LeftToDo' /\ SeidsFresh'
    BY <2>1 DEF InMaps, Gone, Mapped, PdrsDiffer, PdrsOwned, LeftToDo, PdrsOf, SeidsFresh
  <2> QED  BY <2>1, <2>2, SameMaps DEF Mapped
<1>6. ASSUME NEW s \in stored, ModificationRequest(s) PROVE Mapped'
  <2>1. /\ UNCHANGED <<stored, pdrs, pdrMap, assoc, nextSeid>> /\ cur.op = "idle"
        /\ cur' = [Idle EXCEPT !.op = "mod", !.sess = s]
    BY <1>6 DEF ModificationRequest
  <2>2. cur'.op = "mod" /\ cur'.sess = s /\ cur'.stage = 0 /\ cur'.left = {} /\ cur'.cache = {}
    BY <2>1 DEF Idle
  <2>3. SeidsFresh'
    BY <2>1, <2>2 DEF Mapped, SeidsFresh
  <2> QED  BY <1>2, <2>1, <2>2, <2>3
<1>7. ASSUME NEW s \in stored, DeletionRequest(s) PROVE Mapped'
  <2>1. /\ UNCHANGED <<stored, pdrs, pdrMap, assoc, nextSeid>> /\ cur.op = "idle"
        /\ cur' = [Idle EXCEPT !.op = "del", !.sess = s, !.left = PdrsOf(s)]
    BY <1>7 DEF DeletionRequest
  <2>2. /\ cur'.op = "del" /\ cur'.sess = s /\ cur'.left = PdrsOf(s)
        /\ cur'.stage = 0 /\ cur'.cache = {}
    BY <2>1 DEF Idle
  <2>3. SeidsFresh'
    BY <2>1, <2>2 DEF Mapped, SeidsFresh
  <2> QED  BY <1>2, <2>1, <2>2, <2>3
<1>8. ASSUME NEW k \in Kind, NEW o \in {"create", "update", "remove"}, Reached(k, o),
             cur' = [cur EXCEPT !.stage = Stage(k, o)],
             UNCHANGED <<stored, pdrs, pdrMap, assoc, nextSeid>>
      PROVE  Mapped'
  <2>1. cur.op \in {"est", "mod"} /\ cur.stage <= Stage(k, o) /\ Stage(k, o) < 10
    BY <1>8, Stages DEF Reached
  <2>2. /\ cur'.op = cur.op /\ cur'.sess = cur.sess /\ cur'.left = cur.left
        /\ cur'.cache = cur.cache /\ cur'.stage = Stage(k, o) /\ cur.stage \in Nat
        /\ Stage(k, o) \in Nat
    BY <1>0, <1>8, Stages DEF Request
  <2>3. cur.left = {} /\ cur.cache = {} /\ cur.stage < 10
    BY <2>1, <2>2 DEF Mapped, LeftToDo
  <2>4. InMaps' = InMaps /\ PdrsDiffer' /\ PdrsOwned'
    BY <1>8, <2>1, <2>2 DEF InMaps, Gone, Mapped, PdrsDiffer, PdrsOwned
  <2>5. LeftToDo' /\ SeidsFresh'
    BY <1>8, <2>1, <2>2, <2>3 DEF Mapped, LeftToDo, SeidsFresh
  <2> QED  BY <1>8, <2>2, <2>4, <2>5, SameMaps DEF Mapped
<1>9. ASSUME NEW k \in Kind, NEW r \in RuleId[k],
             \/ \E i \in InfoOf(k) : CreateRule(k, r, i) \/ UpdateRule(k, r, i)
             \/ RemoveRule(k, r)
      PROVE  Mapped'
  <2>1. PICK o \in {"create", "update", "remove"} :
          /\ Reached(k, o)
          /\ cur' = [cur EXCEPT !.stage = Stage(k, o)]
          /\ UNCHANGED <<stored, pdrs, pdrMap, assoc, nextSeid>>
    BY <1>9 DEF CreateRule, MayCreate, UpdateRule, RemoveRule
  <2> QED  BY <1>8, <2>1
<1>10. ASSUME NEW p \in pdrs, RemovePdr(p) PROVE Mapped'
  <2>1. /\ cur.op = "mod" /\ p \in PdrsOf(cur.sess) /\ pdrs' = pdrs \ {p}
        /\ UNCHANGED <<stored, assoc, nextSeid>>
    BY <1>10 DEF RemovePdr, Reached
  <2>2. InMaps = pdrs
    BY <2>1 DEF InMaps, Gone
  <2>3. /\ ~DeleteFails(p)
        /\ Mirrored(pdrs', MapWithout(p))
        /\ Uncached(pdrs', CacheWith(p))
    BY <2>1, <2>2, DropOne DEF Mapped
  <2>4. /\ pdrMap' = MapWithout(p)
        /\ cur' = [cur EXCEPT !.stage = Stage("pdr", "remove"), !.cache = CacheWith(p)]
    BY <1>10, <2>3 DEF RemovePdr
  <2>5. /\ cur'.op = cur.op /\ cur'.sess = cur.sess /\ cur'.left = cur.left
        /\ cur'.cache = CacheWith(p) /\ cur'.stage = 12
    BY <1>0, <2>4, Stages DEF Request
  <2>6. InMaps' = pdrs'
    BY <2>1, <2>5 DEF InMaps, Gone
  <2>7. PdrsDiffer' /\ PdrsOwned' /\ SeidsFresh'
    BY <2>1, <2>5 DEF Mapped, PdrsDiffer, PdrsOwned, SeidsFresh
  <2>8. LeftToDo'
    BY <2>1, <2>5 DEF Mapped, LeftToDo
  <2>9. Mirrored(InMaps, pdrMap)' /\ Uncached(InMaps, cur.cache)'
    <3>1. Mirrored(InMaps', pdrMap') /\ Uncached(InMaps', cur'.cache)
      BY <2>3, <2>4, <2>5, <2>6
    <3> QED  BY <3>1 DEF Mirrored, Uncached, RowIs, KeyOf, CacheKey
  <2> QED  BY <2>7, <2>8, <2>9 DEF Mapped
<1>11. ASSUME cur' = Idle, UNCHANGED pdrMap, pdrs' = InMaps, pdrs' \subseteq pdrs,
              \A p \in pdrs' : p.sess \in stored', SeidsFresh'
       PROVE  Mapped'
  <2>1. InMaps' = InMaps /\ cur'.cache = {}
    BY <1>i, <1>11 DEF InMaps, Gone
  <2>2. PdrsDiffer' /\ PdrsOwned'
    BY <1>11 DEF Mapped, PdrsDiffer, PdrsOwned
  <2>3. LeftToDo'
    BY <1>i, <1>11 DEF LeftToDo
  <2> QED  BY <1>11, <2>1, <2>2, <2>3, SameMaps DEF Mapped
<1>12. CASE RequestFails
  <2>1. /\ cur.op \in {"est", "mod"} /\ cur' = Idle
        /\ UNCHANGED <<stored, pdrMap, assoc, nextSeid>>
        /\ pdrs' = IF cur.op = "est" THEN pdrs \ PdrsOf(cur.sess) ELSE pdrs
    BY <1>12 DEF RequestFails
  <2>2. PICK k \in Kind : cur.stage <= Stage(k, "create")
    BY <1>0, <1>12 DEF RequestFails, MayCreate, Reached
  <2>3. cur.stage < 10
    BY <1>0, <2>2, Stages DEF Request
  <2>4. pdrs' = pdrs /\ InMaps = pdrs /\ \A p \in pdrs : p.sess \in stored
    BY <2>1, <2>3 DEF Mapped, SeidsFresh, PdrsOwned, PdrsOf, InMaps, Gone
  <2>5. SeidsFresh'
    BY <1>i, <2>1 DEF Mapped, SeidsFresh
  <2> QED  BY <1>11, <2>1, <2>4, <2>5
<1>13. CASE RequestDone
  <2>1. /\ cur.op \in {"est", "mod"} /\ cur' = Idle
        /\ UNCHANGED <<pdrs, pdrMap, assoc, nextSeid>>
        /\ stored' = stored \cup {cur.sess}
    BY <1>13 DEF RequestDone
  <2>2. InMaps = pdrs /\ \A p \in pdrs : p.sess \in stored'
    BY <2>1 DEF InMaps, Gone, Mapped, PdrsOwned
  <2>3. SeidsFresh'
    BY <1>i, <2>1 DEF Mapped, SeidsFresh
  <2> QED  BY <1>11, <2>1, <2>2, <2>3
<1>14. ASSUME NEW p \in cur.left, cur.op \in {"del", "prune"},
              pdrMap' = MapWithout(p), UNCHANGED <<stored, pdrs, assoc, nextSeid>>,
              cur' = [cur EXCEPT !.left = cur.left \ {p}, !.cache = CacheWith(p)]
       PROVE  Mapped'
  <2>1. p \in pdrs /\ p.sess = cur.sess
    BY DEF Mapped, LeftToDo, PdrsOf
  <2>2. p \in InMaps
    BY <1>14, <2>1 DEF InMaps, Gone
  <2>3. Mirrored(InMaps \ {p}, MapWithout(p)) /\ Uncached(InMaps \ {p}, CacheWith(p))
    BY <2>2, DropOne DEF Mapped, InMaps
  <2>4. /\ cur'.op = cur.op /\ cur'.sess = cur.sess /\ cur'.left = cur.left \ {p}
        /\ cur'.cache = CacheWith(p) /\ cur'.pending = cur.pending
    BY <1>0, <1>14 DEF Request
  <2>5. cur.op = "prune" => cur.sess \notin cur.pending
    BY DEF Mapped, LeftToDo
  <2>6. InMaps' = InMaps \ {p}
    BY <1>14, <2>1, <2>4, <2>5 DEF InMaps, Gone
  <2>7. PdrsDiffer' /\ PdrsOwned' /\ SeidsFresh'
    BY <1>14, <2>4 DEF Mapped, PdrsDiffer, PdrsOwned, SeidsFresh
  <2>8. LeftToDo'
    BY <1>14, <2>4 DEF Mapped, LeftToDo, PdrsOf
  <2>9. Mirrored(InMaps, pdrMap)' /\ Uncached(InMaps, cur.cache)'
    <3>1. Mirrored(InMaps', pdrMap') /\ Uncached(InMaps', cur'.cache)
      BY <1>14, <2>3, <2>4, <2>6
    <3> QED  BY <3>1 DEF Mirrored, Uncached, RowIs, KeyOf, CacheKey
  <2> QED  BY <2>7, <2>8, <2>9 DEF Mapped
<1>15. ASSUME NEW p \in pdrs, DeletionPdr(p) \/ PrunePdr(p) PROVE Mapped'
  <2>1. cur.op \in {"del", "prune"} /\ p \in cur.left
    BY <1>15 DEF DeletionPdr, PrunePdr
  <2>2. p \in InMaps
    BY <2>1 DEF InMaps, Gone, Mapped, LeftToDo
  <2>3. ~DeleteFails(p)
    BY <2>2, DropOne DEF Mapped, InMaps
  <2> QED  BY <1>14, <1>15, <2>1, <2>3 DEF DeletionPdr, PrunePdr
<1>16. ASSUME NEW x \in rules, DeletionRule(x) \/ PruneRule(x) PROVE Mapped'
  <2>1. PICK kinds \in {Kind, PrunedKinds} :
          /\ ReleaseNext(kinds, x) /\ cur.op \in {"del", "prune"}
          /\ UNCHANGED <<stored, pdrs, pdrMap, assoc, nextSeid>>
    BY <1>16 DEF DeletionRule, PruneRule
  <2>2. cur' = [cur EXCEPT !.done = @ \cup {x}]
    BY <2>1 DEF ReleaseNext
  <2>3. /\ cur'.op = cur.op /\ cur'.sess = cur.sess /\ cur'.left = cur.left
        /\ cur'.cache = cur.cache /\ cur'.pending = cur.pending
    BY <1>0, <2>2 DEF Request
  <2>4. InMaps' = InMaps /\ PdrsDiffer' /\ PdrsOwned'
    BY <2>1, <2>3 DEF InMaps, Gone, Mapped, PdrsDiffer, PdrsOwned
  <2>5. LeftToDo' /\ SeidsFresh'
    BY <2>1, <2>3 DEF Mapped, LeftToDo, SeidsFresh, PdrsOf
  <2> QED  BY <2>1, <2>3, <2>4, <2>5, SameMaps DEF Mapped
<1>17. CASE DeletionDone
  <2>1. /\ cur.op = "del" /\ cur.left = {} /\ cur' = Idle
        /\ UNCHANGED <<pdrMap, assoc, nextSeid>>
        /\ stored' = stored \ {cur.sess} /\ pdrs' = pdrs \ PdrsOf(cur.sess)
    BY <1>17 DEF DeletionDone
  <2>2. InMaps = pdrs' /\ \A p \in pdrs' : p.sess \in stored'
    BY <2>1 DEF InMaps, Gone, PdrsOf, Mapped, PdrsOwned
  <2>3. SeidsFresh'
    BY <1>i, <2>1 DEF Mapped, SeidsFresh
  <2> QED  BY <1>11, <2>1, <2>2, <2>3
<1>18. ASSUME NEW s \in cur.pending, PruneSession(s) PROVE Mapped'
  <2>1. /\ cur.op = "prune" /\ cur.left = {}
        /\ UNCHANGED <<stored, pdrs, pdrMap, assoc, nextSeid>>
        /\ cur' = [cur EXCEPT !.sess = s, !.left = PdrsOf(s), !.cache = {},
                              !.pending = @ \ {s}]
    BY <1>18 DEF PruneSession, SessionPruned
  <2>2. /\ cur'.op = "prune" /\ cur'.sess = s /\ cur'.left = PdrsOf(s)
        /\ cur'.cache = {} /\ cur'.pending = cur.pending \ {s}
    BY <1>0, <2>1 DEF Request
  <2>3. s[1] = cur.sess[1]
    BY <2>1 DEF CurOK
  <2>4. InMaps' = InMaps
    BY <2>1, <2>2, <2>3 DEF InMaps, Gone, PdrsOf
  <2>5. PdrsDiffer' /\ PdrsOwned' /\ SeidsFresh'
    BY <2>1, <2>2 DEF Mapped, PdrsDiffer, PdrsOwned, SeidsFresh
  <2>6. LeftToDo'
    BY <2>1, <2>2 DEF Mapped, LeftToDo, PdrsOf
  <2> QED  BY <2>1, <2>2, <2>4, <2>5, <2>6, SameMaps DEF Mapped
<1>19. CASE PruneDone
  <2> DEFINE n == cur.sess[1]
  <2>1. /\ cur.op = "prune" /\ cur.left = {} /\ cur.pending = {} /\ cur' = Idle
        /\ UNCHANGED <<pdrMap, nextSeid>>
        /\ assoc' = assoc \ {n} /\ stored' = stored \ SessionsOf(n)
        /\ pdrs' = {p \in pdrs : p.sess[1] # n}
    BY <1>19 DEF PruneDone, SessionPruned
  <2>2. InMaps = pdrs' /\ \A p \in pdrs' : p.sess \in stored'
    BY <2>1 DEF InMaps, Gone, SessionsOf, Mapped, PdrsOwned
  <2>3. SeidsFresh'
    BY <1>i, <2>1 DEF Mapped, SeidsFresh, SessionsOf
  <2> QED  BY <1>11, <2>1, <2>2, <2>3
<1>20. CASE UNCHANGED vars
  <2>1. UNCHANGED <<stored, pdrs, pdrMap, assoc, nextSeid, cur>>
    BY <1>20 DEF vars
  <2>2. InMaps' = InMaps /\ PdrsDiffer' /\ PdrsOwned' /\ LeftToDo' /\ SeidsFresh'
    BY <2>1 DEF InMaps, Gone, Mapped, PdrsDiffer, PdrsOwned, LeftToDo, PdrsOf, SeidsFresh
  <2> QED  BY <2>1, <2>2, SameMaps DEF Mapped
<1> QED
  BY <1>1, <1>3, <1>4, <1>5, <1>6, <1>7, <1>9, <1>10, <1>12, <1>13, <1>15, <1>16, <1>17,
     <1>18, <1>19, <1>20, PutKeepsMapped DEF Next

\* At first there is no PDR and no row.
LEMMA MappedInit == Init => Mapped /\ DeletionAnswered
BY DEF Init, Idle, Mapped, PdrsDiffer, PdrsOwned, SeidsFresh, LeftToDo, InMaps, Mirrored,
       Uncached, DeletionAnswered

\* Only a deletion that misses a row goes without an answer.
LEMMA AnswerStep ==
    ASSUME TeidsApart, TypeOK, Mapped, DeletionAnswered, [Next]_vars
    PROVE  DeletionAnswered'
<1>1. ASSUME NEW p \in pdrs, DeletionPdr(p) PROVE DeletionAnswered'
  <2>1. p \in InMaps
    BY <1>1 DEF DeletionPdr, InMaps, Gone, Mapped, LeftToDo
  <2>2. ~DeleteFails(p)
    BY <2>1, DropOne DEF Mapped, InMaps
  <2> QED  BY <1>1, <2>2 DEF DeletionPdr, DeletionAnswered
<1>2. ASSUME NEW n \in Node,
             AssociationSetup(n) \/ EstablishmentRequest(n) \/ PruneAssociation(n)
      PROVE  reply' # "silent"
  BY <1>2 DEF AssociationSetup, EstablishmentRequest, PruneAssociation
<1>3. ASSUME NEW s \in stored, ModificationRequest(s) \/ DeletionRequest(s)
      PROVE  reply' # "silent"
  BY <1>3 DEF ModificationRequest, DeletionRequest
<1>4. ASSUME NEW k \in Kind, NEW r \in RuleId[k],
             \/ \E i \in InfoOf(k) : CreateRule(k, r, i) \/ UpdateRule(k, r, i)
             \/ RemoveRule(k, r)
      PROVE  reply' = reply
  BY <1>4 DEF CreateRule, UpdateRule, RemoveRule
<1>5. ASSUME NEW o, NEW i, NEW loc, NEW sdf, NEW f, NEW q, PutPdr(o, i, f, q, loc, sdf)
      PROVE  reply' \in {reply, "failure"}
  BY <1>5 DEF PutPdr
<1>6. ASSUME NEW p \in pdrs, RemovePdr(p) \/ PrunePdr(p) PROVE reply' \in {reply, "failure"}
  BY <1>6 DEF RemovePdr, PrunePdr
<1>7. ASSUME NEW x \in rules, DeletionRule(x) \/ PruneRule(x) PROVE reply' = reply
  BY <1>7 DEF DeletionRule, PruneRule
<1>8. CASE RejectRequest \/ RequestFails \/ RequestDone \/ DeletionDone \/ PruneDone
  BY <1>8 DEF RejectRequest, RequestFails, RequestDone, DeletionDone, PruneDone, DeletionAnswered
<1>9. ASSUME NEW s \in cur.pending, PruneSession(s) PROVE reply' = reply
  BY <1>9 DEF PruneSession
<1>10. CASE UNCHANGED vars
  BY <1>10 DEF vars, DeletionAnswered
<1>11. reply' = reply \/ reply' \in {reply, "failure"} \/ reply' # "silent" => DeletionAnswered'
  BY DEF DeletionAnswered
<1> QED
  BY <1>1, <1>2, <1>3, <1>4, <1>5, <1>6, <1>7, <1>8, <1>9, <1>10, <1>11 DEF Next

\* The inductive invariant behind the next two theorems.
LEMMA MappedAlways ==
    ASSUME Stress \subseteq {"dangle"}, TeidsApart
    PROVE  Spec /\ []MapsRoomy => [](Mapped /\ DeletionAnswered)
<1>1. TypeOK /\ CurOK /\ Kept /\ MapsRoomy /\ Mapped /\ DeletionAnswered /\ [Next]_vars
        => (Mapped /\ DeletionAnswered)'
  BY MappedStep, AnswerStep
<1> QED  BY <1>1, KeptAlways, MappedInit, PTL DEF Spec

\* For any number of peers, sessions, PDRs and addresses: with peers that create
\* what they name, give every PDR an address of its own and keep it, and with room
\* in the maps, the PDR maps hold between requests exactly the keys of the stored
\* sessions' PDRs, also after deletions, pruned associations and establishments
\* that found their tracker empty (applyPDR, deletePDR, TEIDCache, DeleteSession).
THEOREM MapsFollowSessions ==
    ASSUME Stress \subseteq {"dangle"}, TeidsApart
    PROVE  Spec /\ []MapsRoomy => []MapsMatchSessions
<1>1. Mapped => MapsMatchSessions
  <2> SUFFICES ASSUME Mapped, cur.op = "idle"
               PROVE  {e.key : e \in pdrMap} = {KeyOf(p) : p \in pdrs}
    BY DEF MapsMatchSessions
  <2>1. InMaps = pdrs
    BY DEF InMaps, Gone
  <2>2. \A e \in pdrMap : \E p \in pdrs : e.key = KeyOf(p)
    BY <2>1 DEF Mapped, Mirrored, RowIs
  <2>3. \A p \in pdrs : \E e \in pdrMap : e.key = KeyOf(p)
    BY <2>1 DEF Mapped, Mirrored
  <2> QED  BY <2>2, <2>3
<1> QED  BY <1>1, MappedAlways, PTL

\* Under the same conditions every Session Deletion Request is answered: deletePDR
\* never misses a row, so HandlePfcpSessionDeletionRequest never returns an error.
THEOREM DeletionsAnswered ==
    ASSUME Stress \subseteq {"dangle"}, TeidsApart
    PROVE  Spec /\ []MapsRoomy => []DeletionAnswered
BY MappedAlways, PTL

-----------------------------------------------------------------------------
(* Isolation *)

Named == RulesNamed /\ RulesOwn

\* A step keeps Named when it makes no rule live and adds no PDR, goes on working
\* on the same sessions or is through with them, and leaves the rules of others.
LEMMA NamedShrinks ==
    ASSUME Named, pdrs' \subseteq pdrs, Live' \subseteq Live,
           \A p \in pdrs' : ~Working(cur', p.sess) => ~Working(cur, p.sess),
           \A x \in rules : x \in rules' \/ \A p \in pdrs' : p.sess = x.sess => Working(cur', p.sess)
    PROVE  Named'
<1>1. RulesOwn'
  <2>1. \A p \in pdrs', x \in Live' :
          /\ SlotOf(x) = <<"far", p.far>> => x.sess = p.sess
          /\ SlotOf(x) = <<"qer", p.qer>> /\ p.qer # 0 => x.sess = p.sess
    BY DEF Named, RulesOwn
  <2> QED  BY <2>1 DEF RulesOwn, SlotOf
<1>2. ASSUME NEW p \in pdrs', ~Working(cur', p.sess)
      PROVE  /\ \E x \in rules' : x.sess = p.sess /\ x.kind = "far" /\ x.gid = p.far
             /\ p.qer # 0 => \E x \in rules' : x.sess = p.sess /\ x.kind = "qer" /\ x.gid = p.qer
  <2>1. ~Working(cur, p.sess) /\ p \in pdrs
    BY <1>2
  <2>2. \A x \in rules : x.sess = p.sess => x \in rules'
    BY <1>2
  <2> QED  BY <2>1, <2>2 DEF Named, RulesNamed
<1>3. RulesNamed'
  BY <1>2 DEF RulesNamed, Working
<1> QED  BY <1>1, <1>3 DEF Named

\* A PDR of session s names slots that no other session has.
OwnSlots(p, s) ==
    \A x \in Live : /\ SlotOf(x) = <<"far", p.far>> => x.sess = s
                    /\ SlotOf(x) = <<"qer", p.qer>> /\ p.qer # 0 => x.sess = s

\* extractPDR resolves rule ids to slots of the session, or keeps the slots the PDR
\* had.
LEMMA ExtractedOwns ==
    ASSUME Stress = {}, TypeOK, CurOK, NoSharedRule, Mapped, Named,
           cur.op \in {"est", "mod"},
           NEW o \in {"create", "update"}, NEW i \in PdrId, NEW loc \in Loc,
           NEW sdf \in BOOLEAN, NEW f, NEW q, NEW p,
           p = ExtractedPdr(o, cur.sess, i, f, q, loc, sdf),
           PeerAllows(o, cur.sess, i, f, q, p, loc, sdf)
    PROVE  OwnSlots(p, cur.sess)
<1> DEFINE s == cur.sess
<1>1. s \in Sess /\ Live = rules
  BY DEF CurOK, Live
<1>2. /\ PdrAt(s, i) = {} \/ o = "update"
      /\ o = "update" => \E x \in pdrs : PdrAt(s, i) = {x}
  BY <1>1, PutClean DEF Mapped
<1>3. /\ f = NoRef => o = "update"
      /\ f # NoRef => RuleAt("far", s, f) # {}
      /\ q # NoRef => RuleAt("qer", s, q) # {}
  BY DEF PeerAllows
<1>4. ASSUME NEW k, NEW r, RuleAt(k, s, r) # {}, NEW x \in Live, SlotOf(x) = <<k, GlobalId(k, s, r)>>
      PROVE  x.sess = s
  <2>1. PICK y \in RuleAt(k, s, r) : GlobalId(k, s, r) = y.gid
    BY <1>4 DEF GlobalId
  <2>2. y \in Live /\ SlotOf(y) = <<k, GlobalId(k, s, r)>> /\ y.sess = s
    BY <1>1, <2>1 DEF RuleAt, SlotOf
  <2> QED  BY <1>4, <2>2 DEF NoSharedRule
<1>5. ASSUME o = "update", NEW x \in Live
      PROVE  /\ f = NoRef /\ SlotOf(x) = <<"far", p.far>> => x.sess = s
             /\ q = NoRef /\ SlotOf(x) = <<"qer", p.qer>> /\ p.qer # 0 => x.sess = s
  <2>1. PICK b \in pdrs : PdrAt(s, i) = {b}
    BY <1>2, <1>5
  <2>2. (CHOOSE y \in PdrAt(s, i) : TRUE) = b /\ b.sess = s
    BY <2>1 DEF PdrAt
  <2>3. /\ f = NoRef => p.far = b.far
        /\ q = NoRef => p.qer = b.qer
    BY <1>5, <2>1, <2>2 DEF ExtractedPdr
  <2> QED  BY <2>2, <2>3 DEF Named, RulesOwn
<1>6. /\ f # NoRef => p.far = GlobalId("far", s, f)
      /\ q # NoRef => p.qer = GlobalId("qer", s, q)
      /\ q = NoRef /\ o = "create" => p.qer = 0
  BY DEF ExtractedPdr
<1>7. ASSUME NEW x \in Live, SlotOf(x) = <<"far", p.far>> PROVE x.sess = s
  BY <1>3, <1>4, <1>5, <1>6, <1>7
<1>8. ASSUME NEW x \in Live, SlotOf(x) = <<"qer", p.qer>>, p.qer # 0 PROVE x.sess = s
  BY <1>3, <1>4, <1>5, <1>6, <1>8
<1> QED  BY <1>7, <1>8 DEF OwnSlots

\* Every step keeps Named while there is room.
LEMMA NamedStep ==
    ASSUME Stress = {}, TeidsApart,
           TypeOK, CurOK, Exclusive, Kept, Mapped, Named, Roomy, [Next]_vars
    PROVE  Named'
<1>0. /\ cur \in Request /\ NoSharedRule /\ MapsRoomy
      /\ cur.op \in {"idle", "est", "mod", "del", "prune"}
  BY DEF TypeOK, Request, Exclusive, Roomy
<1>1. ASSUME cur.op = "idle", UNCHANGED <<pdrs, rules>>, cur'.done = {} PROVE Named'
  <2>1. \A s : ~Working(cur, s)
    BY <1>1 DEF Working
  <2>2. cur.done = {}
    BY <1>1 DEF CurOK
  <2> QED  BY <1>1, <2>1, <2>2, NamedShrinks DEF Live
<1>2. ASSUME NEW n \in Node,
             AssociationSetup(n) \/ EstablishmentRequest(n) \/ PruneAssociation(n)
      PROVE  Named'
  BY <1>1, <1>2 DEF AssociationSetup, EstablishmentRequest, PruneAssociation, Idle, CurOK
<1>3. CASE RejectRequest
  BY <1>1, <1>3 DEF RejectRequest, CurOK
<1>4. ASSUME NEW s \in stored, ModificationRequest(s) \/ DeletionRequest(s)
      PROVE  Named'
  BY <1>1, <1>4 DEF ModificationRequest, DeletionRequest, Idle
<1>5. ASSUME cur.op \in {"est", "mod"}, NEW o, cur' = [cur EXCEPT !.stage = o]
      PROVE  /\ Live = rules /\ Live' = rules'
             /\ \A s : Working(cur, s) <=> s = cur.sess
             /\ \A s : Working(cur', s) <=> s = cur.sess
  <2>1. cur.done = {} /\ cur'.done = {} /\ cur'.op = cur.op /\ cur'.sess = cur.sess
    BY <1>0, <1>5, RequestFields DEF CurOK
  <2> QED  BY <1>5, <2>1 DEF Live, Working
<1>6. ASSUME NEW p \in pdrs, p.sess # cur.sess, cur.op \in {"est", "mod"}
      PROVE  /\ <<"far", p.far>> \notin free
             /\ p.qer # 0 => <<"qer", p.qer>> \notin free
  <2>1. ~Working(cur, p.sess) /\ Live = rules
    BY <1>6 DEF Working, Live, CurOK
  <2> QED  BY <1>0, <2>1 DEF Named, RulesNamed, NoSharedRule, SlotOf
<1>7. ASSUME NEW k \in Kind, NEW r \in RuleId[k], NEW i \in InfoOf(k), CreateRule(k, r, i)
      PROVE  Named'
  <2>1. PICK u \in free : rules' = (rules \ RuleAt(k, cur.sess, r)) \cup
                 {[kind |-> k, sess |-> cur.sess, id |-> r, gid |-> u[2], info |-> i]} /\ u[1] = k
    BY <1>7 DEF CreateRule
  <2> DEFINE new == [kind |-> k, sess |-> cur.sess, id |-> r, gid |-> u[2], info |-> i]
  <2>2. SlotOf(new) = u /\ new.sess = cur.sess
    BY <2>1, SlotMembers DEF TypeOK, SlotOf
  <2>3. rules' = (rules \ RuleAt(k, cur.sess, r)) \cup {new}
    BY <2>1
  <2> HIDE DEF new
  <2>4. /\ cur.op \in {"est", "mod"} /\ UNCHANGED pdrs
        /\ cur' = [cur EXCEPT !.stage = Stage(k, "create")]
    BY <1>7 DEF CreateRule, MayCreate, Reached
  <2>5. /\ Live = rules /\ Live' = rules'
        /\ \A s : Working(cur, s) <=> s = cur.sess
        /\ \A s : Working(cur', s) <=> s = cur.sess
    BY <1>5, <2>4
  <2>6. \A p \in pdrs', x \in Live' :
          /\ SlotOf(x) = <<"far", p.far>> => x.sess = p.sess
          /\ SlotOf(x) = <<"qer", p.qer>> /\ p.qer # 0 => x.sess = p.sess
    <3>1. ASSUME NEW p \in pdrs
          PROVE  /\ SlotOf(new) = <<"far", p.far>> => new.sess = p.sess
                 /\ SlotOf(new) = <<"qer", p.qer>> /\ p.qer # 0 => new.sess = p.sess
      BY <1>6, <2>2, <2>4
    <3> QED  BY <2>3, <2>4, <2>5, <3>1 DEF Named, RulesOwn
  <2>7. \A x \in rules : x.sess # cur.sess => x \in rules'
    BY <2>3 DEF RuleAt
  <2>8. RulesNamed'
    <3>1. ASSUME NEW p \in pdrs', ~Working(cur', p.sess)
          PROVE  /\ \E x \in rules' : x.sess = p.sess /\ x.kind = "far" /\ x.gid = p.far
                 /\ p.qer # 0 => \E x \in rules' : x.sess = p.sess /\ x.kind = "qer" /\ x.gid = p.qer
      BY <2>4, <2>5, <2>7, <3>1 DEF Named, RulesNamed
    <3> QED  BY <3>1 DEF RulesNamed, Working
  <2> QED  BY <2>6, <2>8 DEF Named, RulesOwn, SlotOf
<1>8. ASSUME NEW k \in Kind, NEW r \in RuleId[k], NEW i \in InfoOf(k), UpdateRule(k, r, i)
      PROVE  Named'
  <2> DEFINE g == GlobalId(k, cur.sess, r)
             new == [kind |-> k, sess |-> cur.sess, id |-> r, gid |-> g, info |-> i]
  <2>1. /\ rules' = (rules \ RuleAt(k, cur.sess, r)) \cup {new}
        /\ RuleAt(k, cur.sess, r) # {}
        /\ cur.op \in {"est", "mod"} /\ UNCHANGED pdrs
        /\ cur' = [cur EXCEPT !.stage = Stage(k, "update")]
    BY <1>8 DEF UpdateRule, Reached
  <2>2. SlotOf(new) = <<k, g>> /\ new.sess = cur.sess
    BY DEF SlotOf
  <2>3. PICK y \in RuleAt(k, cur.sess, r) : g = y.gid
    BY <2>1 DEF GlobalId
  <2> HIDE DEF g, new
  <2>4. y \in rules /\ SlotOf(y) = <<k, g>> /\ y.sess = cur.sess
    BY <2>3 DEF RuleAt, SlotOf
  <2>5. /\ Live = rules /\ Live' = rules'
        /\ \A s : Working(cur, s) <=> s = cur.sess
        /\ \A s : Working(cur', s) <=> s = cur.sess
    BY <1>5, <2>1
  <2>6. \A p \in pdrs', x \in Live' :
          /\ SlotOf(x) = <<"far", p.far>> => x.sess = p.sess
          /\ SlotOf(x) = <<"qer", p.qer>> /\ p.qer # 0 => x.sess = p.sess
    BY <2>1, <2>2, <2>4, <2>5 DEF Named, RulesOwn
  <2>7. \A x \in rules : x.sess # cur.sess => x \in rules'
    BY <2>1 DEF RuleAt
  <2>8. RulesNamed'
    <3>1. ASSUME NEW p \in pdrs', ~Working(cur', p.sess)
          PROVE  /\ \E x \in rules' : x.sess = p.sess /\ x.kind = "far" /\ x.gid = p.far
                 /\ p.qer # 0 => \E x \in rules' : x.sess = p.sess /\ x.kind = "qer" /\ x.gid = p.qer
      BY <2>1, <2>5, <2>7, <3>1 DEF Named, RulesNamed
    <3> QED  BY <3>1 DEF RulesNamed, Working
  <2> QED  BY <2>6, <2>8 DEF Named, RulesOwn, SlotOf
<1>9. ASSUME NEW k \in Kind, NEW r \in RuleId[k], RemoveRule(k, r) PROVE Named'
  <2>1. /\ rules' = rules \ RuleAt(k, cur.sess, r)
        /\ cur.op \in {"est", "mod"} /\ UNCHANGED pdrs
        /\ cur' = [cur EXCEPT !.stage = Stage(k, "remove")]
    BY <1>9 DEF RemoveRule, Reached
  <2>2. \A x \in rules : x.sess # cur.sess => x \in rules'
    BY <2>1 DEF RuleAt
  <2> QED  BY <1>5, <2>1, <2>2, NamedShrinks
<1>10. ASSUME NEW o \in {"create", "update"}, NEW i \in PdrId, NEW loc \in Loc,
              NEW sdf \in Sdf, NEW f, NEW q, PutPdr(o, i, f, q, loc, sdf)
       PROVE  Named'
  <2> DEFINE p == ExtractedPdr(o, cur.sess, i, f, q, loc, sdf)
  <2>1. cur.op \in {"est", "mod"} /\ cur.sess \in Sess /\ sdf \in BOOLEAN
    BY <1>10, ConstantsAssumption DEF PutPdr, Reached, CurOK
  <2>2. p \in PdrRow
    BY <2>1, ExtractedPdrType
  <2>3. KeyOf(p) \in Key
    BY <2>2 DEF KeyOf, Key, PdrRow
  <2>4. /\ pdrs' = (pdrs \ PdrAt(cur.sess, i)) \cup {p}
        /\ cur' = [cur EXCEPT !.stage = Stage("pdr", o)]
        /\ UNCHANGED rules
        /\ PeerAllows(o, cur.sess, i, f, q, p, loc, sdf)
    BY <1>0, <1>10, <2>3 DEF PutPdr, MapsRoomy
  <2>5. OwnSlots(p, cur.sess)
    BY <1>0, <2>1, <2>4, ExtractedOwns
  <2>6. p.sess = cur.sess
    BY DEF ExtractedPdr
  <2> HIDE DEF p
  <2>7. /\ Live' = Live
        /\ \A s : Working(cur, s) <=> s = cur.sess
        /\ \A s : Working(cur', s) <=> s = cur.sess
    BY <1>5, <2>1, <2>4
  <2>8. \A d \in pdrs', x \in Live' :
          /\ SlotOf(x) = <<"far", d.far>> => x.sess = d.sess
          /\ SlotOf(x) = <<"qer", d.qer>> /\ d.qer # 0 => x.sess = d.sess
    BY <2>4, <2>5, <2>6, <2>7 DEF Named, RulesOwn, OwnSlots
  <2>9. RulesNamed'
    <3>1. ASSUME NEW d \in pdrs', ~Working(cur', d.sess)
          PROVE  /\ \E x \in rules' : x.sess = d.sess /\ x.kind = "far" /\ x.gid = d.far
                 /\ d.qer # 0 => \E x \in rules' : x.sess = d.sess /\ x.kind = "qer" /\ x.gid = d.qer
      BY <2>4, <2>6, <2>7, <3>1 DEF Named, RulesNamed
    <3> QED  BY <3>1 DEF RulesNamed, Working
  <2> QED  BY <2>8, <2>9 DEF Named, RulesOwn, SlotOf
<1>11. ASSUME NEW p \in pdrs, RemovePdr(p) PROVE Named'
  <2>1. /\ cur.op = "mod" /\ UNCHANGED rules /\ pdrs' \subseteq pdrs
        /\ p \in InMaps
    BY <1>11 DEF RemovePdr, Reached, InMaps, Gone
  <2>2. ~DeleteFails(p)
    BY <2>1, DropOne DEF Mapped, InMaps
  <2>3. cur' = [cur EXCEPT !.stage = Stage("pdr", "remove"), !.cache = CacheWith(p)]
    BY <1>11, <2>2 DEF RemovePdr
  <2>4. cur'.op = cur.op /\ cur'.sess = cur.sess /\ cur'.done = cur.done
    BY <1>0, <2>3 DEF Request
  <2> QED  BY <2>1, <2>4, NamedShrinks DEF Working, Live
<1>12. ~RequestFails
  BY DEF RequestFails, Roomy
<1>13. CASE RequestDone
  <2>1. /\ cur.op \in {"est", "mod"} /\ cur' = Idle /\ UNCHANGED <<rules, pdrs>>
        /\ NoDangling(cur.sess)
    BY <1>13 DEF RequestDone
  <2>2. \A s : Working(cur, s) <=> s = cur.sess
    BY <2>1 DEF Working
  <2>3. \A p \in pdrs :
          /\ \E x \in rules : x.sess = p.sess /\ x.kind = "far" /\ x.gid = p.far
          /\ p.qer # 0 => \E x \in rules : x.sess = p.sess /\ x.kind = "qer" /\ x.gid = p.qer
    BY <2>1, <2>2 DEF NoDangling, PdrsOf, RulesOf, Named, RulesNamed
  <2>4. RulesNamed'
    BY <2>1, <2>3 DEF RulesNamed
  <2>5. Live' = Live
    BY <2>1 DEF Live, Idle, CurOK
  <2>6. RulesOwn'
    BY <2>1, <2>5 DEF Named, RulesOwn, SlotOf
  <2> QED  BY <2>4, <2>6 DEF Named
<1>14. ASSUME NEW p \in pdrs, DeletionPdr(p) \/ PrunePdr(p) PROVE Named'
  <2>1. cur.op \in {"del", "prune"} /\ p \in cur.left /\ UNCHANGED <<rules, pdrs>>
    BY <1>14 DEF DeletionPdr, PrunePdr
  <2>2. p \in InMaps
    BY <2>1 DEF InMaps, Gone, Mapped, LeftToDo
  <2>3. ~DeleteFails(p)
    BY <2>2, DropOne DEF Mapped, InMaps
  <2>4. cur' = [cur EXCEPT !.left = cur.left \ {p}, !.cache = CacheWith(p)]
    BY <1>14, <2>3 DEF DeletionPdr, PrunePdr
  <2>5. cur'.op = cur.op /\ cur'.sess = cur.sess /\ cur'.done = cur.done
    BY <1>0, <2>4 DEF Request
  <2> QED  BY <2>1, <2>5, NamedShrinks DEF Working, Live
<1>15. ASSUME NEW x \in rules, DeletionRule(x) \/ PruneRule(x) PROVE Named'
  <2>1. PICK kinds \in {Kind, PrunedKinds} : ReleaseNext(kinds, x) /\ UNCHANGED <<rules, pdrs>>
    BY <1>15 DEF DeletionRule, PruneRule
  <2>2. cur' = [cur EXCEPT !.done = @ \cup {x}]
    BY <2>1 DEF ReleaseNext
  <2>3. cur'.op = cur.op /\ cur'.sess = cur.sess /\ cur'.done = cur.done \cup {x}
    BY <1>0, <2>2 DEF Request
  <2> QED  BY <2>1, <2>3, NamedShrinks DEF Working, Live
<1>16. CASE DeletionDone
  <2>1. /\ cur.op = "del" /\ cur' = Idle
        /\ rules' = rules \ RulesOf(cur.sess) /\ pdrs' = pdrs \ PdrsOf(cur.sess)
        /\ \A x \in cur.done : x.sess = cur.sess
    BY <1>16 DEF DeletionDone, CurOK
  <2>2. \A s : Working(cur, s) <=> s = cur.sess
    BY <2>1 DEF Working
  <2>3. Live' \subseteq Live
    BY <2>1 DEF Live, RulesOf
  <2> QED  BY <2>1, <2>2, <2>3, NamedShrinks DEF RulesOf, PdrsOf
<1>17. ASSUME NEW s \in cur.pending, PruneSession(s) PROVE Named'
  <2>1. /\ UNCHANGED <<rules, pdrs>> /\ cur'.done = cur.done
        /\ cur.op = "prune" /\ cur'.op = "prune" /\ cur'.sess = s /\ s[1] = cur.sess[1]
    BY <1>17 DEF PruneSession, TypeOK, Request, CurOK
  <2> QED  BY <2>1, NamedShrinks DEF Working, Live
<1>18. CASE PruneDone
  <2>1. /\ cur.op = "prune" /\ cur' = Idle
        /\ rules' = {x \in rules : x.sess[1] # cur.sess[1]}
        /\ pdrs' = {p \in pdrs : p.sess[1] # cur.sess[1]}
        /\ \A x \in cur.done : x.sess[1] = cur.sess[1]
    BY <1>18 DEF PruneDone, CurOK
  <2>2. \A s : Working(cur, s) <=> s[1] = cur.sess[1]
    BY <2>1 DEF Working
  <2>3. Live' \subseteq Live
    BY <2>1 DEF Live
  <2> QED  BY <2>1, <2>2, <2>3, NamedShrinks
<1>19. CASE UNCHANGED vars
  BY <1>19, NamedShrinks DEF vars, Live, Working
<1> QED
  BY <1>2, <1>3, <1>4, <1>7, <1>8, <1>9, <1>10, <1>11, <1>12, <1>13, <1>14, <1>15, <1>16,
     <1>17, <1>18, <1>19 DEF Next

\* The inductive invariant behind isolation.
LEMMA NamedAlways ==
    ASSUME Stress = {}, TeidsApart
    PROVE  Spec /\ []Roomy => [](TypeOK /\ CurOK /\ Exclusive /\ Mapped /\ Named)
<1>1. Init => Named
  BY DEF Init, Named, RulesNamed, RulesOwn
<1>2. TypeOK /\ CurOK /\ Exclusive /\ Kept /\ Mapped /\ Named /\ Roomy /\ [Next]_vars => Named'
  BY NamedStep
<1>3. Roomy => MapsRoomy
  BY DEF Roomy
<1>4. Spec => [](TypeOK /\ CurOK /\ Exclusive)
  BY ExclusiveAlways
<1>5. Spec /\ []MapsRoomy => [](Mapped /\ DeletionAnswered)
  BY MappedAlways
<1> QED  BY <1>1, <1>2, <1>3, <1>4, <1>5, KeptAlways, PTL DEF Spec

\* For any number of peers, sessions and rules: with peers that keep to the
\* protocol and trackers and maps that have room, packets of a session never go
\* through a FAR or a QER of another session, in the middle of every request and
\* while associations are pruned (session handlers, GlobalId lookups of extractPDR,
\* IdTracker, the PDR maps).
THEOREM ForwardingIsIsolated ==
    ASSUME Stress = {}, TeidsApart
    PROVE  Spec /\ []Roomy => []IsolatedForwarding
<1>1. Mapped /\ Named => IsolatedForwarding
  <2> SUFFICES ASSUME Mapped, Named, NEW e \in pdrMap, NEW x \in Live,
                      SlotOf(x) \in Uses(e), SlotOf(x) # <<"qer", 0>>
               PROVE  x.sess = e.owner
    BY DEF IsolatedForwarding
  <2>1. PICK p \in pdrs : RowIs(e, p)
    BY DEF Mapped, Mirrored, InMaps
  <2>2. SlotOf(x) = <<"far", p.far>> \/ SlotOf(x) = <<"qer", p.qer>>
    BY <2>1 DEF RowIs, Uses
  <2>3. x.sess = p.sess
    BY <2>2 DEF Named, RulesOwn
  <2> QED  BY <2>1, <2>3 DEF RowIs
<1>2. Spec /\ []Roomy => [](TypeOK /\ CurOK /\ Exclusive /\ Mapped /\ Named)
  BY NamedAlways
<1> QED  BY <1>1, <1>2, PTL
=============================================================================
