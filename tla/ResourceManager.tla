---------------------------- MODULE ResourceManager ----------------------------
(***************************************************************************)
(* The pools of TEIDs (FTEIDM) and UE addresses (IPAM) of                  *)
(* cmd/core/service/resource_manager.go.  Every operation holds the lock   *)
(* of its pool from its first to its last statement, so it is one step.    *)
(*                                                                         *)
(* Callers are free to give any key: which keys the session handlers give  *)
(* is not part of this module.                                             *)
(***************************************************************************)
EXTENDS Integers, Sequences, FiniteSets

CONSTANTS
    TeidRange,   \* teid_pool, 0 when feature_ftup is off
    IpRange,     \* addresses of ueip_pool after the first, 0 when feature_ueip is off
    SeId,        \* session ids callers give as key
    PdrId        \* PDR ids callers give as key

ASSUME PoolAssumption == TeidRange \in Nat /\ IpRange \in Nat

Teids == 1 .. TeidRange
Ips == 1 .. IpRange      \* addresses by their offset in the network

VARIABLES
    freeTEIDs,   \* FTEIDM.freeTEIDs
    busyTEIDs,   \* FTEIDM.busyTEIDs, as rows of the two-level map
    freeIPs,     \* IPAM.freeIPs
    busyIPs      \* IPAM.busyIPs, as rows

fteidm == <<freeTEIDs, busyTEIDs>>
ipam == <<freeIPs, busyIPs>>
vars == <<freeTEIDs, busyTEIDs, freeIPs, busyIPs>>

TeidRow == [seID : SeId, pdrID : PdrId, teid : Teids]
IpRow == [seID : SeId, ip : Ips]

\* Every variable has its type.
TypeOK ==
    /\ freeTEIDs \in Seq(Teids)
    /\ busyTEIDs \subseteq TeidRow
    /\ freeIPs \in Seq(Ips)
    /\ busyIPs \subseteq IpRow

-----------------------------------------------------------------------------
\* Mutant of Init: the TEIDs start at 0.
InitFromZero ==
    /\ freeTEIDs = [i \in Teids |-> i - 1]
    /\ busyTEIDs = {}
    /\ freeIPs = [i \in Ips |-> i]
    /\ busyIPs = {}

\* NewResourceManager
Init ==
    /\ freeTEIDs = [i \in Teids |-> i]
    /\ busyTEIDs = {}
    /\ freeIPs = [i \in Ips |-> i]
    /\ busyIPs = {}

\* The orders in which a Go map can be walked through.
Orders(S) ==
    {f \in [1 .. Cardinality(S) -> S] :
        \A i, j \in 1 .. Cardinality(S) : f[i] = f[j] => i = j}

TeidRows(seID) == {b \in busyTEIDs : b.seID = seID}

\* The oldest free TEID goes to the PDR; a TEID it had is forgotten.
AllocateTEID(seID, pdrID) ==
    /\ freeTEIDs # <<>>
    /\ freeTEIDs' = Tail(freeTEIDs)
    /\ busyTEIDs' = {b \in busyTEIDs : b.seID # seID \/ b.pdrID # pdrID}
                      \cup {[seID |-> seID, pdrID |-> pdrID, teid |-> Head(freeTEIDs)]}
    /\ UNCHANGED ipam

\* Mutant of ReleaseTEID: the rows stay in busyTEIDs.
ReleaseTEIDKeepsBusy(seID) ==
    /\ \E order \in Orders({b.teid : b \in TeidRows(seID)}) :
         freeTEIDs' = freeTEIDs \o order
    /\ UNCHANGED busyTEIDs
    /\ UNCHANGED ipam

ReleaseTEID(seID) ==
    /\ \E order \in Orders({b.teid : b \in TeidRows(seID)}) :
         freeTEIDs' = freeTEIDs \o order
    /\ busyTEIDs' = busyTEIDs \ TeidRows(seID)
    /\ UNCHANGED ipam

AllocateIP(seID) ==
    /\ freeIPs # <<>>
    /\ freeIPs' = Tail(freeIPs)
    /\ busyIPs' = {b \in busyIPs : b.seID # seID}
                    \cup {[seID |-> seID, ip |-> Head(freeIPs)]}
    /\ UNCHANGED fteidm

\* Mutant of ReleaseIP: the address does not go back to the free list.
ReleaseIPForgets(seID) ==
    /\ busyIPs' = {b \in busyIPs : b.seID # seID}
    /\ UNCHANGED freeIPs
    /\ UNCHANGED fteidm

ReleaseIP(seID) ==
    /\ \E b \in busyIPs :
         /\ b.seID = seID
         /\ freeIPs' = Append(freeIPs, b.ip)
         /\ busyIPs' = busyIPs \ {b}
    /\ UNCHANGED fteidm

\* An allocation from an empty pool ("no free TEID available", "no free ip
\* available") and a release of an unknown key change nothing.
Next ==
    \E s \in SeId :
        \/ \E p \in PdrId : AllocateTEID(s, p)
        \/ ReleaseTEID(s)
        \/ AllocateIP(s)
        \/ ReleaseIP(s)

Spec == Init /\ [][Next]_vars

-----------------------------------------------------------------------------
(* Properties *)

\* A free list holds no id twice.
Distinct(list) == \A i, j \in DOMAIN list : list[i] = list[j] => i = j

Listed(list) == {list[i] : i \in DOMAIN list}

\* No id is given to two holders: no TEID or address is at once free and busy,
\* free twice, or busy for two keys, through any mix of allocations, repeated
\* releases and reused keys.
NoDoubleHandout ==
    /\ Distinct(freeTEIDs)
    /\ \A b \in busyTEIDs : b.teid \notin Listed(freeTEIDs)
    /\ \A b, c \in busyTEIDs : b.teid = c.teid => b = c
    /\ Distinct(freeIPs)
    /\ \A b \in busyIPs : b.ip \notin Listed(freeIPs)
    /\ \A b, c \in busyIPs : b.ip = c.ip => b = c

\* Where each TEID and each address is: with the keys that have it, in the free
\* list (<<>>), or nowhere.
TeidPlaces ==
    [t \in Teids |-> {<<b.seID, b.pdrID>> : b \in {c \in busyTEIDs : c.teid = t}}
                      \cup (IF t \in Listed(freeTEIDs) THEN {<<>>} ELSE {})]

IpPlaces ==
    [a \in Ips |-> {<<b.seID>> : b \in {c \in busyIPs : c.ip = a}}
                    \cup (IF a \in Listed(freeIPs) THEN {<<>>} ELSE {})]

TeidPool == INSTANCE IdPool WITH
    Id <- Teids, Holder <- SeId \X PdrId, Free <- <<>>, places <- TeidPlaces

IpPool == INSTANCE IdPool WITH
    Id <- Ips, Holder <- {<<s>> : s \in SeId}, Free <- <<>>, places <- IpPlaces

\* FTEIDM and IPAM implement the pool: whatever their callers do, an id is with
\* one key at a time, returns to the free list before it goes to another, and is
\* lost in one way only, when its key is given again before it was released.
PoolsKeepPromise == TeidPool!Spec /\ IpPool!Spec
=============================================================================
