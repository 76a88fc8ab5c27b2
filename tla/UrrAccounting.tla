----------------------------- MODULE UrrAccounting -----------------------------
(***************************************************************************)
(* Usage reporting: the volumes of urr_map, in one direction.  Packets add *)
(* to them on every CPU (update_urr of cmd/ebpf/xdp/urr.h, called by       *)
(* n3n6_entrypoint.c), the session handlers set, read and zero them        *)
(* (NewUrr, UpdateUrr, DeleteUrr of cmd/ebpf/pdr.go).                      *)
(*                                                                         *)
(* urr->ul += bytes is a read and a write of the row; DeleteUrr is a       *)
(* Lookup and an Update.  Nothing locks the row, so steps of other CPUs    *)
(* and of the handlers (one goroutine) come in between.  What a request    *)
(* deletes is reported in its answer, which a later failure of the same    *)
(* request replaces by a bare cause.  A deletion that is refused is so     *)
(* before its URR loop, and changes nothing here.                          *)
(***************************************************************************)
EXTENDS Integers

CONSTANTS
    Cpu,        \* CPUs that run the XDP program
    Size,       \* sizes of packets
    UrrSlots,   \* size of urr_map
    MaxVolume   \* bound: bytes counted

ASSUME UrrAssumption ==
    /\ Size \subseteq Nat
    /\ UrrSlots \in Nat \ {0}
    /\ MaxVolume \in Nat

Slot == 0 .. UrrSlots - 1

VARIABLES
    volume,    \* urr_map
    held,      \* ids the tracker has handed out
    cpu,       \* the packet each CPU is at
    request,   \* the request being handled
    deleting,  \* the DeleteUrr being executed
    reported,  \* volumes sent in usage reports (history)
    carried,   \* bytes of the packets let through, each packet once (history)
    doubled,   \* bytes counted by the second update_urr of a packet (history)
    lost,      \* bytes that may go unreported, as named below (history)
    again      \* bytes that may be reported again, by the race named below (history)

handlerVars == <<held, request, deleting>>
vars == <<volume, handlerVars, cpu, reported, carried, doubled, lost, again>>

\* left is the number of update_urr calls the packet still has, adding tells that
\* one of them has read the row and not yet written it; raced that another CPU
\* was adding at the same time (history).
Packet == [left : 0 .. 2, adding : BOOLEAN, read : Nat, size : Nat, raced : BOOLEAN]
Between(left, size) ==
    [left |-> left, adding |-> FALSE, read |-> 0, size |-> size, raced |-> FALSE]
NoPacket == Between(0, 0)

\* The list of a request that is walked (1 Create URR, 2 Update URR, 3 Remove URR
\* or the URRs of a deleted session), and the volumes of removedURRs or
\* deletedURRs, the usage reports that wait for the answer.
Lists == [est |-> {1}, mod |-> {1, 2, 3}, del |-> {3}]
Request == [op : {"none"} \cup DOMAIN Lists, list : 1 .. 3, reports : Nat]
NoRequest == [op |-> "none", list |-> 1, reports |-> 0]

\* The slot and what Lookup returned.
Deletion == [slot : Slot, looked : Nat]
NoDeletion == [slot |-> -1, looked |-> 0]

\* Every variable has its type.
TypeOK ==
    /\ volume \in [Slot -> Nat]
    /\ held \subseteq Slot
    /\ cpu \in [Cpu -> Packet]
    /\ request \in Request
    /\ deleting \in Deletion \cup {NoDeletion}
    /\ reported \in Nat /\ carried \in Nat /\ doubled \in Nat
    /\ lost \in Nat /\ again \in Nat

Init ==
    /\ volume = [s \in Slot |-> 0]
    /\ held = {}
    /\ cpu = [c \in Cpu |-> NoPacket]
    /\ request = NoRequest
    /\ deleting = NoDeletion
    /\ reported = 0 /\ carried = 0 /\ doubled = 0 /\ lost = 0 /\ again = 0

-----------------------------------------------------------------------------
(* The datapath *)

\* urr1_id and urr2_id of a PDR map row: CombinePdrWithSdf and
\* ToIpEntrypointPdrInfo copy neither, so both are 0.
RowUrr == 0

\* Other CPUs that are adding to the row.
Adding(c) == {d \in Cpu \ {c} : cpu[d].adding}

\* A packet that passed its QER calls update_urr for urr1_id and for urr2_id.
Receive(c, size) ==
    /\ cpu[c].left = 0
    /\ carried + doubled + 2 * size <= MaxVolume
    /\ cpu' = [cpu EXCEPT ![c] = Between(2, size)]
    /\ UNCHANGED <<volume, handlerVars, reported, carried, doubled, lost, again>>

\* The read of urr->ul += bytes.
ReadVolume(c) ==
    /\ cpu[c].left > 0
    /\ ~cpu[c].adding
    /\ cpu' = [d \in Cpu |->
                IF d = c
                THEN [cpu[c] EXCEPT !.adding = TRUE, !.read = volume[RowUrr],
                                    !.raced = Adding(c) # {}]
                ELSE [cpu[d] EXCEPT !.raced = @ \/ cpu[d].adding]]
    /\ UNCHANGED <<volume, handlerVars, reported, carried, doubled, lost, again>>

\* What a write does to the histories.  The bytes may be lost when another CPU was
\* adding too, or when a deletion has read the row already.
Counted(c) ==
    /\ carried' = carried + (IF cpu[c].left = 2 THEN cpu[c].size ELSE 0)
    /\ doubled' = doubled + (IF cpu[c].left = 2 THEN 0 ELSE cpu[c].size)
    /\ lost' = lost + (IF cpu[c].raced \/ deleting # NoDeletion THEN cpu[c].size ELSE 0)
    /\ UNCHANGED <<reported, again>>

\* Its write, after which the packet goes on to its second call or leaves.
WriteVolume(c) ==
    /\ cpu[c].adding
    /\ volume' = [volume EXCEPT ![RowUrr] = cpu[c].read + cpu[c].size]
    /\ cpu' = [cpu EXCEPT ![c] = IF @.left = 1 THEN NoPacket ELSE Between(1, @.size)]
    /\ Counted(c)
    /\ UNCHANGED handlerVars

-----------------------------------------------------------------------------
(* The handlers *)

\* An establishment, a modification or a deletion comes to its URRs.
BeginRequest(op) ==
    /\ request = NoRequest
    /\ request' = [NoRequest EXCEPT !.op = op]
    /\ UNCHANGED <<volume, held, deleting, cpu, reported, carried, doubled, lost, again>>

\* The request has a list l of URRs and is not past it.
Reached(l) ==
    /\ deleting = NoDeletion
    /\ request.op \in DOMAIN Lists
    /\ l \in Lists[request.op]
    /\ request.list <= l

\* The slots a URR id of an Update or a Remove URR may mean: a map lookup gives the
\* zero SUrrInfo for an id the session does not have, and its GlobalId is 0.
Named == held \cup {0}

\* What the row had is overwritten with zeros, and lost: updateUrr sets no field,
\* so the UrrInfo of a create and of an update is zero.
SetToZero(s) ==
    /\ volume' = [volume EXCEPT ![s] = 0]
    /\ lost' = lost + volume[s]
    /\ UNCHANGED <<cpu, deleting, reported, carried, doubled, again>>

\* Create URR: the tracker gives its lowest free id.
NewUrr(s) ==
    /\ Reached(1)
    /\ s \in Slot \ held
    /\ \A t \in Slot \ held : s <= t
    /\ held' = held \cup {s}
    /\ SetToZero(s)
    /\ UNCHANGED request

\* Update URR
UpdateUrr(s) ==
    /\ Reached(2)
    /\ s \in Named
    /\ SetToZero(s)
    /\ request' = [request EXCEPT !.list = 2]
    /\ UNCHANGED held

\* Mutant of LookupUrr: the id after the right one is released.
LookupUrrOffByOne(s) ==
    /\ Reached(3)
    /\ s \in IF request.op = "del" THEN held ELSE Named
    /\ deleting' = [slot |-> s + 1, looked |-> volume[s]]
    /\ request' = [request EXCEPT !.list = 3]
    /\ UNCHANGED <<volume, held, cpu, reported, carried, doubled, lost, again>>

\* Remove URR or Session Deletion, which walks the URRs the session has: the
\* Lookup of DeleteUrr.
LookupUrr(s) ==
    /\ Reached(3)
    /\ s \in IF request.op = "del" THEN held ELSE Named
    /\ deleting' = [slot |-> s, looked |-> volume[s]]
    /\ request' = [request EXCEPT !.list = 3]
    /\ UNCHANGED <<volume, held, cpu, reported, carried, doubled, lost, again>>

\* Mutant of ReleaseUrr: the row is not zeroed.
ReleaseUrrKeepsVolume ==
    /\ deleting # NoDeletion
    /\ held' = held \ {deleting.slot}
    /\ request' = [request EXCEPT !.reports = @ + deleting.looked]
    /\ again' = again + (IF \E c \in Cpu : cpu[c].adding THEN deleting.looked ELSE 0)
    /\ deleting' = NoDeletion
    /\ UNCHANGED <<volume, cpu, reported, carried, doubled, lost>>

\* ReleaseURR, the Update with zeros, and the usage report, which waits for the
\* answer.  What was looked up may come back into the row, through a packet that
\* read it before.
ReleaseUrr ==
    /\ deleting # NoDeletion
    /\ held' = held \ {deleting.slot}
    /\ volume' = [volume EXCEPT ![deleting.slot] = 0]
    /\ request' = [request EXCEPT !.reports = @ + deleting.looked]
    /\ again' = again + (IF \E c \in Cpu : cpu[c].adding THEN deleting.looked ELSE 0)
    /\ deleting' = NoDeletion
    /\ UNCHANGED <<cpu, reported, carried, doubled, lost>>

\* Mutant of RequestDone: the reports are not put into the answer.
RequestDoneSilently ==
    /\ request # NoRequest
    /\ deleting = NoDeletion
    /\ request' = NoRequest
    /\ UNCHANGED <<volume, held, deleting, cpu, reported, carried, doubled, lost, again>>

\* The request is accepted, and its answer carries the reports.
RequestDone ==
    /\ request # NoRequest
    /\ deleting = NoDeletion
    /\ reported' = reported + request.reports
    /\ request' = NoRequest
    /\ UNCHANGED <<volume, held, deleting, cpu, carried, doubled, lost, again>>

\* An error of an establishment or a modification, in its URRs or in the PDRs that
\* come after them: the answer has only a cause, and the reports are dropped.
RequestFails ==
    /\ request.op \in {"est", "mod"}
    /\ deleting = NoDeletion
    /\ lost' = lost + request.reports
    /\ request' = NoRequest
    /\ UNCHANGED <<volume, held, deleting, cpu, reported, carried, doubled, again>>

-----------------------------------------------------------------------------
Next ==
    \/ \E c \in Cpu :
         \/ \E size \in Size : Receive(c, size)
         \/ ReadVolume(c)
         \/ WriteVolume(c)
    \/ \E op \in DOMAIN Lists : BeginRequest(op)
    \/ \E s \in Slot : NewUrr(s) \/ UpdateUrr(s) \/ LookupUrr(s)
    \/ ReleaseUrr
    \/ RequestDone
    \/ RequestFails

Spec == Init /\ [][Next]_vars

-----------------------------------------------------------------------------
(* Properties *)

\* What was reported, what waits to be, and what the row still has to report.
Usage == reported + request.reports + volume[RowUrr]

\* No more usage is reported than packets carried, but for two excesses: the
\* second update_urr of each packet, which finds urr2_id = urr1_id = 0 and counts
\* its bytes a second time, and the volume of a URR that is deleted while a packet
\* is between its read and its write of the row, which puts back what was just
\* taken out, for whoever has the slot next to report again.
NothingOverreported == Usage <= carried + doubled + again

\* Nothing that update_urr counted goes unreported but for four losses: packets that
\* two CPUs added at the same time, packets that came between the Lookup and the
\* Update of a deletion, rows that an Update URR or Create URR overwrites, and the
\* reports of a modification that fails after its Remove URRs.
NothingUnreported == carried + doubled <= Usage + lost
=============================================================================
