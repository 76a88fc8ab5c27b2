-------------------------- MODULE UrrAccountingProofs --------------------------
(***************************************************************************)
(* Proofs about UrrAccounting, for any number of CPUs, any packet sizes    *)
(* and any size of urr_map.                                                *)
(***************************************************************************)
EXTENDS UrrAccounting, TLAPS

\* x is a value the row may have or be given: neither too much nor too little for
\* what was reported or waits to be, counted, lost and put back.
Fits(x) ==
    /\ reported + request.reports + x <= carried + doubled + again
    /\ carried + doubled <= reported + request.reports + x + lost

\* The row fits, and so does every copy of it that somebody is going to use: the
\* value a packet has read and the value a deletion has looked up.  A packet knows
\* when another one is between its read and its write.
Inv ==
    /\ TypeOK
    /\ \A s \in Slot \ {RowUrr} : volume[s] = 0
    /\ Fits(volume[RowUrr])
    /\ \A c \in Cpu : cpu[c].adding => Fits(cpu[c].read)
    /\ deleting # NoDeletion =>
         IF deleting.slot = RowUrr THEN Fits(deleting.looked) ELSE deleting.looked = 0
    /\ \A c, d \in Cpu : c # d /\ cpu[c].adding /\ cpu[d].adding => cpu[c].raced

\* Nothing is counted and nothing reported at first.
LEMMA InvInit == Init => Inv
  BY UrrAssumption DEF Init, Inv, TypeOK, Fits, Slot, RowUrr, Packet, NoPacket,
     Between, Deletion, NoDeletion, Request, NoRequest, Lists

\* A packet is of type Packet whichever way it is changed.
LEMMA PacketTypes ==
    ASSUME TypeOK, NEW c \in Cpu
    PROVE  /\ cpu[c].left \in 0 .. 2 /\ cpu[c].adding \in BOOLEAN
           /\ cpu[c].read \in Nat /\ cpu[c].size \in Nat /\ cpu[c].raced \in BOOLEAN
  BY DEF TypeOK, Packet

LEMMA SlotZero == RowUrr \in Slot
  BY UrrAssumption DEF RowUrr, Slot

\* Every step keeps the invariant.
LEMMA InvStep == Inv /\ [Next]_vars => Inv'
<1> SUFFICES ASSUME Inv, [Next]_vars PROVE Inv'
  OBVIOUS
<1> USE SlotZero
<1>0. /\ TypeOK
      /\ volume[RowUrr] \in Nat /\ reported \in Nat /\ carried \in Nat
      /\ doubled \in Nat /\ lost \in Nat /\ again \in Nat
      /\ request \in Request /\ request.reports \in Nat
  BY DEF Inv, TypeOK, Request
<1>1. ASSUME NEW c \in Cpu, NEW size \in Size, Receive(c, size) PROVE Inv'
  <2>1. /\ cpu[c].left = 0
        /\ cpu' = [cpu EXCEPT ![c] = Between(2, size)]
        /\ UNCHANGED <<volume, handlerVars, reported, carried, doubled, lost, again>>
    BY <1>1 DEF Receive
  <2>2. Between(2, size) \in Packet /\ Between(2, size).adding = FALSE
    BY UrrAssumption DEF Between, Packet
  <2>3. cpu'[c].adding = FALSE /\ \A d \in Cpu \ {c} : cpu'[d] = cpu[d]
    BY <1>0, <2>1, <2>2 DEF TypeOK
  <2>4. TypeOK'
    BY <1>0, <2>1, <2>2 DEF TypeOK, handlerVars
  <2> QED  BY <2>1, <2>3, <2>4 DEF Inv, Fits, handlerVars
<1>2. ASSUME NEW c \in Cpu, ReadVolume(c) PROVE Inv'
  <2>1. /\ UNCHANGED <<volume, handlerVars, reported, carried, doubled, lost, again>>
        /\ ~cpu[c].adding
    BY <1>2 DEF ReadVolume
  <2>2. cpu'[c] = [cpu[c] EXCEPT !.adding = TRUE, !.read = volume[RowUrr],
                                 !.raced = Adding(c) # {}]
    BY <1>2 DEF ReadVolume
  <2>3. \A d \in Cpu \ {c} : cpu'[d] = [cpu[d] EXCEPT !.raced = cpu[d].raced \/ cpu[d].adding]
    BY <1>2 DEF ReadVolume
  <2>4. /\ cpu'[c].adding = TRUE /\ cpu'[c].read = volume[RowUrr]
        /\ cpu'[c].raced = (Adding(c) # {}) /\ cpu'[c] \in Packet
    <3> DEFINE others == Adding(c) # {}
    <3>1. others \in BOOLEAN
      OBVIOUS
    <3>2. cpu'[c] = [cpu[c] EXCEPT !.adding = TRUE, !.read = volume[RowUrr], !.raced = others]
      BY <2>2
    <3> HIDE DEF others
    <3>3. /\ cpu'[c].adding = TRUE /\ cpu'[c].read = volume[RowUrr]
          /\ cpu'[c].raced = others /\ cpu'[c] \in Packet
      BY <1>0, <3>1, <3>2 DEF TypeOK, Packet
    <3> QED  BY <3>3 DEF others
  <2>5. \A d \in Cpu \ {c} :
           /\ cpu'[d].adding = cpu[d].adding /\ cpu'[d].read = cpu[d].read
           /\ cpu'[d].raced = (cpu[d].raced \/ cpu[d].adding) /\ cpu'[d] \in Packet
    BY <1>0, <2>3, PacketTypes DEF TypeOK, Packet
  <2>6. cpu' \in [Cpu -> Packet]
    BY <1>2, <2>4, <2>5 DEF ReadVolume
  <2>7. TypeOK'
    BY <1>0, <2>1, <2>6 DEF TypeOK, handlerVars
  <2>8. \A d \in Cpu : cpu'[d].adding => Fits(cpu'[d].read)
    BY <2>4, <2>5 DEF Inv
  <2>9. \A d, e \in Cpu : d # e /\ cpu'[d].adding /\ cpu'[e].adding => cpu'[d].raced
    BY <2>4, <2>5 DEF Adding
  <2> QED  BY <2>1, <2>7, <2>8, <2>9 DEF Inv, Fits, handlerVars
<1>3. ASSUME NEW c \in Cpu, WriteVolume(c) PROVE Inv'
  <2> DEFINE p == IF cpu[c].left = 1 THEN NoPacket ELSE Between(1, cpu[c].size)
  <2>1. /\ cpu[c].adding
        /\ volume' = [volume EXCEPT ![RowUrr] = cpu[c].read + cpu[c].size]
        /\ cpu' = [cpu EXCEPT ![c] = p]
        /\ UNCHANGED <<held, request, deleting, reported, again>>
    BY <1>3 DEF WriteVolume, Counted, handlerVars
  <2>2. lost' = lost + (IF cpu[c].raced \/ deleting # NoDeletion THEN cpu[c].size ELSE 0)
    BY <1>3 DEF WriteVolume, Counted
  <2>3. p \in Packet /\ p.adding = FALSE
    <3>1. cpu[c].size \in Nat
      BY <1>0, PacketTypes
    <3>2. Between(0, 0) \in Packet /\ Between(0, 0).adding = FALSE
      BY DEF Between, Packet
    <3>3. Between(1, cpu[c].size) \in Packet /\ Between(1, cpu[c].size).adding = FALSE
      BY <3>1 DEF Between, Packet
    <3> QED  BY <3>2, <3>3 DEF NoPacket
  <2> HIDE DEF p
  <2>4. cpu[c].size \in Nat /\ cpu[c].read \in Nat /\ lost' \in Nat
        /\ lost <= lost' /\ lost' <= lost + cpu[c].size
        /\ carried' \in Nat /\ doubled' \in Nat
        /\ carried' + doubled' = carried + doubled + cpu[c].size
    <3>1. /\ carried' = carried + (IF cpu[c].left = 2 THEN cpu[c].size ELSE 0)
          /\ doubled' = doubled + (IF cpu[c].left = 2 THEN 0 ELSE cpu[c].size)
      BY <1>3 DEF WriteVolume, Counted
    <3> QED  BY <1>0, <2>2, <3>1, PacketTypes
  <2>5. /\ volume'[RowUrr] = cpu[c].read + cpu[c].size
        /\ \A s \in Slot \ {RowUrr} : volume'[s] = volume[s]
        /\ volume' \in [Slot -> Nat]
    BY <1>0, <2>1, <2>4 DEF TypeOK
  <2>6. cpu'[c].adding = FALSE /\ \A d \in Cpu \ {c} : cpu'[d] = cpu[d]
    BY <1>0, <2>1, <2>3 DEF TypeOK
  <2>7. TypeOK'
    BY <1>0, <2>1, <2>3, <2>4, <2>5 DEF TypeOK
  <2>8. Fits(cpu[c].read)
    BY <2>1 DEF Inv
  <2>9. Fits(volume[RowUrr])'
    BY <1>0, <2>1, <2>4, <2>5, <2>8 DEF Fits
  <2>10. ASSUME NEW d \in Cpu, cpu'[d].adding PROVE Fits(cpu[d].read)'
    <3>1. d # c /\ cpu'[d] = cpu[d] /\ cpu[d].adding
      BY <2>6, <2>10
    <3>2. cpu[c].raced /\ Fits(cpu[d].read)
      BY <2>1, <3>1 DEF Inv
    <3>3. lost' = lost + cpu[c].size /\ cpu[d].read \in Nat
      BY <1>0, <2>2, <3>2, PacketTypes
    <3> QED  BY <1>0, <2>1, <2>4, <3>1, <3>2, <3>3 DEF Fits
  <2>11. ASSUME deleting # NoDeletion, deleting.slot = RowUrr PROVE Fits(deleting.looked)'
    <3>1. lost' = lost + cpu[c].size
      BY <2>2, <2>11
    <3>2. Fits(deleting.looked) /\ deleting.looked \in Nat
      BY <1>0, <2>11 DEF Inv, TypeOK, Deletion
    <3> QED  BY <1>0, <2>1, <2>4, <3>1, <3>2 DEF Fits
  <2> QED  BY <2>1, <2>5, <2>6, <2>7, <2>9, <2>10, <2>11 DEF Inv
<1>4. ASSUME NEW s \in Slot, SetToZero(s), held' \subseteq Slot,
             request' \in Request, request'.reports = request.reports
      PROVE  Inv'
  <2>1. /\ volume' = [volume EXCEPT ![s] = 0]
        /\ lost' = lost + volume[s]
        /\ UNCHANGED <<cpu, deleting, reported, carried, doubled, again>>
    BY <1>4 DEF SetToZero
  <2>2. volume[s] \in Nat /\ volume'[s] = 0 /\ \A t \in Slot \ {s} : volume'[t] = volume[t]
    BY <1>0, <2>1 DEF TypeOK
  <2>3. TypeOK'
    BY <1>0, <1>4, <2>1, <2>2 DEF TypeOK
  <2>5. Fits(volume[RowUrr])'
    BY <1>0, <1>4, <2>1, <2>2 DEF Inv, Fits
  <2>6. \A c \in Cpu : cpu'[c].adding => Fits(cpu[c].read)'
    <3>1. ASSUME NEW c \in Cpu, cpu'[c].adding PROVE Fits(cpu[c].read)'
      <4>1. Fits(cpu[c].read) /\ cpu[c].read \in Nat
        BY <1>0, <2>1, <3>1, PacketTypes DEF Inv
      <4> QED  BY <1>0, <1>4, <2>1, <2>2, <4>1 DEF Fits
    <3> QED  BY <3>1
  <2>7. ASSUME deleting # NoDeletion, deleting.slot = RowUrr PROVE Fits(deleting.looked)'
    <3>1. Fits(deleting.looked) /\ deleting.looked \in Nat
      BY <1>0, <2>7 DEF Inv, TypeOK, Deletion
    <3> QED  BY <1>0, <1>4, <2>1, <2>2, <3>1 DEF Fits
  <2> QED  BY <2>1, <2>2, <2>3, <2>5, <2>6, <2>7 DEF Inv
<1>5. ASSUME NEW s \in Slot, NewUrr(s) PROVE Inv'
  <2>1. SetToZero(s) /\ held' \subseteq Slot /\ request' = request
    BY <1>0, <1>5 DEF NewUrr, TypeOK
  <2> QED  BY <1>0, <1>4, <2>1
<1>6. ASSUME NEW s \in Slot, UpdateUrr(s) PROVE Inv'
  <2>1. SetToZero(s) /\ held' \subseteq Slot /\ request' = [request EXCEPT !.list = 2]
    BY <1>0, <1>6 DEF UpdateUrr, TypeOK
  <2>2. request' \in Request /\ request'.reports = request.reports
    BY <1>0, <2>1 DEF Request
  <2> QED  BY <1>4, <2>1, <2>2
<1>7. ASSUME NEW s \in Slot, LookupUrr(s) PROVE Inv'
  <2>1. /\ deleting' = [slot |-> s, looked |-> volume[s]]
        /\ request' = [request EXCEPT !.list = 3]
        /\ UNCHANGED <<volume, held, cpu, reported, carried, doubled, lost, again>>
    BY <1>7 DEF LookupUrr
  <2>2. deleting' \in Deletion /\ request' \in Request /\ request'.reports = request.reports
    BY <1>0, <2>1 DEF TypeOK, Deletion, Request
  <2>3. TypeOK'
    BY <1>0, <2>1, <2>2 DEF TypeOK
  <2>4. IF deleting'.slot = RowUrr THEN Fits(deleting'.looked) ELSE deleting'.looked = 0
    BY <2>1 DEF Inv
  <2> QED  BY <2>1, <2>2, <2>3, <2>4 DEF Inv, Fits
<1>8. ASSUME ReleaseUrr PROVE Inv'
  <2>1. /\ deleting # NoDeletion
        /\ held' = held \ {deleting.slot}
        /\ volume' = [volume EXCEPT ![deleting.slot] = 0]
        /\ request' = [request EXCEPT !.reports = request.reports + deleting.looked]
        /\ again' = again + (IF \E c \in Cpu : cpu[c].adding THEN deleting.looked ELSE 0)
        /\ deleting' = NoDeletion
        /\ UNCHANGED <<cpu, reported, carried, doubled, lost>>
    BY <1>8 DEF ReleaseUrr
  <2>2. deleting.slot \in Slot /\ deleting.looked \in Nat
    BY <1>0, <2>1 DEF TypeOK, Deletion
  <2>3. /\ volume'[deleting.slot] = 0
        /\ \A t \in Slot \ {deleting.slot} : volume'[t] = volume[t]
        /\ again' \in Nat
        /\ request' \in Request /\ request'.reports = request.reports + deleting.looked
    BY <1>0, <2>1, <2>2 DEF TypeOK, Request
  <2>4. TypeOK'
    BY <1>0, <2>1, <2>2, <2>3 DEF TypeOK
  <2>5. ASSUME NEW c \in Cpu, cpu[c].adding PROVE Fits(cpu[c].read)'
    <3>1. Fits(cpu[c].read) /\ cpu[c].read \in Nat
      BY <1>0, <2>5, PacketTypes DEF Inv
    <3>2. again' = again + deleting.looked
      BY <2>1, <2>5
    <3> QED  BY <1>0, <2>1, <2>2, <2>3, <3>1, <3>2 DEF Fits
  <2>6. Fits(volume[RowUrr])'
    <3>1. CASE deleting.slot = RowUrr
      <4>1. Fits(deleting.looked)
        BY <2>1, <3>1 DEF Inv
      <4>2. again' >= again /\ volume'[RowUrr] = 0
        BY <1>0, <2>1, <2>2, <2>3, <3>1
      <4> QED  BY <1>0, <2>1, <2>2, <2>3, <4>1, <4>2 DEF Fits
    <3>2. CASE deleting.slot # RowUrr
      <4>1. deleting.looked = 0 /\ volume'[RowUrr] = volume[RowUrr] /\ again' = again
        BY <1>0, <2>1, <2>3, <3>2 DEF Inv
      <4> QED  BY <1>0, <2>1, <2>3, <4>1 DEF Inv, Fits
    <3> QED  BY <3>1, <3>2
  <2> QED  BY <2>1, <2>3, <2>4, <2>5, <2>6 DEF Inv
<1>9. ASSUME NEW op \in DOMAIN Lists, BeginRequest(op) PROVE Inv'
  <2>1. /\ request = NoRequest /\ request' = [NoRequest EXCEPT !.op = op]
        /\ UNCHANGED <<volume, held, deleting, cpu, reported, carried, doubled, lost, again>>
    BY <1>9 DEF BeginRequest
  <2>2. request' \in Request /\ request'.reports = request.reports
    BY <1>0, <2>1 DEF Request, NoRequest
  <2>3. TypeOK'
    BY <1>0, <2>1, <2>2 DEF TypeOK
  <2> QED  BY <2>1, <2>2, <2>3 DEF Inv, Fits
<1>10. ASSUME RequestDone \/ RequestFails PROVE Inv'
  <2>1. /\ request' = NoRequest
        /\ UNCHANGED <<volume, held, deleting, cpu, carried, doubled, again>>
        /\ \/ reported' = reported + request.reports /\ lost' = lost
           \/ reported' = reported /\ lost' = lost + request.reports
    BY <1>10 DEF RequestDone, RequestFails
  <2>2. request' \in Request /\ request'.reports = 0
    BY <2>1 DEF Request, NoRequest
  <2>3. TypeOK'
    BY <1>0, <2>1, <2>2 DEF TypeOK
  <2>4. ASSUME NEW x \in Nat, Fits(x)
        PROVE  /\ reported' + request'.reports + x <= carried' + doubled' + again'
               /\ carried' + doubled' <= reported' + request'.reports + x + lost'
    BY <1>0, <2>1, <2>2, <2>4 DEF Fits
  <2>5. \A c \in Cpu : cpu[c].adding => cpu[c].read \in Nat /\ Fits(cpu[c].read)
    BY <1>0, PacketTypes DEF Inv
  <2>6. deleting # NoDeletion => deleting.looked \in Nat
    BY <1>0 DEF TypeOK, Deletion
  <2> QED  BY <1>0, <2>1, <2>3, <2>4, <2>5, <2>6 DEF Inv, Fits
<1>11. CASE UNCHANGED vars
  BY <1>11 DEF vars, handlerVars, Inv, TypeOK, Fits
<1> QED
  BY <1>1, <1>2, <1>3, <1>5, <1>6, <1>7, <1>8, <1>9, <1>10, <1>11 DEF Next

\* The invariant holds throughout.
LEMMA InvAlways == Spec => []Inv
  BY InvInit, InvStep, PTL DEF Spec

\* Rows, copies of rows and totals are numbers, and a deletion is of a slot of the
\* map, for any number of CPUs and any interleaving of packets and handlers.
THEOREM AccountingTypes == Spec => []TypeOK
<1>1. Inv => TypeOK
  BY DEF Inv
<1> QED  BY <1>1, InvAlways, PTL

\* On any number of CPUs, whatever the handlers do between the read and the write
\* of a packet: usage is reported beyond the bytes that packets carried only by
\* the second update_urr of each packet, and through packets that were adding
\* during a deletion.
THEOREM OverreportingIsKnown == Spec => []NothingOverreported
<1>1. Inv => NothingOverreported
  BY DEF Inv, TypeOK, Request, Fits, NothingOverreported, Usage
<1> QED  BY <1>1, InvAlways, PTL

\* On any number of CPUs, whatever the handlers do between the read and the write
\* of a packet: counted bytes go unreported only in the races update_urr and
\* DeleteUrr leave open, where a create or an update overwrites the row, and when
\* a modification fails that has deleted a URR.
THEOREM UsageAccounted == Spec => []NothingUnreported
<1>1. Inv => NothingUnreported
  BY DEF Inv, TypeOK, Request, Fits, NothingUnreported, Usage
<1> QED  BY <1>1, InvAlways, PTL
=============================================================================
