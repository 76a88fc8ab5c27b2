------------------------- MODULE PfcpAssociationProofs -------------------------
(***************************************************************************)
(* Proofs about PfcpAssociation, for any peers, any number of retries, any *)
(* width of the sequence numbers and any loss, delay and duplication.      *)
(***************************************************************************)
EXTENDS PfcpAssociation, TLAPS

\* A running scheduler works for a peer.
SchedulersHavePeers == \A o \in Obj : sched[o].pc # "off" => sched[o].node \in Node

Inv == TypeOK /\ SchedulersHavePeers /\ OneScheduler

\* What the invariant says of associations and schedulers.
Links(a, s) ==
    /\ \A n \in Node : a[n] # NoObj => s[a[n]].pc # "off" /\ s[a[n]].node = n
    /\ \A o \in Obj : s[o].pc # "off" => s[o].node \in Node /\ a[s[o].node] = o

\* The invariant is its type part, no nil dereference, and the links.
LEMMA InvIsLinks ==
    Inv <=> TypeOK /\ run.pc # "panic" /\ Links(assoc, sched)
BY DEF Inv, SchedulersHavePeers, OneScheduler, Links

\* Messages have their type.
LEMMA MsgType ==
    ASSUME NEW t \in {"hbReq", "hbRsp", "askSetup", "setup"}, NEW n \in Node,
           NEW s \in 0 .. WireMod - 1
    PROVE  Msg(t, n, s) \in Message
BY DEF Msg, Message

\* The bounds of the sequence numbers.
LEMMA SeqBounds ==
    /\ 0 \in 0 .. WireMod - 1
    /\ 1 % CounterMod \in 0 .. CounterMod - 1
    /\ 0 \in 0 .. CounterMod - 1
    /\ \A i \in Nat : (i + 1) % CounterMod \in 0 .. CounterMod - 1
    /\ \A i \in Nat : i % WireMod \in 0 .. WireMod - 1
BY HeartbeatAssumption

\* A position of the Run goroutine between messages has its type.
LEMMA AtType ==
    ASSUME NEW pc \in {"select", "receive", "deliver", "panic"}
    PROVE  At(pc) \in RunState /\ At(pc).pc = pc
BY SeqBounds DEF At, RunState

\* A scheduler that moves on, for the same peer, keeps its association.
LEMMA MoveKeepsLinks ==
    ASSUME NEW o \in Obj, sched \in [Obj -> SchedState], Links(assoc, sched),
           sched[o].pc # "off", NEW r \in SchedState, r.pc # "off",
           r.node = sched[o].node, sched' = [sched EXCEPT ![o] = r],
           assoc \in [Node -> Obj \cup {NoObj}], UNCHANGED assoc
    PROVE  Links(assoc, sched)' /\ sched' \in [Obj -> SchedState]
BY HeartbeatAssumption DEF Links

\* At the start there are no associations and no schedulers.
LEMMA InvInit == Init => Inv
<1> SUFFICES ASSUME Init PROVE Inv
  OBVIOUS
<1>1. run \in RunState /\ run.pc # "panic"
  BY AtType DEF Init
<1>2. Off \in SchedState /\ Off.pc = "off"
  BY SeqBounds DEF Off, SchedState
<1>3. TypeOK
  BY <1>1, <1>2, HeartbeatAssumption DEF Init, TypeOK
<1>4. Links(assoc, sched)
  BY <1>2 DEF Init, Links
<1> QED  BY <1>1, <1>3, <1>4, InvIsLinks

\* Every step of Run, of a scheduler, of a peer or of the network keeps the
\* invariant.
LEMMA InvStep == Inv /\ [Next]_vars => Inv'
<1> SUFFICES ASSUME Inv, [Next]_vars PROVE Inv'
  OBVIOUS
<1>0. TypeOK /\ run.pc # "panic" /\ Links(assoc, sched)
  BY InvIsLinks
<1>q. ASSUME TypeOK', run'.pc # "panic", Links(assoc, sched)' PROVE Inv'
  BY <1>q DEF Inv, SchedulersHavePeers, OneScheduler, Links
<1>k. ASSUME UNCHANGED <<assoc, sched>> PROVE Links(assoc, sched)'
  BY <1>0, <1>k DEF Links
<1>1. CASE EnterReceive \/ ReceiveNothing
  <2>1. run' \in RunState /\ run'.pc # "panic"
    BY <1>1, AtType DEF EnterReceive, ReceiveNothing
  <2>2. UNCHANGED <<assoc, sched, net, alive, missed, dups>>
    BY <1>1 DEF EnterReceive, ReceiveNothing
  <2>3. TypeOK'
    BY <1>0, <2>1, <2>2 DEF TypeOK
  <2> QED  BY <1>q, <1>k, <2>1, <2>2, <2>3
<1>2. CASE Tick
  <2>1. net' \subseteq Message
    BY <1>0, <1>2, MsgType, SeqBounds, HeartbeatAssumption DEF Tick, TypeOK
  <2>2. UNCHANGED <<run, assoc, sched, alive, missed, dups>>
    BY <1>2 DEF Tick
  <2>3. TypeOK'
    BY <1>0, <2>1, <2>2 DEF TypeOK
  <2> QED  BY <1>0, <1>q, <1>k, <2>2, <2>3
<1>3. ASSUME NEW m, Take(m) PROVE net' \subseteq net /\ dups' \in 0 .. MaxDup
  BY <1>0, <1>3, HeartbeatAssumption DEF Take, TypeOK
<1>4. ASSUME NEW n \in Node, ReceiveSetup(n) PROVE Inv'
  <2>1. /\ net' \subseteq net /\ dups' \in 0 .. MaxDup
        /\ run' \in RunState /\ run'.pc # "panic"
        /\ UNCHANGED <<alive, missed>>
    BY <1>3, <1>4, AtType DEF ReceiveSetup
  <2>2. CASE assoc[n] # NoObj
    <3>1. UNCHANGED <<assoc, sched>>
      BY <1>4, <2>2 DEF ReceiveSetup
    <3>2. TypeOK'
      BY <1>0, <2>1, <3>1 DEF TypeOK
    <3> QED  BY <1>q, <1>k, <2>1, <3>1, <3>2
  <2>3. CASE assoc[n] = NoObj
    <3>1. /\ NewObject(n) \in Obj
          /\ sched[NewObject(n)].pc = "off"
          /\ \A m \in Node : assoc[m] # NewObject(n)
      BY <1>4, <2>3 DEF ReceiveSetup, NewObject, Fresh
    <3>2. /\ assoc' = [assoc EXCEPT ![n] = NewObject(n)]
          /\ sched' = [sched EXCEPT ![NewObject(n)] = NewAssociation(n)]
      BY <1>4, <2>3 DEF ReceiveSetup
    <3>3. /\ NewAssociation(n) \in SchedState
          /\ NewAssociation(n).pc # "off"
          /\ NewAssociation(n).node = n
      BY SeqBounds DEF NewAssociation, SchedState
    <3> HIDE DEF NewObject, NewAssociation
    <3>4. /\ assoc \in [Node -> Obj \cup {NoObj}]
          /\ sched \in [Obj -> SchedState]
      BY <1>0 DEF TypeOK
    <3>5. TypeOK'
      BY <1>0, <2>1, <3>1, <3>2, <3>3 DEF TypeOK
    <3>6. Links(assoc, sched)'
      BY <1>0, <2>3, <3>1, <3>2, <3>3, <3>4, HeartbeatAssumption DEF Links
    <3> QED  BY <1>q, <2>1, <3>5, <3>6
  <2> QED  BY <2>2, <2>3
<1>5. ASSUME NEW n \in Node, ReceiveHeartbeatResponse(n) PROVE Inv'
  <2>1. PICK s \in 0 .. WireMod - 1 :
           /\ Take(Msg("hbRsp", n, s))
           /\ run' = IF assoc[n] = NoObj THEN At("select")
                     ELSE [pc |-> "deliver", obj |-> assoc[n], seq |-> s]
    BY <1>5 DEF ReceiveHeartbeatResponse
  <2>2. run' \in RunState /\ run'.pc # "panic"
    BY <1>0, <2>1, AtType DEF RunState, TypeOK
  <2>3. /\ net' \subseteq net /\ dups' \in 0 .. MaxDup
        /\ missed' = [missed EXCEPT ![n] = 0]
        /\ UNCHANGED <<assoc, sched, alive>>
    BY <1>3, <1>5, <2>1 DEF ReceiveHeartbeatResponse
  <2>4. TypeOK'
    BY <1>0, <2>2, <2>3 DEF TypeOK
  <2> QED  BY <1>q, <1>k, <2>2, <2>3, <2>4
<1>6. ASSUME NEW n \in Node,
             PeerAnswers(n) \/ PeerSetup(n) \/ PeerIgnores(n) \/ Lose(n) \/ PeerUpOrDown(n)
      PROVE  Inv'
  <2>1. UNCHANGED <<run, assoc, sched, dups>>
    BY <1>6 DEF PeerAnswers, PeerSetup, PeerIgnores, Lose, PeerUpOrDown
  <2>2. net' \subseteq Message
    <3>1. CASE PeerAnswers(n)
      <4>1. PICK m \in net :
               \/ net' = (net \ {m}) \cup {Msg("hbRsp", n, m.seq)}
               \/ net' = (net \ {m}) \cup {Msg("setup", n, 0)}
        BY <3>1 DEF PeerAnswers
      <4>2. m \in Message
        BY <1>0 DEF TypeOK
      <4>3. m.seq \in 0 .. WireMod - 1
        BY <4>2 DEF Message
      <4>4. Msg("hbRsp", n, m.seq) \in Message /\ Msg("setup", n, 0) \in Message
        BY <4>3, MsgType, SeqBounds
      <4> QED  BY <1>0, <4>1, <4>4 DEF TypeOK
    <3>2. CASE PeerSetup(n)
      BY <1>0, <3>2, MsgType, SeqBounds DEF PeerSetup, TypeOK
    <3>3. CASE PeerIgnores(n) \/ Lose(n) \/ PeerUpOrDown(n)
      BY <1>0, <3>3 DEF PeerIgnores, Lose, PeerUpOrDown, TypeOK
    <3> QED  BY <1>6, <3>1, <3>2, <3>3
  <2>3. alive' \in [Node -> BOOLEAN]
    <3>1. CASE PeerUpOrDown(n)
      BY <1>0, <3>1 DEF PeerUpOrDown, TypeOK
    <3>2. CASE UNCHANGED alive
      BY <1>0, <3>2 DEF TypeOK
    <3> QED  BY <1>6, <3>1, <3>2 DEF PeerAnswers, PeerSetup, PeerIgnores, Lose
  <2>4. missed' \in [Node -> Nat]
    <3>1. OneMoreMissed(n) \in [Node -> Nat] /\ missed \in [Node -> Nat]
      BY <1>0, HeartbeatAssumption DEF OneMoreMissed, TypeOK
    <3> QED  BY <1>6, <3>1
             DEF PeerAnswers, PeerSetup, PeerIgnores, Lose, PeerUpOrDown
  <2>5. TypeOK'
    BY <1>0, <2>1, <2>2, <2>3, <2>4 DEF TypeOK
  <2> QED  BY <1>0, <1>q, <1>k, <2>1, <2>5
<1>7. ASSUME NEW o \in Obj, HeartbeatFailed(o) PROVE Inv'
  <2>1. /\ sched[o].pc = "failing"
        /\ sched' = [sched EXCEPT ![o] = Off]
        /\ assoc' = [assoc EXCEPT ![sched[o].node] = NoObj]
        /\ missed' = [missed EXCEPT ![sched[o].node] = 0]
        /\ UNCHANGED <<net, alive, dups>>
    BY <1>7 DEF HeartbeatFailed, Failing
  <2>2. sched[o].node \in Node /\ assoc[sched[o].node] = o
    BY <1>0, <2>1 DEF Links
  <2>3. run' = run
    BY <1>7, <2>2, HeartbeatAssumption DEF HeartbeatFailed
  <2>4. Off \in SchedState /\ Off.pc = "off"
    BY SeqBounds DEF Off, SchedState
  <2>5. /\ assoc \in [Node -> Obj \cup {NoObj}]
        /\ sched \in [Obj -> SchedState]
    BY <1>0 DEF TypeOK
  <2>6. TypeOK'
    BY <1>0, <2>1, <2>3, <2>4 DEF TypeOK
  <2>7. Links(assoc, sched)'
    BY <1>0, <2>1, <2>2, <2>4, <2>5, HeartbeatAssumption DEF Links
  <2> QED  BY <1>0, <1>q, <2>3, <2>6, <2>7
<1>8. ASSUME NEW o \in Obj,
             SendHeartbeat(o) \/ HandleHeartbeat(o) \/ IntervalOver(o) \/ HeartbeatTimeout(o)
      PROVE  Inv'
  <2>0. sched[o] \in SchedState /\ sched[o].pc # "off" /\ sched \in [Obj -> SchedState]
    BY <1>0, <1>8
    DEF TypeOK, SendHeartbeat, HandleHeartbeat, IntervalOver, HeartbeatTimeout
  <2>1. UNCHANGED <<assoc, alive, missed, dups>>
    BY <1>8 DEF SendHeartbeat, HandleHeartbeat, IntervalOver, HeartbeatTimeout
  <2>2. run' \in RunState /\ run'.pc # "panic"
    BY <1>0, <1>8, AtType
    DEF TypeOK, SendHeartbeat, HandleHeartbeat, IntervalOver, HeartbeatTimeout
  <2>3. net' \subseteq Message
    <3>1. CASE SendHeartbeat(o)
      <4>1. sched[o].node \in Node /\ sched[o].seq \in Nat
        BY <1>0, <2>0 DEF Links, SchedState
      <4>2. (sched[o].seq + 1) % CounterMod \in Nat
        BY <4>1, SeqBounds
      <4>3. Msg("hbReq", sched[o].node, ((sched[o].seq + 1) % CounterMod) % WireMod) \in Message
        BY <4>1, <4>2, MsgType, SeqBounds
      <4> QED  BY <1>0, <3>1, <4>3 DEF SendHeartbeat, TypeOK
    <3>2. CASE UNCHANGED net
      BY <1>0, <3>2 DEF TypeOK
    <3> QED  BY <1>8, <3>1, <3>2 DEF HandleHeartbeat, IntervalOver, HeartbeatTimeout
  <2>4. PICK r \in SchedState : /\ r.pc # "off"
                                /\ r.node = sched[o].node
                                /\ sched' = [sched EXCEPT ![o] = r]
    <3>1. CASE SendHeartbeat(o)
      <4> DEFINE s == (sched[o].seq + 1) % CounterMod
                 r == [sched[o] EXCEPT !.pc = "wait", !.seq = s]
      <4>1. s \in 0 .. CounterMod - 1
        BY <2>0, SeqBounds DEF SchedState
      <4>2. sched' = [sched EXCEPT ![o] = r]
        BY <2>0, <3>1 DEF SendHeartbeat
      <4> HIDE DEF s
      <4>3. r \in SchedState /\ r.pc = "wait" /\ r.node = sched[o].node
        BY <2>0, <4>1 DEF SchedState
      <4> QED  BY <4>2, <4>3
    <3>2. CASE HandleHeartbeat(o)
      <4> DEFINE r == IF run.seq = sched[o].seq
                      THEN [sched[o] EXCEPT !.pc = "interval", !.failed = 0, !.cut = FALSE]
                      ELSE [sched[o] EXCEPT !.pc = "send", !.cut = @ \/ sched[o].seq >= WireMod]
      <4>1. sched' = [sched EXCEPT ![o] = r]
        BY <2>0, <3>2 DEF HandleHeartbeat
      <4>2. r \in SchedState /\ r.pc # "off" /\ r.node = sched[o].node
        BY <2>0 DEF SchedState
      <4> QED  BY <4>1, <4>2
    <3>3. CASE IntervalOver(o)
      <4> DEFINE r == [sched[o] EXCEPT !.pc = "send"]
      <4>1. sched' = [sched EXCEPT ![o] = r]
        BY <2>0, <3>3 DEF IntervalOver
      <4>2. r \in SchedState /\ r.pc # "off" /\ r.node = sched[o].node
        BY <2>0 DEF SchedState
      <4> QED  BY <4>1, <4>2
    <3>4. CASE HeartbeatTimeout(o)
      <4> DEFINE pc == IF sched[o].failed + 1 >= Retries THEN "failing" ELSE "send"
                 r == [sched[o] EXCEPT !.failed = @ + 1, !.pc = pc]
      <4>1. sched' = [sched EXCEPT ![o] = r]
        BY <2>0, <3>4 DEF HeartbeatTimeout
      <4>2. pc \in {"failing", "send"}
        OBVIOUS
      <4> HIDE DEF pc
      <4>3. sched[o].failed + 1 \in Nat
        BY <2>0 DEF SchedState
      <4>4. /\ r \in SchedState
            /\ r.pc = pc
            /\ r.node = sched[o].node
        BY <2>0, <4>2, <4>3 DEF SchedState
      <4> QED  BY <4>1, <4>2, <4>4
    <3> QED  BY <1>8, <3>1, <3>2, <3>3, <3>4
  <2>5. Links(assoc, sched)' /\ sched' \in [Obj -> SchedState]
    BY <1>0, <2>0, <2>1, <2>4, MoveKeepsLinks DEF TypeOK
  <2>6. TypeOK'
    BY <1>0, <2>1, <2>2, <2>3, <2>5 DEF TypeOK
  <2> QED  BY <1>q, <2>2, <2>5, <2>6
<1>9. CASE UNCHANGED vars
  BY <1>9 DEF vars, Inv, TypeOK, SchedulersHavePeers, OneScheduler
<1> QED  BY <1>1, <1>2, <1>4, <1>5, <1>6, <1>7, <1>8, <1>9 DEF Next

\* The invariant holds throughout.
LEMMA InvAlways == Spec => []Inv
  BY InvInit, InvStep, PTL DEF Spec

\* Goroutines, associations and messages keep their types, and sequence numbers
\* stay within the widths of the counter and of the wire.
THEOREM AssociationTypes == Spec => []TypeOK
<1>1. Inv => TypeOK
  BY DEF Inv
<1> QED  BY <1>1, InvAlways, PTL

\* However messages are lost, delayed and repeated, and however often peers come
\* and go: every association has exactly the one scheduler that was started for
\* it, and DeleteAssociation never dereferences nil.
THEOREM AssociationsAreWatched == Spec => []OneScheduler
<1>1. Inv => OneScheduler
  BY DEF Inv
<1> QED  BY <1>1, InvAlways, PTL

-----------------------------------------------------------------------------
(* Networks that answer in time *)

\* Answers reach the scheduler before heartbeat_timeout or not at all, and nothing is
\* duplicated.
TimelyNetwork == ~Late /\ MaxDup = 0

\* The heartbeat of n or its answer, while the network has it.
IsHeartbeat(m, n) == m.node = n /\ m.type \in {"hbReq", "hbRsp"}
Heartbeats(w, n) == {m \in w : IsHeartbeat(m, n)}

\* Run hands an answer to o.
Delivering(r, o) == r.pc = "deliver" /\ r.obj = o

\* k heartbeats in a row or more, or as many as prune, went unanswered.
Unanswered(x, k) == k <= x \/ Retries <= x

\* What the network and Run carry belongs to the request a scheduler waits for.
OneAtATime ==
    /\ \A n \in Node : \A m \in Heartbeats(net, n) :
         /\ assoc[n] # NoObj
         /\ sched[assoc[n]].pc = "wait"
         /\ m.seq = sched[assoc[n]].seq % WireMod
         /\ ~Delivering(run, assoc[n])
         /\ \A k \in Heartbeats(net, n) : k = m
    /\ run.pc = "deliver" =>
         /\ run.obj \in Obj
         /\ sched[run.obj].pc = "wait"
         /\ run.seq = sched[run.obj].seq % WireMod

\* While no answer came back cut, failedHeartbeats counts heartbeats that went
\* unanswered in a row; a scheduler that waits for what is no longer under way has one
\* more.
FailuresCounted ==
    \A o \in Obj : sched[o].pc # "off" /\ ~sched[o].cut =>
        /\ sched[o].pc = "failing" => sched[o].failed >= Retries
        /\ ~Delivering(run, o) => Unanswered(missed[sched[o].node], sched[o].failed)
        /\ sched[o].pc = "wait" /\ ~Delivering(run, o) /\ Heartbeats(net, sched[o].node) = {} =>
             Unanswered(missed[sched[o].node], sched[o].failed + 1)

Timely == OneAtATime /\ FailuresCounted

\* Msg has the fields it is given.
LEMMA MsgFields ==
    ASSUME NEW t, NEW n, NEW q
    PROVE  Msg(t, n, q).type = t /\ Msg(t, n, q).node = n /\ Msg(t, n, q).seq = q
BY DEF Msg

\* Which of them are heartbeats of k.
LEMMA MsgKinds ==
    ASSUME NEW n, NEW q, NEW k
    PROVE  /\ ~IsHeartbeat(Msg("setup", n, q), k) /\ ~IsHeartbeat(Msg("askSetup", n, q), k)
           /\ IsHeartbeat(Msg("hbReq", n, q), k) <=> k = n
           /\ IsHeartbeat(Msg("hbRsp", n, q), k) <=> k = n
BY MsgFields DEF IsHeartbeat

\* What Heartbeats picks, and what becomes of it when a message comes or goes.
LEMMA HeartbeatMembers ==
    ASSUME NEW w, NEW n, NEW m
    PROVE  m \in Heartbeats(w, n) <=> m \in w /\ IsHeartbeat(m, n)
BY DEF Heartbeats

LEMMA OtherMessage ==
    ASSUME NEW w, NEW n, NEW m, ~IsHeartbeat(m, n)
    PROVE  /\ Heartbeats(w \cup {m}, n) = Heartbeats(w, n)
           /\ Heartbeats(w \ {m}, n) = Heartbeats(w, n)
<1>1. \A k : k \in Heartbeats(w \cup {m}, n) <=> k \in Heartbeats(w, n)
  BY HeartbeatMembers
<1>2. \A k : k \in Heartbeats(w \ {m}, n) <=> k \in Heartbeats(w, n)
  BY HeartbeatMembers
<1> QED  BY <1>1, <1>2

LEMMA ItsMessage ==
    ASSUME NEW w, NEW n, NEW m, IsHeartbeat(m, n)
    PROVE  /\ Heartbeats(w \cup {m}, n) = Heartbeats(w, n) \cup {m}
           /\ Heartbeats(w \ {m}, n) = Heartbeats(w, n) \ {m}
<1>1. \A k : k \in Heartbeats(w \cup {m}, n) <=> k \in Heartbeats(w, n) \cup {m}
  BY HeartbeatMembers
<1>2. \A k : k \in Heartbeats(w \ {m}, n) <=> k \in Heartbeats(w, n) \ {m}
  BY HeartbeatMembers
<1> QED  BY <1>1, <1>2

\* Steps that touch neither heartbeats nor schedulers.
LEMMA QuietKeepsTimely ==
    ASSUME Timely, UNCHANGED <<assoc, sched, missed>>,
           \A n \in Node : Heartbeats(net', n) = Heartbeats(net, n),
           \A o \in Obj : sched[o].pc # "off" => sched[o].node \in Node,
           run' = run \/ (run.pc # "deliver" /\ run'.pc # "deliver")
    PROVE  Timely'
<1>1. \A o : Delivering(run', o) = Delivering(run, o)
  BY DEF Delivering
<1>2. \A n, k : Unanswered(missed'[n], k) = Unanswered(missed[n], k)
  BY DEF Unanswered
<1>3. OneAtATime'
  BY <1>1 DEF Timely, OneAtATime
<1>4. FailuresCounted'
  BY <1>1, <1>2 DEF Timely, FailuresCounted
<1> QED  BY <1>3, <1>4 DEF Timely

\* With no duplicates a message that is taken is gone.
LEMMA TakeRemoves ==
    ASSUME TimelyNetwork, TypeOK, NEW m, Take(m)
    PROVE  m \in net /\ net' = net \ {m}
BY HeartbeatAssumption DEF TimelyNetwork, TypeOK, Take

\* Nothing is under way at first.
LEMMA TimelyInit == Init => Timely
<1> SUFFICES ASSUME Init PROVE Timely
  OBVIOUS
<1>1. \A o \in Obj : sched[o].pc = "off"
  BY DEF Init, Off
<1>2. \A n \in Node : Heartbeats(net, n) = {}
  BY DEF Init, Heartbeats
<1>3. run.pc = "select"
  BY DEF Init, At
<1> QED  BY <1>1, <1>2, <1>3 DEF Timely, OneAtATime, FailuresCounted


\* While answers come in time, every step keeps heartbeats and counts together.
LEMMA TimelyStep ==
    ASSUME TimelyNetwork, Inv, Timely, [Next]_vars
    PROVE  Timely'
<1>0. /\ TypeOK /\ run.pc # "panic" /\ Links(assoc, sched)
      /\ \A o \in Obj : sched[o].pc # "off" => sched[o].node \in Node
  BY InvIsLinks DEF Links
<1>a. /\ assoc \in [Node -> Obj \cup {NoObj}]
      /\ sched \in [Obj -> SchedState]
      /\ missed \in [Node -> Nat]
      /\ Retries \in Nat
  BY <1>0, HeartbeatAssumption DEF TypeOK
<1>m. ASSUME NEW n \in Node PROVE missed[n] \in Nat
  BY <1>a
<1>f. ASSUME NEW o \in Obj PROVE sched[o].failed \in Nat /\ sched[o].seq \in 0 .. CounterMod - 1
  BY <1>a DEF SchedState
<1>1. CASE EnterReceive \/ ReceiveNothing
  <2>1. /\ UNCHANGED <<assoc, sched, missed, net>>
        /\ run.pc # "deliver" /\ run'.pc # "deliver"
    BY <1>1 DEF EnterReceive, ReceiveNothing, At
  <2>2. \A n \in Node : Heartbeats(net', n) = Heartbeats(net, n)
    BY <2>1 DEF Heartbeats
  <2> QED  BY <1>0, <2>1, <2>2, QuietKeepsTimely
<1>2. CASE Tick
  <2>1. UNCHANGED <<assoc, sched, missed, run>>
    BY <1>2 DEF Tick
  <2>2. \A m : m \in net' <=> m \in net \/ \E n \in Remote : assoc[n] = NoObj /\ m = Msg("askSetup", n, 0)
    BY <1>2 DEF Tick
  <2>3. \A n \in Node : Heartbeats(net', n) = Heartbeats(net, n)
    <3>1. \A n \in Node : \A m : m \in Heartbeats(net', n) <=> m \in Heartbeats(net, n)
      BY <2>2, HeartbeatMembers, MsgKinds
    <3> QED  BY <3>1
  <2> QED  BY <1>0, <2>1, <2>3, QuietKeepsTimely
<1>3. ASSUME NEW n \in Node, ReceiveSetup(n) PROVE Timely'
  <2>1. /\ net' = net \ {Msg("setup", n, 0)}
        /\ run.pc # "deliver" /\ run'.pc # "deliver"
        /\ UNCHANGED missed
    BY <1>0, <1>3, TakeRemoves DEF ReceiveSetup, At
  <2>2. \A k \in Node : Heartbeats(net', k) = Heartbeats(net, k)
    BY <2>1, OtherMessage, MsgKinds
  <2>3. CASE assoc[n] # NoObj
    <3>1. UNCHANGED <<assoc, sched>>
      BY <1>3, <2>3 DEF ReceiveSetup
    <3> QED  BY <1>0, <2>1, <2>2, <3>1, QuietKeepsTimely
  <2>4. CASE assoc[n] = NoObj
    <3>1. /\ NewObject(n) \in Obj
          /\ sched[NewObject(n)].pc = "off"
          /\ \A m \in Node : assoc[m] # NewObject(n)
      BY <1>3, <2>4 DEF ReceiveSetup, NewObject, Fresh
    <3>2. /\ assoc' = [assoc EXCEPT ![n] = NewObject(n)]
          /\ sched' = [sched EXCEPT ![NewObject(n)] = NewAssociation(n)]
      BY <1>3, <2>4 DEF ReceiveSetup
    <3>3. NewAssociation(n).pc = "send" /\ NewAssociation(n).node = n /\ NewAssociation(n).failed = 0
      BY DEF NewAssociation
    <3> HIDE DEF NewObject, NewAssociation
    <3>4. /\ assoc'[n] = NewObject(n) /\ \A k \in Node \ {n} : assoc'[k] = assoc[k]
          /\ sched'[NewObject(n)].pc = "send" /\ sched'[NewObject(n)].node = n
          /\ sched'[NewObject(n)].failed = 0
          /\ \A o \in Obj \ {NewObject(n)} : sched'[o] = sched[o]
      BY <1>a, <3>1, <3>2, <3>3
    <3>5. OneAtATime'
      <4>1. \A k \in Node : \A m \in Heartbeats(net, k) : k # n
        BY <2>4 DEF Timely, OneAtATime
      <4>2. \A k \in Node : assoc[k] # NoObj => assoc[k] \in Obj \ {NewObject(n)}
        BY <1>a, <3>1
      <4>3. \A o : ~Delivering(run', o)
        BY <2>1 DEF Delivering
      <4>4. ASSUME NEW k \in Node, NEW m \in Heartbeats(net, k)
            PROVE  /\ assoc'[k] # NoObj /\ sched'[assoc'[k]].pc = "wait"
                   /\ m.seq = sched'[assoc'[k]].seq % WireMod
                   /\ \A j \in Heartbeats(net, k) : j = m
        <5>1. /\ assoc'[k] = assoc[k] /\ assoc[k] # NoObj
              /\ sched'[assoc[k]] = sched[assoc[k]]
          BY <3>4, <4>1, <4>2, <4>4 DEF Timely, OneAtATime
        <5> QED  BY <4>4, <5>1 DEF Timely, OneAtATime
      <4> QED  BY <2>1, <2>2, <4>3, <4>4 DEF OneAtATime
    <3>6. FailuresCounted'
      <4> SUFFICES ASSUME NEW o \in Obj, sched'[o].pc # "off", ~sched'[o].cut
                   PROVE  /\ sched'[o].pc = "failing" => sched'[o].failed >= Retries
                          /\ Unanswered(missed'[sched'[o].node], sched'[o].failed)
                          /\ sched'[o].pc = "wait" /\ Heartbeats(net', sched'[o].node) = {} =>
                               Unanswered(missed'[sched'[o].node], sched'[o].failed + 1)
        BY DEF FailuresCounted
      <4>1. CASE o = NewObject(n)
        BY <1>m, <3>4, <4>1, <2>1 DEF Unanswered
      <4>2. CASE o # NewObject(n)
        <5>1. sched'[o] = sched[o] /\ sched[o].pc # "off" /\ sched[o].node \in Node
          BY <1>0, <3>4, <4>2
        <5>2. ~Delivering(run, o)
          BY <2>1 DEF Delivering
        <5> QED  BY <2>1, <2>2, <5>1, <5>2 DEF Timely, FailuresCounted, Unanswered
      <4> QED  BY <4>1, <4>2
    <3> QED  BY <3>5, <3>6 DEF Timely
  <2> QED  BY <2>3, <2>4
<1>4. ASSUME NEW n \in Node, ReceiveHeartbeatResponse(n) PROVE Timely'
  <2>1. PICK q \in 0 .. WireMod - 1 :
           /\ Take(Msg("hbRsp", n, q))
           /\ run' = IF assoc[n] = NoObj THEN At("select")
                     ELSE [pc |-> "deliver", obj |-> assoc[n], seq |-> q]
    BY <1>4 DEF ReceiveHeartbeatResponse
  <2>2. /\ Msg("hbRsp", n, q) \in net /\ net' = net \ {Msg("hbRsp", n, q)}
        /\ missed' = [missed EXCEPT ![n] = 0]
        /\ run.pc # "deliver"
        /\ UNCHANGED <<assoc, sched>>
    BY <1>0, <1>4, <2>1, TakeRemoves DEF ReceiveHeartbeatResponse
  <2>3. Msg("hbRsp", n, q) \in Heartbeats(net, n)
    BY <2>2, HeartbeatMembers, MsgKinds
  <2>4. /\ assoc[n] \in Obj
        /\ sched[assoc[n]].pc = "wait" /\ q = sched[assoc[n]].seq % WireMod
        /\ \A k \in Heartbeats(net, n) : k = Msg("hbRsp", n, q)
    BY <1>a, <2>3, MsgFields DEF Timely, OneAtATime
  <2>5. run'.pc = "deliver" /\ run'.obj = assoc[n] /\ run'.seq = q
    BY <2>1, <2>4, HeartbeatAssumption
  <2>6. Heartbeats(net', n) = {} /\ \A k \in Node \ {n} : Heartbeats(net', k) = Heartbeats(net, k)
    <3>1. Heartbeats(net', n) = Heartbeats(net, n) \ {Msg("hbRsp", n, q)}
      BY <2>2, ItsMessage, MsgKinds
    <3>2. \A k \in Node \ {n} : Heartbeats(net', k) = Heartbeats(net, k)
      BY <2>2, OtherMessage, MsgKinds
    <3> QED  BY <2>4, <3>1, <3>2
  <2>7. sched[assoc[n]].node = n /\ \A k \in Node \ {n} : assoc[k] # assoc[n]
    BY <1>0, <2>4, HeartbeatAssumption DEF Links
  <2>8. OneAtATime'
    BY <2>2, <2>4, <2>5, <2>6, <2>7 DEF Timely, OneAtATime, Delivering
  <2>9. FailuresCounted'
    <3> SUFFICES ASSUME NEW o \in Obj, sched[o].pc # "off", ~sched[o].cut, o # assoc[n]
                 PROVE  /\ sched[o].pc = "failing" => sched[o].failed >= Retries
                        /\ Unanswered(missed'[sched'[o].node], sched'[o].failed)
                        /\ sched[o].pc = "wait" /\ Heartbeats(net', sched'[o].node) = {} =>
                             Unanswered(missed'[sched'[o].node], sched'[o].failed + 1)
      BY <2>2, <2>4, <2>5 DEF Timely, FailuresCounted, Delivering
    <3>1. sched[o].node \in Node \ {n}
      BY <1>0 DEF Links
    <3>2. missed'[sched[o].node] = missed[sched[o].node] /\ ~Delivering(run, o)
      BY <1>a, <2>2, <3>1 DEF Delivering
    <3> QED  BY <2>2, <2>6, <3>1, <3>2 DEF Timely, FailuresCounted, Unanswered
  <2> QED  BY <2>8, <2>9 DEF Timely
<1>5. ASSUME NEW n \in Node, PeerAnswers(n) PROVE Timely'
  <2>1. PICK m \in net :
           /\ m.node = n
           /\ \/ m.type = "hbReq" /\ net' = (net \ {m}) \cup {Msg("hbRsp", n, m.seq)}
              \/ m.type = "askSetup" /\ net' = (net \ {m}) \cup {Msg("setup", n, 0)}
    BY <1>5 DEF PeerAnswers
  <2>2. UNCHANGED <<run, assoc, sched, missed>>
    BY <1>5 DEF PeerAnswers
  <2>3. CASE m.type = "askSetup"
    <3>1. \A k \in Node : Heartbeats(net', k) = Heartbeats(net, k)
      <4>1. net' = (net \ {m}) \cup {Msg("setup", n, 0)}
        BY <2>1, <2>3
      <4>2. \A k \in Node : ~IsHeartbeat(m, k)
        BY <2>3 DEF IsHeartbeat
      <4>3. \A k \in Node : \A x : x \in Heartbeats(net', k) <=> x \in Heartbeats(net, k)
        BY <4>1, <4>2, HeartbeatMembers, MsgKinds
      <4> QED  BY <4>3
    <3> QED  BY <1>0, <2>2, <3>1, QuietKeepsTimely
  <2>4. CASE m.type = "hbReq"
    <3>1. m \in Heartbeats(net, n) /\ net' = (net \ {m}) \cup {Msg("hbRsp", n, m.seq)}
      BY HeartbeatMembers, <2>1, <2>4 DEF IsHeartbeat
    <3>2. \A k \in Heartbeats(net, n) : k = m
      BY <3>1 DEF Timely, OneAtATime
    <3>3. /\ Heartbeats(net', n) = {Msg("hbRsp", n, m.seq)}
          /\ \A k \in Node \ {n} : Heartbeats(net', k) = Heartbeats(net, k)
      <4>1. \A k \in Node : IsHeartbeat(m, k) <=> k = n
        BY <2>1, <2>4 DEF IsHeartbeat
      <4>2. \A x : x \in Heartbeats(net', n) <=> x = Msg("hbRsp", n, m.seq)
        BY <3>1, <3>2, HeartbeatMembers, MsgKinds
      <4>3. \A k \in Node \ {n} : \A x : x \in Heartbeats(net', k) <=> x \in Heartbeats(net, k)
        BY <3>1, <4>1, HeartbeatMembers, MsgKinds
      <4> QED  BY <3>2, <4>2, <4>3
    <3>4. OneAtATime'
      <4>1. /\ assoc[n] # NoObj /\ sched[assoc[n]].pc = "wait"
            /\ m.seq = sched[assoc[n]].seq % WireMod /\ ~Delivering(run, assoc[n])
        BY <3>1 DEF Timely, OneAtATime
      <4>2. \A o : Delivering(run', o) = Delivering(run, o)
        BY <2>2 DEF Delivering
      <4> QED  BY <2>2, <3>3, <4>1, <4>2, MsgFields DEF Timely, OneAtATime
    <3>5. FailuresCounted'
      <4>1. \A o : Delivering(run', o) = Delivering(run, o)
        BY <2>2 DEF Delivering
      <4>2. \A k \in Node : Heartbeats(net', k) = {} => Heartbeats(net, k) = {}
        BY <3>3
      <4>3. \A k, j : Unanswered(missed'[k], j) = Unanswered(missed[k], j)
        BY <2>2 DEF Unanswered
      <4> QED  BY <1>0, <2>2, <4>1, <4>2, <4>3 DEF Timely, FailuresCounted
    <3> QED  BY <3>4, <3>5 DEF Timely
  <2> QED  BY <2>1, <2>3, <2>4
<1>6. ASSUME NEW n \in Node, PeerSetup(n) \/ PeerUpOrDown(n) PROVE Timely'
  <2>1. UNCHANGED <<run, assoc, sched, missed>> /\ (net' = net \/ net' = net \cup {Msg("setup", n, 0)})
    BY <1>6 DEF PeerSetup, PeerUpOrDown
  <2>2. \A k \in Node : Heartbeats(net', k) = Heartbeats(net, k)
    <3>1. \A k \in Node : Heartbeats(net \cup {Msg("setup", n, 0)}, k) = Heartbeats(net, k)
      BY OtherMessage, MsgKinds
    <3> QED  BY <2>1, <3>1
  <2> QED  BY <1>0, <2>1, <2>2, QuietKeepsTimely
<1>7. ASSUME NEW n \in Node, NEW m \in Heartbeats(net, n), net' = net \ {m},
             missed' = OneMoreMissed(n), UNCHANGED <<run, assoc, sched>>
      PROVE  Timely'
  <2>1. /\ assoc[n] \in Obj /\ sched[assoc[n]].pc = "wait" /\ ~Delivering(run, assoc[n])
        /\ \A k \in Heartbeats(net, n) : k = m
    BY <1>7, <1>a DEF Timely, OneAtATime
  <2>2. Heartbeats(net', n) = {} /\ \A k \in Node \ {n} : Heartbeats(net', k) = Heartbeats(net, k)
    <3>1. \A k \in Node : IsHeartbeat(m, k) <=> k = n
      BY <1>7, HeartbeatMembers DEF IsHeartbeat
    <3>2. \A x : x \notin Heartbeats(net', n)
      BY <1>7, <2>1, HeartbeatMembers
    <3>3. \A k \in Node \ {n} : Heartbeats(net', k) = Heartbeats(net, k)
      BY <1>7, <3>1, OtherMessage
    <3> QED  BY <2>1, <3>2, <3>3
  <2>3. \A o : Delivering(run', o) = Delivering(run, o)
    BY <1>7 DEF Delivering
  <2>4. OneAtATime'
    BY <1>7, <2>2, <2>3 DEF Timely, OneAtATime
  <2>5. /\ \A k \in Node \ {n} : missed'[k] = missed[k]
        /\ missed'[n] = IF missed[n] < Retries THEN missed[n] + 1 ELSE missed[n]
    BY <1>a, <1>7 DEF OneMoreMissed
  <2>6. FailuresCounted'
    <3> SUFFICES ASSUME NEW o \in Obj, sched[o].pc # "off", ~sched[o].cut
                 PROVE  /\ sched[o].pc = "failing" => sched[o].failed >= Retries
                        /\ ~Delivering(run, o) => Unanswered(missed'[sched'[o].node], sched'[o].failed)
                        /\ sched[o].pc = "wait" /\ ~Delivering(run, o) /\ Heartbeats(net', sched'[o].node) = {} =>
                             Unanswered(missed'[sched'[o].node], sched'[o].failed + 1)
      BY <1>7, <2>3 DEF FailuresCounted
    <3>1. sched[o].node \in Node /\ sched[o].failed \in Nat
      BY <1>0, <1>f
    <3>2. CASE sched[o].node # n
      BY <1>7, <2>2, <2>5, <3>1, <3>2 DEF Timely, FailuresCounted, Unanswered
    <3>3. CASE sched[o].node = n
      <4>1. missed[n] \in Nat
        BY <1>m
      <4>2. ~Delivering(run, o) => Unanswered(missed[n], sched[o].failed)
        BY <3>3 DEF Timely, FailuresCounted
      <4>3. ~Delivering(run, o) => Unanswered(missed'[n], sched'[o].failed) /\ Unanswered(missed'[n], sched'[o].failed + 1)
        BY <1>7, <1>a, <2>5, <3>1, <4>1, <4>2 DEF Unanswered
      <4> QED  BY <1>7, <3>3, <4>3 DEF Timely, FailuresCounted
    <3> QED  BY <3>2, <3>3
  <2> QED  BY <2>4, <2>6 DEF Timely
<1>8. ASSUME NEW n \in Node, PeerIgnores(n) \/ Lose(n) PROVE Timely'
  <2>1. UNCHANGED <<run, assoc, sched>>
    BY <1>8 DEF PeerIgnores, Lose
  <2>2. PICK m \in net : /\ m.node = n /\ net' = net \ {m}
                         /\ \/ m.type = "askSetup" /\ missed' = missed
                            \/ m.type \in {"hbReq", "hbRsp"} /\ missed' = OneMoreMissed(n)
    BY <1>8 DEF PeerIgnores, Lose
  <2>3. CASE m.type = "askSetup"
    <3>1. \A k \in Node : Heartbeats(net', k) = Heartbeats(net, k)
      <4>1. \A k \in Node : ~IsHeartbeat(m, k)
        BY <2>3 DEF IsHeartbeat
      <4>2. \A k \in Node : \A x : x \in Heartbeats(net', k) <=> x \in Heartbeats(net, k)
        BY <2>2, <4>1, HeartbeatMembers
      <4> QED  BY <4>2
    <3> QED  BY <1>0, <2>1, <2>2, <2>3, <3>1, QuietKeepsTimely
  <2>4. CASE m.type \in {"hbReq", "hbRsp"}
    <3>1. m \in Heartbeats(net, n) /\ missed' = OneMoreMissed(n)
      BY HeartbeatMembers, <2>2, <2>4 DEF IsHeartbeat
    <3> QED  BY <1>7, <2>1, <2>2, <3>1
  <2> QED  BY <2>2, <2>3, <2>4
<1>9. ASSUME NEW o \in Obj, HeartbeatFailed(o) PROVE Timely'
  <2>1. /\ sched[o].pc = "failing"
        /\ run.pc = "select"
        /\ sched' = [sched EXCEPT ![o] = Off]
        /\ assoc' = [assoc EXCEPT ![sched[o].node] = NoObj]
        /\ missed' = [missed EXCEPT ![sched[o].node] = 0]
        /\ UNCHANGED net
    BY <1>9 DEF HeartbeatFailed, Failing
  <2>2. sched[o].node \in Node /\ assoc[sched[o].node] = o
    BY <1>0, <2>1 DEF Links
  <2>3. run' = run
    BY <1>9, <2>2, HeartbeatAssumption DEF HeartbeatFailed
  <2>4. /\ \A k \in Node \ {sched[o].node} : assoc'[k] = assoc[k]
        /\ sched'[o].pc = "off" /\ \A p \in Obj \ {o} : sched'[p] = sched[p]
    BY <1>a, <2>1, <2>2 DEF Off
  <2>5. \A k \in Node : Heartbeats(net', k) = Heartbeats(net, k)
    BY <2>1 DEF Heartbeats
  <2>6. \A k \in Node : \A m \in Heartbeats(net, k) : k # sched[o].node /\ assoc[k] \in Obj \ {o}
    BY <1>a, <2>1, <2>2 DEF Timely, OneAtATime
  <2>7. OneAtATime'
    BY <2>1, <2>3, <2>4, <2>5, <2>6 DEF Timely, OneAtATime, Delivering
  <2>8. FailuresCounted'
    <3> SUFFICES ASSUME NEW p \in Obj \ {o}, sched'[p].pc # "off", ~sched'[p].cut
                 PROVE  /\ sched'[p].pc = "failing" => sched'[p].failed >= Retries
                        /\ ~Delivering(run', p) => Unanswered(missed'[sched'[p].node], sched'[p].failed)
                        /\ sched'[p].pc = "wait" /\ ~Delivering(run', p) /\ Heartbeats(net', sched'[p].node) = {} =>
                             Unanswered(missed'[sched'[p].node], sched'[p].failed + 1)
      BY <2>4 DEF FailuresCounted
    <3>1. sched'[p] = sched[p] /\ sched[p].node \in Node /\ sched[p].node # sched[o].node
      BY <1>0, <2>2, <2>4 DEF Links
    <3>2. missed'[sched[p].node] = missed[sched[p].node]
      BY <1>a, <2>1, <2>2, <3>1
    <3> QED  BY <2>3, <2>5, <3>1, <3>2 DEF Timely, FailuresCounted, Delivering, Unanswered
  <2> QED  BY <2>7, <2>8 DEF Timely
<1>10. ASSUME NEW o \in Obj, SendHeartbeat(o) PROVE Timely'
  <2> DEFINE s == (sched[o].seq + 1) % CounterMod
             n == sched[o].node
  <2>1. /\ sched[o].pc = "send"
        /\ sched' = [sched EXCEPT ![o].pc = "wait", ![o].seq = s]
        /\ net' = net \cup {Msg("hbReq", n, s % WireMod)}
        /\ UNCHANGED <<run, assoc, missed>>
    BY <1>10 DEF SendHeartbeat
  <2>3. n \in Node /\ assoc[n] = o
    BY <1>0, <2>1 DEF Links
  <2> HIDE DEF s, n
  <2>4. /\ sched'[o].pc = "wait" /\ sched'[o].seq = s
        /\ sched'[o].failed = sched[o].failed /\ sched'[o].node = sched[o].node
        /\ sched'[o].cut = sched[o].cut
        /\ \A p \in Obj \ {o} : sched'[p] = sched[p]
    BY <1>a, <2>1 DEF SchedState
  <2>5. Heartbeats(net, n) = {}
    BY <2>1, <2>3 DEF Timely, OneAtATime
  <2>6. /\ Heartbeats(net', n) = {Msg("hbReq", n, s % WireMod)}
        /\ \A k \in Node \ {n} : Heartbeats(net', k) = Heartbeats(net, k)
    <3>1. net' = net \cup {Msg("hbReq", n, s % WireMod)}
      BY <2>1
    <3>2. \A x : x \in Heartbeats(net', n) <=> x = Msg("hbReq", n, s % WireMod)
      BY <2>5, <3>1, HeartbeatMembers, MsgKinds
    <3>3. \A k \in Node \ {n} : Heartbeats(net', k) = Heartbeats(net, k)
      BY <3>1, OtherMessage, MsgKinds
    <3> QED  BY <2>5, <3>2, <3>3
  <2>7. ~Delivering(run, o) /\ \A p : Delivering(run', p) = Delivering(run, p)
    BY <2>1 DEF Timely, OneAtATime, Delivering
  <2>8. \A k \in Node \ {n} : assoc[k] # o
    BY <1>0, <2>3, HeartbeatAssumption DEF Links, n
  <2>9. OneAtATime'
    <3>1. ASSUME NEW k \in Node, NEW m \in Heartbeats(net', k)
          PROVE  /\ assoc[k] # NoObj /\ sched'[assoc[k]].pc = "wait"
                 /\ m.seq = sched'[assoc[k]].seq % WireMod /\ ~Delivering(run, assoc[k])
                 /\ \A j \in Heartbeats(net', k) : j = m
      <4>1. CASE k = n
        BY <2>3, <2>4, <2>6, <2>7, <3>1, <4>1, MsgFields, HeartbeatAssumption
      <4>2. CASE k # n
        <5>1. m \in Heartbeats(net, k) /\ assoc[k] # o
          BY <2>6, <2>8, <3>1, <4>2
        <5>2. assoc[k] \in Obj \ {o}
          BY <1>a, <5>1 DEF Timely, OneAtATime
        <5> QED  BY <2>4, <2>6, <4>2, <5>1, <5>2 DEF Timely, OneAtATime
      <4> QED  BY <4>1, <4>2
    <3>2. ASSUME run.pc = "deliver"
          PROVE  /\ run.obj \in Obj /\ sched'[run.obj].pc = "wait"
                 /\ run.seq = sched'[run.obj].seq % WireMod
      BY <2>4, <2>7, <3>2 DEF Timely, OneAtATime, Delivering
    <3> QED  BY <2>1, <3>1, <3>2 DEF OneAtATime
  <2>10. FailuresCounted'
    <3> SUFFICES ASSUME NEW p \in Obj, sched'[p].pc # "off", ~sched'[p].cut
                 PROVE  /\ sched'[p].pc = "failing" => sched'[p].failed >= Retries
                        /\ ~Delivering(run, p) => Unanswered(missed[sched'[p].node], sched'[p].failed)
                        /\ sched'[p].pc = "wait" /\ ~Delivering(run, p) /\ Heartbeats(net', sched'[p].node) = {} =>
                             Unanswered(missed[sched'[p].node], sched'[p].failed + 1)
      BY <2>1, <2>7 DEF FailuresCounted, Unanswered
    <3>1. CASE p = o
      BY <2>1, <2>4, <2>6, <3>1 DEF Timely, FailuresCounted, n
    <3>2. CASE p # o
      <4>1. sched'[p] = sched[p] /\ sched[p].node \in Node
        BY <1>0, <2>4, <3>2
      <4>2. sched[p].node # n
        BY <1>0, <2>3, <3>2, <4>1 DEF Links
      <4> QED  BY <2>6, <4>1, <4>2 DEF Timely, FailuresCounted
    <3> QED  BY <3>1, <3>2
  <2> QED  BY <2>9, <2>10 DEF Timely
<1>11. ASSUME NEW o \in Obj, NEW r \in SchedState, sched' = [sched EXCEPT ![o] = r],
              sched[o].pc # "off", r.node = sched[o].node, UNCHANGED <<assoc, net, missed>>,
              Heartbeats(net, sched[o].node) = {}, r.pc \in {"send", "interval", "failing"},
              ~r.cut => (r.pc = "failing" => r.failed >= Retries) /\ Unanswered(missed[r.node], r.failed),
              Delivering(run, o) => run'.pc # "deliver", ~Delivering(run, o) => run' = run
       PROVE  Timely'
  <2>1. sched'[o] = r /\ \A p \in Obj \ {o} : sched'[p] = sched[p]
    BY <1>a, <1>11
  <2>2. \A k \in Node : Heartbeats(net', k) = Heartbeats(net, k)
    BY <1>11 DEF Heartbeats
  <2>3. sched[o].node \in Node /\ assoc[sched[o].node] = o
    BY <1>0, <1>11 DEF Links
  <2>4. \A k \in Node : assoc[k] = o => k = sched[o].node
    BY <1>0, HeartbeatAssumption DEF Links
  <2>5. \A p \in Obj \ {o} : Delivering(run', p) = Delivering(run, p)
    BY <1>11 DEF Delivering
  <2>6. OneAtATime'
    <3>1. ASSUME NEW k \in Node, NEW m \in Heartbeats(net', k)
          PROVE  /\ assoc'[k] # NoObj /\ sched'[assoc'[k]].pc = "wait"
                 /\ m.seq = sched'[assoc'[k]].seq % WireMod /\ ~Delivering(run', assoc'[k])
                 /\ \A j \in Heartbeats(net', k) : j = m
      <4>1. m \in Heartbeats(net, k)
        BY <2>2, <3>1
      <4>2. assoc[k] \in Obj \ {o}
        BY <1>11, <1>a, <2>4, <4>1 DEF Timely, OneAtATime
      <4> QED  BY <1>11, <2>1, <2>2, <2>5, <4>1, <4>2 DEF Timely, OneAtATime
    <3>2. ASSUME run'.pc = "deliver"
          PROVE  /\ run'.obj \in Obj /\ sched'[run'.obj].pc = "wait"
                 /\ run'.seq = sched'[run'.obj].seq % WireMod
      <4>1. run' = run /\ run.obj # o
        BY <1>11, <3>2 DEF Delivering
      <4> QED  BY <2>1, <3>2, <4>1 DEF Timely, OneAtATime
    <3> QED  BY <3>1, <3>2 DEF OneAtATime
  <2>7. FailuresCounted'
    <3> SUFFICES ASSUME NEW p \in Obj, sched'[p].pc # "off", ~sched'[p].cut
                 PROVE  /\ sched'[p].pc = "failing" => sched'[p].failed >= Retries
                        /\ ~Delivering(run', p) => Unanswered(missed[sched'[p].node], sched'[p].failed)
                        /\ sched'[p].pc = "wait" /\ ~Delivering(run', p) /\ Heartbeats(net', sched'[p].node) = {} =>
                             Unanswered(missed[sched'[p].node], sched'[p].failed + 1)
      BY <1>11 DEF FailuresCounted, Unanswered
    <3>1. CASE p = o
      BY <1>11, <2>1, <3>1
    <3>2. CASE p # o
      BY <1>0, <2>1, <2>2, <2>5, <3>2 DEF Timely, FailuresCounted
    <3> QED  BY <3>1, <3>2
  <2> QED  BY <2>6, <2>7 DEF Timely
<1>12. ASSUME NEW o \in Obj, HandleHeartbeat(o) PROVE Timely'
  <2>1. /\ Delivering(run, o) /\ sched[o].pc = "wait" /\ run.seq = sched[o].seq % WireMod
        /\ sched \in [Obj -> SchedState] /\ sched[o] \in SchedState
    BY <1>a, <1>12 DEF HandleHeartbeat, Delivering, Timely, OneAtATime
  <2>2. run'.pc # "deliver" /\ UNCHANGED <<assoc, net, missed>>
    BY <1>12 DEF HandleHeartbeat, At
  <2>3. Heartbeats(net, sched[o].node) = {}
    BY <1>0, <2>1 DEF Timely, OneAtATime, Links
  <2>4. CASE run.seq = sched[o].seq
    <3> DEFINE r == [sched[o] EXCEPT !.pc = "interval", !.failed = 0, !.cut = FALSE]
    <3>1. sched' = [sched EXCEPT ![o] = r]
      BY <1>12, <2>1, <2>4 DEF HandleHeartbeat
    <3>2. r \in SchedState /\ r.pc = "interval" /\ r.failed = 0 /\ r.node = sched[o].node
      BY <2>1 DEF SchedState
    <3>3. Unanswered(missed[r.node], r.failed)
      <4>1. missed[sched[o].node] \in Nat
        BY <1>0, <1>m, <2>1
      <4> QED  BY <3>2, <4>1 DEF Unanswered
    <3> HIDE DEF r
    <3> QED  BY <1>11, <2>1, <2>2, <2>3, <3>1, <3>2, <3>3
  <2>5. CASE run.seq # sched[o].seq
    <3>1. sched[o].seq >= WireMod
      <4>1. sched[o].seq \in Nat /\ WireMod \in Nat \ {0}
        BY <1>f, HeartbeatAssumption
      <4>2. sched[o].seq < WireMod => sched[o].seq % WireMod = sched[o].seq
        BY <4>1
      <4> QED  BY <2>1, <2>5, <4>1, <4>2
    <3> DEFINE r == [sched[o] EXCEPT !.pc = "send", !.cut = TRUE]
    <3>2. sched' = [sched EXCEPT ![o] = r]
      BY <1>12, <2>1, <2>5, <3>1 DEF HandleHeartbeat, SchedState
    <3>3. r \in SchedState /\ r.pc = "send" /\ r.cut /\ r.node = sched[o].node
      BY <2>1 DEF SchedState
    <3> HIDE DEF r
    <3> QED  BY <1>11, <2>1, <2>2, <2>3, <3>2, <3>3
  <2> QED  BY <2>4, <2>5
<1>13. ASSUME NEW o \in Obj, IntervalOver(o) PROVE Timely'
  <2>1. /\ sched[o].pc = "interval" /\ sched' = [sched EXCEPT ![o].pc = "send"]
        /\ sched \in [Obj -> SchedState] /\ sched[o] \in SchedState
        /\ UNCHANGED <<run, assoc, net, missed>>
    BY <1>a, <1>13 DEF IntervalOver
  <2>2. ~Delivering(run, o)
    BY <2>1 DEF Timely, OneAtATime, Delivering
  <2> DEFINE r == [sched[o] EXCEPT !.pc = "send"]
  <2>3. sched' = [sched EXCEPT ![o] = r]
    BY <2>1
  <2>4. /\ r \in SchedState /\ r.pc = "send" /\ r.node = sched[o].node
        /\ r.failed = sched[o].failed /\ r.cut = sched[o].cut
    BY <2>1 DEF SchedState
  <2>5. Heartbeats(net, sched[o].node) = {}
    BY <1>0, <2>1 DEF Timely, OneAtATime, Links
  <2>6. ~r.cut => Unanswered(missed[r.node], r.failed)
    BY <2>1, <2>2, <2>4 DEF Timely, FailuresCounted
  <2> HIDE DEF r
  <2> QED  BY <1>11, <2>1, <2>2, <2>3, <2>4, <2>5, <2>6
<1>14. ASSUME NEW o \in Obj, HeartbeatTimeout(o) PROVE Timely'
  <2> DEFINE pc == IF sched[o].failed + 1 >= Retries THEN "failing" ELSE "send"
             r == [sched[o] EXCEPT !.failed = @ + 1, !.pc = pc]
  <2>1. /\ sched[o].pc = "wait" /\ sched' = [sched EXCEPT ![o].failed = @ + 1, ![o].pc = pc]
        /\ sched \in [Obj -> SchedState] /\ sched[o] \in SchedState
        /\ UNCHANGED <<run, assoc, net, missed>>
        /\ ~Underway(sched[o].node)
    BY <1>a, <1>14 DEF HeartbeatTimeout, TimelyNetwork
  <2>2. sched[o].node \in Node /\ assoc[sched[o].node] = o
    BY <1>0, <2>1 DEF Links
  <2>3. ~Delivering(run, o) /\ Heartbeats(net, sched[o].node) = {}
    BY <2>1, <2>2 DEF Underway, Delivering, Heartbeats, IsHeartbeat
  <2>4. ~sched[o].cut => Unanswered(missed[sched[o].node], sched[o].failed + 1)
    BY <2>1, <2>3 DEF Timely, FailuresCounted
  <2>5. sched' = [sched EXCEPT ![o] = r]
    BY <2>1
  <2>6. pc \in {"failing", "send"} /\ (pc = "failing" => sched[o].failed + 1 >= Retries)
    OBVIOUS
  <2> HIDE DEF pc
  <2>7. sched[o].failed + 1 \in Nat
    BY <1>f
  <2>8. /\ r \in SchedState /\ r.pc = pc /\ r.node = sched[o].node
        /\ r.failed = sched[o].failed + 1 /\ r.cut = sched[o].cut
    BY <2>1, <2>6, <2>7 DEF SchedState
  <2>9. /\ r.pc \in {"send", "interval", "failing"} /\ (r.pc = "failing" => r.failed >= Retries)
        /\ ~r.cut => Unanswered(missed[r.node], r.failed)
    BY <2>4, <2>6, <2>8
  <2>10. /\ UNCHANGED <<assoc, net, missed>> /\ sched[o].pc # "off" /\ run' = run
         /\ r \in SchedState /\ r.node = sched[o].node
    BY <2>1, <2>8
  <2> HIDE DEF r
  <2> QED  BY <1>11, <2>3, <2>5, <2>9, <2>10
<1>15. CASE UNCHANGED vars
  <2>1. UNCHANGED <<run, assoc, sched, missed, net>>
    BY <1>15 DEF vars
  <2>2. \A k \in Node : Heartbeats(net', k) = Heartbeats(net, k)
    BY <2>1 DEF Heartbeats
  <2> QED  BY <1>0, <2>1, <2>2, QuietKeepsTimely
<1> QED  BY <1>1, <1>2, <1>3, <1>4, <1>5, <1>6, <1>8, <1>9, <1>10, <1>12, <1>13, <1>14,
            <1>15 DEF Next

\* Where answers come in time or not at all and nothing is duplicated, no association
\* of a peer that answered one of its last heartbeat_retries heartbeats is deleted,
\* unless an answer came back cut to the width of the wire: whatever the widths of the
\* counter and of the wire.
THEOREM PrunedWhenSilent == ASSUME TimelyNetwork PROVE Spec => PrunedOnlyUnanswered
<1>1. Init => Inv /\ Timely
  BY InvInit, TimelyInit
<1>2. Inv /\ Timely /\ [Next]_vars => (Inv /\ Timely)'
  BY InvStep, TimelyStep
<1>3. ASSUME Inv, Timely, [Next]_vars, NEW n \in Node, assoc[n] # NoObj, assoc'[n] = NoObj,
             ~sched[assoc[n]].cut
      PROVE  missed[n] >= Retries
  <2>0. assoc \in [Node -> Obj \cup {NoObj}] /\ Links(assoc, sched)
    BY <1>3, InvIsLinks DEF Inv, TypeOK
  <2>1. ASSUME NEW k \in Node, ReceiveSetup(k) PROVE FALSE
    <3>1. \/ assoc' = assoc
          \/ NewObject(k) \in Obj /\ assoc' = [assoc EXCEPT ![k] = NewObject(k)]
      BY <2>1 DEF ReceiveSetup, NewObject
    <3> HIDE DEF NewObject
    <3> QED  BY <1>3, <2>0, <3>1, HeartbeatAssumption
  <2>2. PICK o \in Obj : HeartbeatFailed(o)
    BY <1>3, <2>1
    DEF Next, vars, EnterReceive, ReceiveNothing, Tick, ReceiveHeartbeatResponse, PeerAnswers,
        PeerSetup, PeerIgnores, Lose, PeerUpOrDown, SendHeartbeat, HandleHeartbeat,
        IntervalOver, HeartbeatTimeout
  <2>3. /\ sched[o].pc = "failing" /\ ~Delivering(run, o)
        /\ assoc' = [assoc EXCEPT ![sched[o].node] = NoObj]
    BY <2>2 DEF HeartbeatFailed, Failing, Delivering
  <2>4. n = sched[o].node /\ assoc[n] = o
    BY <1>3, <2>0, <2>3 DEF Links
  <2>5. sched[o].failed >= Retries /\ Unanswered(missed[n], sched[o].failed)
    BY <1>3, <2>3, <2>4 DEF Timely, FailuresCounted
  <2>6. missed[n] \in Nat /\ sched[o].failed \in Nat
    BY <1>3 DEF Inv, TypeOK, SchedState
  <2> QED  BY <2>5, <2>6, HeartbeatAssumption DEF Unanswered
<1>4. Inv /\ Timely /\ [Next]_vars =>
        [\A n \in Node :
           assoc[n] # NoObj /\ assoc'[n] = NoObj /\ ~sched[assoc[n]].cut =>
             missed[n] >= Retries]_vars
  BY <1>3
<1> QED  BY <1>1, <1>2, <1>4, PTL DEF Spec, PrunedOnlyUnanswered

\* Where answers come in time or not at all and nothing is duplicated, a scheduler that
\* waits for an answer sends again only after its timer expired; after an answer it
\* pauses first, as long as its counter fits the wire.
THEOREM PaceIsKept == ASSUME TimelyNetwork PROVE Spec => HeartbeatsPaced
<1>1. Init => Inv /\ Timely
  BY InvInit, TimelyInit
<1>2. Inv /\ Timely /\ [Next]_vars => (Inv /\ Timely)'
  BY InvStep, TimelyStep
<1>3. ASSUME Inv, Timely, [Next]_vars, NEW o \in Obj, sched[o].pc = "wait", sched'[o].pc = "send",
             sched[o].seq < WireMod
      PROVE  sched'[o].failed = sched[o].failed + 1
  <2>0. sched \in [Obj -> SchedState] /\ sched[o] \in SchedState
    BY <1>3 DEF Inv, TypeOK
  <2>1. ASSUME NEW k \in Node, ReceiveSetup(k) PROVE FALSE
    <3>1. \/ sched' = sched
          \/ /\ NewObject(k) \in Obj /\ sched[NewObject(k)].pc = "off"
             /\ sched' = [sched EXCEPT ![NewObject(k)] = NewAssociation(k)]
      BY <2>1 DEF ReceiveSetup, NewObject, Fresh
    <3> HIDE DEF NewObject
    <3> QED  BY <1>3, <2>0, <3>1
  <2>2. ASSUME NEW p \in Obj, HeartbeatFailed(p) \/ SendHeartbeat(p) \/ IntervalOver(p) PROVE FALSE
    <3>1. /\ sched[p].pc # "wait"
          /\ \E r : sched' = [sched EXCEPT ![p] = r]
      BY <2>0, <2>2 DEF HeartbeatFailed, Failing, SendHeartbeat, IntervalOver
    <3> QED  BY <1>3, <2>0, <3>1
  <2>3. ASSUME NEW p \in Obj, HandleHeartbeat(p) PROVE FALSE
    <3>1. CASE p = o
      <4>1. sched[o].seq \in Nat /\ WireMod \in Nat \ {0}
        BY <2>0, HeartbeatAssumption DEF SchedState
      <4>2. run.seq = sched[o].seq % WireMod
        BY <1>3, <2>3, <3>1 DEF HandleHeartbeat, Timely, OneAtATime
      <4>3. run.seq = sched[o].seq
        BY <1>3, <4>1, <4>2
      <4>4. sched' = [sched EXCEPT ![o].pc = "interval", ![o].failed = 0, ![o].cut = FALSE]
        BY <2>3, <3>1, <4>3 DEF HandleHeartbeat
      <4> QED  BY <1>3, <2>0, <4>4 DEF SchedState
    <3>2. CASE p # o
      <4>1. \E r : sched' = [sched EXCEPT ![p] = r]
        BY <2>0, <2>3 DEF HandleHeartbeat
      <4> QED  BY <1>3, <2>0, <3>2, <4>1
    <3> QED  BY <3>1, <3>2
  <2>4. PICK p \in Obj : HeartbeatTimeout(p)
    BY <1>3, <2>1, <2>2, <2>3
    DEF Next, vars, EnterReceive, ReceiveNothing, Tick, ReceiveHeartbeatResponse, PeerAnswers,
        PeerSetup, PeerIgnores, Lose, PeerUpOrDown
  <2>5. PICK pc : sched' = [sched EXCEPT ![p].failed = @ + 1, ![p].pc = pc]
    BY <2>4 DEF HeartbeatTimeout
  <2> QED  BY <1>3, <2>0, <2>5 DEF SchedState
<1>4. Inv /\ Timely /\ [Next]_vars =>
        [\A o \in Obj :
           sched[o].pc = "wait" /\ sched'[o].pc = "send" /\ sched[o].seq < WireMod =>
             sched'[o].failed = sched[o].failed + 1]_vars
  BY <1>3
<1> QED  BY <1>1, <1>2, <1>4, PTL DEF Spec, HeartbeatsPaced

\* Where answers come in time or not at all and nothing is duplicated, Run is never held
\* up in HandleHeartbeat, whatever the widths of the counter and of the wire.
THEOREM RunIsNotHeldUp == ASSUME TimelyNetwork PROVE Spec => []RunNotHeldUp
<1>1. Init => Inv /\ Timely
  BY InvInit, TimelyInit
<1>2. Inv /\ Timely /\ [Next]_vars => (Inv /\ Timely)'
  BY InvStep, TimelyStep
<1>3. Timely => RunNotHeldUp
  BY DEF Timely, OneAtATime, RunNotHeldUp
<1> QED  BY <1>1, <1>2, <1>3, PTL DEF Spec

-----------------------------------------------------------------------------
(* Everyone waiting on everyone *)

\* A scheduler that reports its failure has nothing under way.
FailingAlone ==
    \A o \in Obj : sched[o].pc = "failing" =>
        Heartbeats(net, sched[o].node) = {} /\ ~Delivering(run, o)

\* Run in HandleHeartbeat and the scheduler it sends to never wait for each other,
\* each to send on a channel that only the other receives from.
NoMutualWait == \A o \in Obj : ~(run.pc = "deliver" /\ run.obj = o /\ sched[o].pc = "failing")

\* A step that brings no failing scheduler a heartbeat, and hands it no answer.
LEMMA QuietKeepsAlone ==
    ASSUME FailingAlone,
           \A o \in Obj : sched'[o].pc = "failing" =>
               /\ sched[o].pc = "failing" /\ sched'[o].node = sched[o].node
               /\ Heartbeats(net, sched[o].node) = {} => Heartbeats(net', sched[o].node) = {}
               /\ ~Delivering(run, o) => ~Delivering(run', o)
    PROVE  FailingAlone'
BY DEF FailingAlone

\* No step of a network that is never late leaves a failing scheduler company.
LEMMA AloneStep ==
    ASSUME ~Late, Inv, FailingAlone, [Next]_vars
    PROVE  FailingAlone'
<1>0. Links(assoc, sched) /\ \A o \in Obj : sched[o].pc # "off" => sched[o].node \in Node
  BY InvIsLinks DEF Links
<1>a. assoc \in [Node -> Obj \cup {NoObj}] /\ sched \in [Obj -> SchedState]
  BY DEF Inv, TypeOK
<1>b. ASSUME UNCHANGED <<sched, run>>,
             \A n \in Node : Heartbeats(net, n) = {} => Heartbeats(net', n) = {}
      PROVE  FailingAlone'
  BY <1>0, <1>b, QuietKeepsAlone
<1>1. CASE EnterReceive \/ ReceiveNothing
  <2>1. UNCHANGED <<sched, net>> /\ \A o : ~Delivering(run', o)
    BY <1>1 DEF EnterReceive, ReceiveNothing, At, Delivering
  <2> QED  BY <2>1, QuietKeepsAlone
<1>2. CASE Tick
  <2>1. UNCHANGED <<sched, run>>
    BY <1>2 DEF Tick
  <2>2. \A m : m \in net' <=> m \in net \/ \E n \in Remote : assoc[n] = NoObj /\ m = Msg("askSetup", n, 0)
    BY <1>2 DEF Tick
  <2>3. \A n \in Node : \A m : m \in Heartbeats(net', n) => m \in Heartbeats(net, n)
    BY <2>2, HeartbeatMembers, MsgKinds
  <2>4. \A n \in Node : Heartbeats(net, n) = {} => Heartbeats(net', n) = {}
    BY <2>3
  <2> QED  BY <1>b, <2>1, <2>4
<1>3. ASSUME NEW n \in Node, ReceiveSetup(n) PROVE FailingAlone'
  <2>1. net' \subseteq net /\ \A o : ~Delivering(run', o)
    BY <1>3 DEF ReceiveSetup, Take, At, Delivering
  <2>2. \A k : Heartbeats(net, k) = {} => Heartbeats(net', k) = {}
    BY <2>1 DEF Heartbeats
  <2>3. \/ sched' = sched
        \/ NewObject(n) \in Obj /\ sched' = [sched EXCEPT ![NewObject(n)] = NewAssociation(n)]
    BY <1>3 DEF ReceiveSetup, NewObject
  <2>4. NewAssociation(n).pc = "send"
    BY DEF NewAssociation
  <2> HIDE DEF NewObject, NewAssociation
  <2>5. \A o \in Obj : sched'[o].pc = "failing" => sched'[o] = sched[o]
    BY <1>a, <2>3, <2>4
  <2> QED  BY <2>1, <2>2, <2>5, QuietKeepsAlone
<1>4. ASSUME NEW n \in Node, ReceiveHeartbeatResponse(n) PROVE FailingAlone'
  <2>1. PICK q \in 0 .. WireMod - 1 :
           /\ Take(Msg("hbRsp", n, q))
           /\ run' = IF assoc[n] = NoObj THEN At("select")
                     ELSE [pc |-> "deliver", obj |-> assoc[n], seq |-> q]
    BY <1>4 DEF ReceiveHeartbeatResponse
  <2>2. UNCHANGED <<assoc, sched>> /\ net' \subseteq net /\ Msg("hbRsp", n, q) \in net
    BY <1>4, <2>1 DEF ReceiveHeartbeatResponse, Take
  <2>3. \A k : Heartbeats(net, k) = {} => Heartbeats(net', k) = {}
    BY <2>2 DEF Heartbeats
  <2>4. Heartbeats(net, n) # {}
    BY <2>2, HeartbeatMembers, MsgKinds
  <2>5. ASSUME NEW o \in Obj, sched[o].pc = "failing" PROVE ~Delivering(run', o)
    <3>1. sched[o].node # n
      BY <2>4, <2>5 DEF FailingAlone
    <3>2. assoc[n] # o
      BY <1>0, <2>5, <3>1, HeartbeatAssumption DEF Links
    <3> QED  BY <2>1, <3>2 DEF At, Delivering
  <2> QED  BY <2>2, <2>3, <2>5, QuietKeepsAlone
<1>5. ASSUME NEW n \in Node, PeerAnswers(n) PROVE FailingAlone'
  <2>1. PICK m \in net :
           /\ m.node = n
           /\ \/ m.type = "hbReq" /\ net' = (net \ {m}) \cup {Msg("hbRsp", n, m.seq)}
              \/ m.type = "askSetup" /\ net' = (net \ {m}) \cup {Msg("setup", n, 0)}
    BY <1>5 DEF PeerAnswers
  <2>2. UNCHANGED <<sched, run>>
    BY <1>5 DEF PeerAnswers
  <2>3. m.type = "hbReq" => m \in Heartbeats(net, n)
    BY <2>1, HeartbeatMembers DEF IsHeartbeat
  <2>4. ASSUME NEW k \in Node, Heartbeats(net, k) = {}, NEW x \in Heartbeats(net', k) PROVE FALSE
    <3>1. x \notin net /\ x \in net' /\ IsHeartbeat(x, k)
      BY <2>4, HeartbeatMembers
    <3>2. x = Msg("hbRsp", n, m.seq) /\ m.type = "hbReq"
      BY <2>1, <3>1, MsgKinds
    <3> QED  BY <2>3, <2>4, <3>1, <3>2, MsgKinds
  <2> QED  BY <1>b, <2>2, <2>4
<1>6. ASSUME NEW n \in Node, PeerSetup(n) PROVE FailingAlone'
  <2>1. UNCHANGED <<sched, run>> /\ net' = net \cup {Msg("setup", n, 0)}
    BY <1>6 DEF PeerSetup
  <2>2. \A k \in Node : Heartbeats(net', k) = Heartbeats(net, k)
    BY <2>1, OtherMessage, MsgKinds
  <2> QED  BY <1>b, <2>1, <2>2
<1>7. ASSUME NEW n \in Node, PeerIgnores(n) \/ Lose(n) \/ PeerUpOrDown(n) PROVE FailingAlone'
  <2>1. UNCHANGED <<sched, run>> /\ net' \subseteq net
    BY <1>7 DEF PeerIgnores, Lose, PeerUpOrDown
  <2>2. \A k : Heartbeats(net, k) = {} => Heartbeats(net', k) = {}
    BY <2>1 DEF Heartbeats
  <2> QED  BY <1>b, <2>1, <2>2
<1>8. ASSUME NEW o \in Obj, HeartbeatFailed(o) PROVE FailingAlone'
  <2>1. /\ run.pc = "select" /\ (run' = At("panic") \/ run' = run)
        /\ sched' = [sched EXCEPT ![o] = Off] /\ net' = net
    BY <1>8 DEF HeartbeatFailed
  <2>2. \A p : ~Delivering(run', p)
    BY <2>1 DEF At, Delivering
  <2>3. \A p \in Obj : sched'[p].pc = "failing" => sched'[p] = sched[p]
    BY <1>a, <2>1 DEF Off
  <2> QED  BY <2>1, <2>2, <2>3, QuietKeepsAlone
<1>9. ASSUME NEW o \in Obj, SendHeartbeat(o) PROVE FailingAlone'
  <2>1. PICK s :
           /\ sched[o].pc = "send"
           /\ sched' = [sched EXCEPT ![o].pc = "wait", ![o].seq = s]
           /\ net' = net \cup {Msg("hbReq", sched[o].node, s % WireMod)}
           /\ run' = run
    BY <1>9 DEF SendHeartbeat
  <2>2. ASSUME NEW p \in Obj, sched'[p].pc = "failing"
        PROVE  /\ sched'[p] = sched[p] /\ sched[p].node # sched[o].node
               /\ Heartbeats(net', sched[p].node) = Heartbeats(net, sched[p].node)
    <3>1. p # o /\ sched'[p] = sched[p]
      BY <1>a, <2>1, <2>2 DEF SchedState
    <3>2. sched[p].node # sched[o].node
      BY <1>0, <2>1, <2>2, <3>1 DEF Links
    <3>3. ~IsHeartbeat(Msg("hbReq", sched[o].node, s % WireMod), sched[p].node)
      BY <3>2, MsgKinds
    <3> QED  BY <2>1, <3>1, <3>2, <3>3, OtherMessage
  <2> QED  BY <2>1, <2>2, QuietKeepsAlone
<1>10. ASSUME NEW o \in Obj, HandleHeartbeat(o) \/ IntervalOver(o) PROVE FailingAlone'
  <2>1. net' = net /\ (run' = run \/ run' = At("select"))
    BY <1>10 DEF HandleHeartbeat, IntervalOver
  <2>2. PICK r \in SchedState : sched' = [sched EXCEPT ![o] = r] /\ r.pc \in {"interval", "send"}
    <3>1. \/ sched' = [sched EXCEPT ![o].pc = "interval", ![o].failed = 0]
          \/ sched' = [sched EXCEPT ![o].pc = "send"]
      BY <1>10 DEF HandleHeartbeat, IntervalOver
    <3>2. sched[o] \in SchedState
      BY <1>a
    <3>3. /\ [sched[o] EXCEPT !.pc = "send"] \in SchedState
          /\ [sched[o] EXCEPT !.pc = "send"].pc = "send"
          /\ [sched[o] EXCEPT !.pc = "interval", !.failed = 0] \in SchedState
          /\ [sched[o] EXCEPT !.pc = "interval", !.failed = 0].pc = "interval"
      BY <3>2 DEF SchedState
    <3> QED  BY <1>a, <3>1, <3>3
  <2>3. \A p \in Obj : sched'[p].pc = "failing" => sched'[p] = sched[p]
    BY <1>a, <2>2
  <2>4. \A p : ~Delivering(run, p) => ~Delivering(run', p)
    BY <2>1 DEF At, Delivering
  <2> QED  BY <2>1, <2>3, <2>4, QuietKeepsAlone
<1>11. ASSUME NEW o \in Obj, HeartbeatTimeout(o) PROVE FailingAlone'
  <2>1. PICK pc : /\ sched[o].pc = "wait" /\ ~Underway(sched[o].node)
                  /\ sched' = [sched EXCEPT ![o].failed = @ + 1, ![o].pc = pc]
                  /\ UNCHANGED <<run, net>>
    BY <1>11 DEF HeartbeatTimeout
  <2>2. sched[o].node \in Node /\ assoc[sched[o].node] = o
    BY <1>0, <2>1 DEF Links
  <2>3. ~Delivering(run, o) /\ Heartbeats(net, sched[o].node) = {}
    BY <2>1, <2>2 DEF Underway, Delivering, Heartbeats, IsHeartbeat
  <2>4. sched'[o].node = sched[o].node /\ \A p \in Obj \ {o} : sched'[p] = sched[p]
    BY <1>a, <2>1 DEF SchedState
  <2>5. ASSUME NEW p \in Obj, sched'[p].pc = "failing"
        PROVE  Heartbeats(net', sched'[p].node) = {} /\ ~Delivering(run', p)
    <3>1. CASE p = o
      BY <2>1, <2>3, <2>4, <3>1
    <3>2. CASE p # o
      BY <2>1, <2>4, <2>5, <3>2 DEF FailingAlone
    <3> QED  BY <3>1, <3>2
  <2> QED  BY <2>5 DEF FailingAlone
<1>12. CASE UNCHANGED vars
  BY <1>b, <1>12 DEF vars
<1> QED  BY <1>1, <1>2, <1>3, <1>4, <1>5, <1>6, <1>7, <1>8, <1>9, <1>10, <1>11, <1>12 DEF Next

\* Run and a scheduler wait for each other only where an answer can arrive after
\* heartbeat_timeout: lost and repeated messages, restarts of peers and counters
\* that wrap around cannot bring them there.
THEOREM MutualWaitNeedsLateAnswer == ASSUME ~Late PROVE Spec => []NoMutualWait
<1>1. Init => Inv /\ FailingAlone
  BY InvInit DEF Init, Off, FailingAlone
<1>2. Inv /\ FailingAlone /\ [Next]_vars => (Inv /\ FailingAlone)'
  BY InvStep, AloneStep
<1>3. FailingAlone => NoMutualWait
  BY DEF FailingAlone, NoMutualWait, Delivering
<1> QED  BY <1>1, <1>2, <1>3, PTL DEF Spec
=============================================================================
