---------------------------- MODULE PfcpAssociation ----------------------------
(***************************************************************************)
(* Associations and heartbeats: the goroutine of PfcpConnection.Run, one   *)
(* ScheduleHeartbeat goroutine per association, the unbuffered channels    *)
(* between them and the UDP network to the peers                           *)
(* (cmd/core/pfcp_connection.go, node_association.go, pfcp_hearbeat.go,    *)
(* pfcp_handlers.go).                                                      *)
(*                                                                         *)
(* Heartbeats are on (heartbeat_timeout is not 0).  Handlers that touch no *)
(* association (session requests, heartbeat requests, association updates) *)
(* only take the time of the Run goroutine and are steps ReceiveNothing.   *)
(***************************************************************************)
EXTENDS Integers, FiniteSets

CONSTANTS
    Node,         \* addresses of the peers
    Remote,       \* those in pfcp_remote_node, which eUPF itself contacts
    Copies,       \* bound: NodeAssociation objects of one peer in use at the same time
    NoObj,        \* the nil of GetAssociation
    Retries,      \* heartbeat_retries
    CounterMod,   \* NextSequenceID is a counter modulo CounterMod (2^32)
    WireMod,      \* a message carries its sequence modulo WireMod (2^24)
    MaxLoss,      \* bound: heartbeat messages of a peer lost in a row
    MaxDup,       \* bound: messages duplicated
    MaxNet,       \* bound: heartbeats wait while MaxNet messages are under way
    Late          \* whether an answer can be handed over (by the network, the peer and
                  \* Run, which reads it) later than heartbeat_timeout

\* The NodeAssociation objects.  Each is made for one peer.
Obj == Node \X Copies

ASSUME HeartbeatAssumption ==
    /\ Remote \subseteq Node
    /\ NoObj \notin Obj
    /\ Retries \in Nat
    /\ CounterMod \in Nat \ {0} /\ WireMod \in Nat \ {0}
    /\ {MaxLoss, MaxDup, MaxNet} \subseteq Nat
    /\ Late \in BOOLEAN

NoNode == "nobody"

\* hbReq and askSetup go to the peer, hbRsp and setup come from it; setup stands
\* for Association Setup Requests and accepting Association Setup Responses.
Message == [type : {"hbReq", "hbRsp", "askSetup", "setup"}, node : Node,
            seq : 0 .. WireMod - 1]

Msg(t, n, s) == [type |-> t, node |-> n, seq |-> s]

\* Run is in its select, in Receive, or in HandleHeartbeat, sending seq to the
\* channel of an association; or it dereferenced a nil association.
RunState == [pc : {"select", "receive", "deliver", "panic"},
             obj : Obj \cup {NoObj}, seq : 0 .. WireMod - 1]

At(pc) == [pc |-> pc, obj |-> NoObj, seq |-> 0]

\* ScheduleHeartbeat of an association: not running, about to send a request, in
\* its select, in the sleep between heartbeats, or sending to heartbeatFailedC.  cut is
\* history: since failedHeartbeats was last cleared, an answer came back with less than
\* the sequence of its request, which the wire could not carry.
SchedState == [pc : {"off", "send", "wait", "interval", "failing"},
               node : Node \cup {NoNode}, seq : 0 .. CounterMod - 1, failed : Nat,
               cut : BOOLEAN]

Off == [pc |-> "off", node |-> NoNode, seq |-> 0, failed |-> 0, cut |-> FALSE]

VARIABLES
    run,     \* the Run goroutine
    assoc,   \* NodeAssociations
    sched,   \* the goroutine and the sequence counter of every association
    net,     \* messages under way
    alive,   \* peers that are up
    missed,  \* heartbeats of a peer unanswered in a row (not state of the code)
    dups     \* messages duplicated so far

vars == <<run, assoc, sched, net, alive, missed, dups>>

\* Every variable has its type.
TypeOK ==
    /\ run \in RunState
    /\ assoc \in [Node -> Obj \cup {NoObj}]
    /\ sched \in [Obj -> SchedState]
    /\ net \subseteq Message
    /\ alive \in [Node -> BOOLEAN]
    /\ missed \in [Node -> Nat]
    /\ dups \in 0 .. MaxDup

-----------------------------------------------------------------------------
Init ==
    /\ run = At("select")
    /\ assoc = [n \in Node |-> NoObj]
    /\ sched = [o \in Obj |-> Off]
    /\ net = {}
    /\ alive = [n \in Node |-> TRUE]
    /\ missed = [n \in Node |-> 0]
    /\ dups = 0

\* An association object nobody refers to any more.
Fresh(o) == sched[o].pc = "off" /\ \A n \in Node : assoc[n] # o

NewObject(n) == CHOOSE o \in Obj : o[1] = n /\ Fresh(o)

Failing == {o \in Obj : sched[o].pc = "failing"}

\* NewNodeAssociation: NextSequenceID starts at 1; its heartbeats are started.
NewAssociation(n) ==
    [pc |-> "send", node |-> n, seq |-> 1 % CounterMod, failed |-> 0, cut |-> FALSE]

-----------------------------------------------------------------------------
(* The Run goroutine *)

\* The default branch: only when no channel of the select is ready.
EnterReceive ==
    /\ run.pc = "select"
    /\ Failing = {}
    /\ run' = At("receive")
    /\ UNCHANGED <<assoc, sched, net, alive, missed, dups>>

\* Receive runs into its deadline, or gets a message that changes no association.
ReceiveNothing ==
    /\ run.pc = "receive"
    /\ run' = At("select")
    /\ UNCHANGED <<assoc, sched, net, alive, missed, dups>>

\* A message is taken from the network, which may have another copy of it.
Take(m) ==
    /\ m \in net
    /\ \/ net' = net \ {m} /\ UNCHANGED dups
       \/ dups < MaxDup /\ dups' = dups + 1 /\ UNCHANGED net

\* Mutant of ReceiveSetup: an association that exists is overwritten.
SetupOverwrites(n) ==
    /\ run.pc = "receive"
    /\ Take(Msg("setup", n, 0))
    /\ \E o \in Obj : o[1] = n /\ Fresh(o)
    /\ assoc' = [assoc EXCEPT ![n] = NewObject(n)]
    /\ sched' = [sched EXCEPT ![NewObject(n)] = NewAssociation(n)]
    /\ run' = At("select")
    /\ UNCHANGED <<alive, missed>>

\* Association Setup Request or Response: an association that exists is kept.
ReceiveSetup(n) ==
    /\ run.pc = "receive"
    /\ Take(Msg("setup", n, 0))
    /\ IF assoc[n] # NoObj
       THEN UNCHANGED <<assoc, sched>>
       ELSE /\ \E o \in Obj : o[1] = n /\ Fresh(o)
            /\ assoc' = [assoc EXCEPT ![n] = NewObject(n)]
            /\ sched' = [sched EXCEPT ![NewObject(n)] = NewAssociation(n)]
    /\ run' = At("select")
    /\ UNCHANGED <<alive, missed>>

\* Heartbeat Response: HandleHeartbeat sends the sequence to the association.
ReceiveHeartbeatResponse(n) ==
    /\ run.pc = "receive"
    /\ \E s \in 0 .. WireMod - 1 :
         /\ Take(Msg("hbRsp", n, s))
         /\ run' = IF assoc[n] = NoObj THEN At("select")
                   ELSE [pc |-> "deliver", obj |-> assoc[n], seq |-> s]
    /\ missed' = [missed EXCEPT ![n] = 0]
    /\ UNCHANGED <<assoc, sched, alive>>

\* Mutant of Tick: only peers with an association are contacted.
TickInverted ==
    /\ run.pc = "select"
    /\ net' = net \cup {Msg("askSetup", n, 0) : n \in {m \in Remote : assoc[m] # NoObj}}
    /\ UNCHANGED <<run, assoc, sched, alive, missed, dups>>

\* The ticker: RefreshAssociations.
Tick ==
    /\ run.pc = "select"
    /\ net' = net \cup {Msg("askSetup", n, 0) : n \in {m \in Remote : assoc[m] = NoObj}}
    /\ UNCHANGED <<run, assoc, sched, alive, missed, dups>>

\* Mutant of HeartbeatFailed: the entry of NodeAssociations stays.
HeartbeatFailedKeepsEntry(o) ==
    /\ run.pc = "select"
    /\ o \in Failing
    /\ sched' = [sched EXCEPT ![o] = Off]
    /\ missed' = [missed EXCEPT ![sched[o].node] = 0]
    /\ UNCHANGED <<run, assoc, net, alive, dups>>

\* heartbeatFailedC: DeleteAssociation, which dereferences what GetAssociation
\* returns.  The scheduler that sent the address returns.
HeartbeatFailed(o) ==
    /\ run.pc = "select"
    /\ o \in Failing
    /\ sched' = [sched EXCEPT ![o] = Off]
    /\ assoc' = [assoc EXCEPT ![sched[o].node] = NoObj]
    /\ run' = IF assoc[sched[o].node] = NoObj THEN At("panic") ELSE run
    /\ missed' = [missed EXCEPT ![sched[o].node] = 0]
    /\ UNCHANGED <<net, alive, dups>>

-----------------------------------------------------------------------------
(* The scheduler of an association *)

\* Mutant of SendHeartbeat: the pause comes before the select.
SendHeartbeatPauses(o) ==
    LET s == (sched[o].seq + 1) % CounterMod
    IN  /\ sched[o].pc = "send"
        /\ Cardinality(net) < MaxNet
        /\ sched' = [sched EXCEPT ![o].pc = "interval", ![o].seq = s]
        /\ net' = net \cup {Msg("hbReq", sched[o].node, s % WireMod)}
        /\ UNCHANGED <<run, assoc, alive, missed, dups>>

SendHeartbeat(o) ==
    LET s == (sched[o].seq + 1) % CounterMod
    IN  /\ sched[o].pc = "send"
        /\ Cardinality(net) < MaxNet
        /\ sched' = [sched EXCEPT ![o].pc = "wait", ![o].seq = s]
        /\ net' = net \cup {Msg("hbReq", sched[o].node, s % WireMod)}
        /\ UNCHANGED <<run, assoc, alive, missed, dups>>

\* Mutants of HandleHeartbeat: an answer does not clear failedHeartbeats; there is
\* no pause after an answer.
AnswerKeepsFailures(o) ==
    /\ run.pc = "deliver" /\ run.obj = o /\ sched[o].pc = "wait"
    /\ sched' = [sched EXCEPT ![o].pc = IF run.seq = sched[o].seq THEN "interval" ELSE "send"]
    /\ run' = At("select")
    /\ UNCHANGED <<assoc, net, alive, missed, dups>>

AnswerWithoutPause(o) ==
    /\ run.pc = "deliver" /\ run.obj = o /\ sched[o].pc = "wait"
    /\ sched' = [sched EXCEPT ![o].pc = "send",
                              ![o].failed = IF run.seq = sched[o].seq THEN 0 ELSE @]
    /\ run' = At("select")
    /\ UNCHANGED <<assoc, net, alive, missed, dups>>

\* The scheduler receives what HandleHeartbeat sends.  An answer to another
\* request than the last one makes it send the next request at once.
HandleHeartbeat(o) ==
    /\ run.pc = "deliver"
    /\ run.obj = o
    /\ sched[o].pc = "wait"
    /\ sched' = IF run.seq = sched[o].seq
                THEN [sched EXCEPT ![o].pc = "interval", ![o].failed = 0, ![o].cut = FALSE]
                ELSE [sched EXCEPT ![o].pc = "send", ![o].cut = @ \/ sched[o].seq >= WireMod]
    /\ run' = At("select")
    /\ UNCHANGED <<assoc, net, alive, missed, dups>>

IntervalOver(o) ==
    /\ sched[o].pc = "interval"
    /\ sched' = [sched EXCEPT ![o].pc = "send"]
    /\ UNCHANGED <<run, assoc, net, alive, missed, dups>>

\* A heartbeat of n, or its answer, is still on its way to the scheduler.
Underway(n) ==
    \/ \E m \in net : m.node = n /\ m.type \in {"hbReq", "hbRsp"}
    \/ run.pc = "deliver" /\ run.obj = assoc[n]

\* Mutant of HeartbeatTimeout: failedHeartbeats counts down.
HeartbeatTimeoutCountsDown(o) ==
    /\ sched[o].pc = "wait"
    /\ Late \/ ~Underway(sched[o].node)
    /\ sched' = [sched EXCEPT ![o].failed = @ - 1, ![o].pc = "send"]
    /\ UNCHANGED <<run, assoc, net, alive, missed, dups>>

HeartbeatTimeout(o) ==
    /\ sched[o].pc = "wait"
    /\ Late \/ ~Underway(sched[o].node)
    /\ sched' = [sched EXCEPT ![o].failed = @ + 1,
                              ![o].pc = IF sched[o].failed + 1 >= Retries
                                        THEN "failing" ELSE "send"]
    /\ UNCHANGED <<run, assoc, net, alive, missed, dups>>

-----------------------------------------------------------------------------
(* The peers and the network *)

OneMoreMissed(n) == [missed EXCEPT ![n] = IF @ < Retries THEN @ + 1 ELSE @]

\* A peer answers heartbeats and setup requests.
PeerAnswers(n) ==
    /\ alive[n]
    /\ \E m \in net :
         /\ m.node = n
         /\ \/ /\ m.type = "hbReq"
               /\ net' = (net \ {m}) \cup {Msg("hbRsp", n, m.seq)}
            \/ /\ m.type = "askSetup"
               /\ net' = (net \ {m}) \cup {Msg("setup", n, 0)}
    /\ UNCHANGED <<run, assoc, sched, alive, missed, dups>>

\* A peer sets up the association itself.
PeerSetup(n) ==
    /\ alive[n]
    /\ net' = net \cup {Msg("setup", n, 0)}
    /\ UNCHANGED <<run, assoc, sched, alive, missed, dups>>

\* What reaches a peer that is down is gone.
PeerIgnores(n) ==
    /\ ~alive[n]
    /\ \E m \in net :
         /\ m.node = n
         /\ m.type \in {"hbReq", "askSetup"}
         /\ net' = net \ {m}
         /\ missed' = IF m.type = "hbReq" THEN OneMoreMissed(n) ELSE missed
    /\ UNCHANGED <<run, assoc, sched, alive, dups>>

\* A heartbeat request or response is lost, or has a time stamp that cannot be
\* read and is ignored.
Lose(n) ==
    /\ missed[n] < MaxLoss
    /\ \E m \in net :
         /\ m.node = n
         /\ m.type \in {"hbReq", "hbRsp"}
         /\ net' = net \ {m}
    /\ missed' = OneMoreMissed(n)
    /\ UNCHANGED <<run, assoc, sched, alive, dups>>

PeerUpOrDown(n) ==
    /\ alive' = [alive EXCEPT ![n] = ~@]
    /\ UNCHANGED <<run, assoc, sched, net, missed, dups>>

-----------------------------------------------------------------------------
Next ==
    \/ EnterReceive
    \/ ReceiveNothing
    \/ Tick
    \/ \E n \in Node :
         \/ ReceiveSetup(n)
         \/ ReceiveHeartbeatResponse(n)
         \/ PeerAnswers(n)
         \/ PeerSetup(n)
         \/ PeerIgnores(n)
         \/ Lose(n)
         \/ PeerUpOrDown(n)
    \/ \E o \in Obj :
         \/ HeartbeatFailed(o)
         \/ SendHeartbeat(o)
         \/ HandleHeartbeat(o)
         \/ IntervalOver(o)
         \/ HeartbeatTimeout(o)

Spec == Init /\ [][Next]_vars

\* Steps of the scheduler of o.
ScheduleHeartbeat(o) ==
    SendHeartbeat(o) \/ HandleHeartbeat(o) \/ IntervalOver(o) \/ HeartbeatTimeout(o)

\* Goroutines that can run do run, timers fire, the ticker is served (its channel
\* keeps a tick until the select takes it), every message in the socket is read
\* in its turn, and peers handle what they receive.  Nothing makes a peer fail,
\* recover or call, or a message get lost.
Fairness ==
    /\ WF_vars(EnterReceive \/ ReceiveNothing)
    /\ SF_vars(Tick)
    /\ \A n \in Node :
         /\ SF_vars(ReceiveSetup(n))
         /\ SF_vars(ReceiveHeartbeatResponse(n))
         /\ WF_vars(PeerAnswers(n) \/ PeerIgnores(n))
    /\ \A o \in Obj :
         /\ WF_vars(HeartbeatFailed(o))
         /\ WF_vars(ScheduleHeartbeat(o))

FairSpec == Spec /\ Fairness

-----------------------------------------------------------------------------
(* Properties *)

\* Every association has one scheduler and every scheduler an association, that
\* of the peer it probes: however setups, prunings and lost, late and repeated
\* messages interleave, no association goes unwatched, none is deleted by the
\* scheduler of an earlier one, and DeleteAssociation never finds nil.
OneScheduler ==
    /\ run.pc # "panic"
    /\ \A n \in Node : assoc[n] # NoObj =>
         sched[assoc[n]].pc # "off" /\ sched[assoc[n]].node = n
    /\ \A o \in Obj : sched[o].pc # "off" => assoc[sched[o].node] = o

\* "the number of unanswered heartbeats has reached the limit, association
\* deleted" (node_association.go): a peer is pruned only when its last
\* heartbeat_retries heartbeats went unanswered.  Left out by name: a sequence wider
\* than the wire comes back cut, and the answer that bears it clears no failures.
PrunedOnlyUnanswered ==
    [][\A n \in Node :
         assoc[n] # NoObj /\ assoc'[n] = NoObj /\ ~sched[assoc[n]].cut =>
           missed[n] >= Retries]_vars

\* "Heartbeat interval in seconds" (config.go): the next request leaves only when
\* the timer of the last one expired or the interval after its answer is over.  Left
\* out by name: the answer to a sequence wider than the wire is taken for a stale one.
HeartbeatsPaced ==
    [][\A o \in Obj :
         sched[o].pc = "wait" /\ sched'[o].pc = "send" /\ sched[o].seq < WireMod =>
           sched'[o].failed = sched[o].failed + 1]_vars

\* HandleHeartbeat sends to an unbuffered channel on the goroutine that serves every
\* peer: whenever it does, the scheduler of the association is in its select, so that
\* Run is never held up by one that sleeps, and never waits for one that waits for
\* Run.  Holds where answers are in time: ~Late covers the network, the peer and the time
\* the answer waits in the socket until Run reads it.
RunNotHeldUp == run.pc = "deliver" => sched[run.obj].pc = "wait"

\* The association of a peer that stays down is eventually deleted.
SilentPeerPruned ==
    \A n \in Node : (~alive[n] /\ assoc[n] # NoObj) ~> (alive[n] \/ assoc[n] = NoObj)

\* A configured peer that stays up eventually gets its association back.
ConfiguredPeersJoin ==
    \A n \in Remote : assoc[n] = NoObj ~> (assoc[n] # NoObj \/ ~alive[n])

\* "... has reached the limit, association deleted" (node_association.go): a
\* scheduler that says so gets its association deleted.
LimitReachedPrunes ==
    \A o \in Obj : sched[o].pc = "failing" ~> sched[o].pc = "off"
=============================================================================
