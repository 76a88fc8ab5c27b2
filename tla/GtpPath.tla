------------------------------- MODULE GtpPath -------------------------------
(***************************************************************************)
(* The GTP path manager (cmd/core/gtp_path_manager.go): one goroutine      *)
(* sends a GTP-U Echo Request to every configured peer at every tick and   *)
(* waits for the answer of each before it goes on to the next.             *)
(*                                                                         *)
(* Time is counted in seconds.  It passes while the goroutine is blocked,  *)
(* in select, in net.ResolveUDPAddr, which asks a name server when the     *)
(* peer is configured by its host name, and in conn.Read; what it does in  *)
(* between takes none.  The code sets no limit to a lookup: ResolveTime is *)
(* the time after which the resolver of the machine answers or gives up.   *)
(* Every attempt has a socket of its own, connected to the peer: a         *)
(* datagram is read only by an attempt at the peer it comes from, but an   *)
(* attempt reads whatever answer of the peer comes first, also one to an   *)
(* earlier request (the comparison of sequence numbers is commented out).  *)
(* Answers are therefore only counted here.                                *)
(***************************************************************************)
EXTENDS Integers, FiniteSetsExt

CONSTANTS
    Peer,           \* gtp_peer
    NoPeer,         \* no attempt is under way
    CheckInterval,  \* gtp_echo_interval, in seconds
    ReadDeadline,   \* seconds conn.Read waits, 3
    ResolveTime,    \* seconds a lookup may take (external), 0 for IP addresses
    SeqMod,         \* sequence numbers are uint16, 65536
    MaxLate         \* bound: answers of a peer on their way

ASSUME GtpAssumption ==
    /\ IsFiniteSet(Peer) /\ NoPeer \notin Peer
    /\ CheckInterval \in Nat \ {0}
    /\ ReadDeadline \in Nat \ {0}
    /\ ResolveTime \in Nat
    /\ SeqMod \in Nat \ {0, 1}
    /\ MaxLate \in Nat \ {0}

VARIABLES
    seq,        \* GtpPathManager.peers
    cancelled,  \* ctx is done
    at,         \* the goroutine: where it is in Run and sendEcho
    todo,       \* peers this round has not tried
    peer,       \* the peer of the attempt under way
    waited,     \* seconds its lookup or its Read has waited
    tick,       \* ticker.C holds a tick
    phase,      \* seconds since the ticker fired
    alive,      \* peers that answer
    late,       \* Echo Responses of each peer on their way
    since       \* seconds since each peer was tried (history)

vars == <<seq, cancelled, at, todo, peer, waited, tick, phase, alive, late, since>>

\* The longest time between two attempts at a peer: it was the first of its round,
\* found at once, and is the last of the next, found late, which starts with the
\* next tick or, when lookups and silent peers take longer than that, at once.
Attempt == ResolveTime + ReadDeadline
Bound ==
    LET round == Attempt * Cardinality(Peer)
    IN  Max({CheckInterval, round}) + (round - ReadDeadline)

\* Every variable has its type, and no peer is tried twice in a round.
TypeOK ==
    /\ seq \in [Peer -> 0 .. SeqMod - 1]
    /\ cancelled \in BOOLEAN /\ tick \in BOOLEAN
    /\ at \in {"select", "range", "resolve", "read", "returned"}
    /\ todo \subseteq Peer
    /\ peer \in CASE at = "resolve" -> todo [] at = "read" -> Peer \ todo [] OTHER -> {NoPeer}
    /\ waited \in 0 .. CASE at = "resolve" -> ResolveTime [] at = "read" -> ReadDeadline
                         [] OTHER -> 0
    /\ phase \in 0 .. CheckInterval - 1
    /\ alive \subseteq Peer
    /\ late \in [Peer -> 0 .. MaxLate]
    /\ since \in [Peer -> Nat]

\* NewGtpPathManager, AddGtpPath for every configured peer, and Run.
Init ==
    /\ seq = [p \in Peer |-> 0]
    /\ cancelled = FALSE
    /\ at = "select" /\ todo = {} /\ peer = NoPeer /\ waited = 0
    /\ tick = FALSE /\ phase = 0
    /\ alive \in SUBSET Peer
    /\ late = [p \in Peer |-> 0]
    /\ since = [p \in Peer |-> 0]

ticker == <<tick, phase>>
world == <<alive, late>>

-----------------------------------------------------------------------------
(* Time *)

\* Mutant of Elapse: Read waits one second too long.
ElapsePastDeadline ==
    /\ \/ at = "select" /\ ~tick /\ ~cancelled
       \/ at = "resolve" /\ waited < ResolveTime
       \/ at = "read" /\ waited <= ReadDeadline
    /\ waited' = IF peer # NoPeer THEN waited + 1 ELSE 0
    /\ phase' = (phase + 1) % CheckInterval
    /\ tick' = (tick \/ phase' = 0)
    /\ since' = [p \in Peer |-> since[p] + 1]
    /\ UNCHANGED <<seq, cancelled, at, todo, peer, world>>

\* A second passes.  A tick that finds the channel full is dropped.
Elapse ==
    /\ \/ at = "select" /\ ~tick /\ ~cancelled
       \/ at = "resolve" /\ waited < ResolveTime
       \/ at = "read" /\ waited < ReadDeadline
    /\ waited' = IF peer # NoPeer THEN waited + 1 ELSE 0
    /\ phase' = (phase + 1) % CheckInterval
    /\ tick' = (tick \/ phase' = 0)
    /\ since' = [p \in Peer |-> since[p] + 1]
    /\ UNCHANGED <<seq, cancelled, at, todo, peer, world>>

-----------------------------------------------------------------------------
(* The goroutine of Run *)

\* Mutant of SelectDone: a tick goes first.
SelectDoneLast ==
    /\ at = "select" /\ cancelled /\ ~tick
    /\ at' = "returned"
    /\ UNCHANGED <<seq, cancelled, todo, peer, waited, ticker, world, since>>

\* When a tick and the end of the context are both there, select takes either.
SelectDone ==
    /\ at = "select" /\ cancelled
    /\ at' = "returned"
    /\ UNCHANGED <<seq, cancelled, todo, peer, waited, ticker, world, since>>

SelectTick ==
    /\ at = "select" /\ tick
    /\ tick' = FALSE
    /\ at' = "range" /\ todo' = Peer
    /\ UNCHANGED <<seq, cancelled, peer, waited, phase, world, since>>

\* Mutant of Continue: the end of an attempt is that of the round.
BreakRound(rest) == at' = "range" /\ todo' = {} /\ peer' = NoPeer /\ waited' = 0

\* An attempt that is over: the loop goes on with the rest of the round.
Continue(rest) == at' = "range" /\ todo' = rest /\ peer' = NoPeer /\ waited' = 0

\* sendEcho begins, with a peer in the order of the map, which is any: the local
\* address and the peer are resolved.
Resolve(p) ==
    /\ at = "range" /\ p \in todo
    /\ at' = "resolve" /\ peer' = p
    /\ UNCHANGED <<seq, cancelled, todo, waited, ticker, world, since>>

\* The peer was found, dialled and written to, and Read waits.  The request or its
\* answer may get lost.
SendEcho(p, answered) ==
    /\ at = "resolve" /\ peer = p
    /\ at' = "read" /\ todo' = todo \ {p} /\ waited' = 0
    /\ since' = [since EXCEPT ![p] = 0]
    /\ answered => p \in alive /\ late[p] < MaxLate
    /\ late' = IF answered THEN [late EXCEPT ![p] = @ + 1] ELSE late
    /\ UNCHANGED <<seq, cancelled, peer, ticker, alive>>

\* The peer cannot be resolved, dialled or written to.
SendFails(p) ==
    /\ at = "resolve" /\ peer = p
    /\ since' = [since EXCEPT ![p] = 0]
    /\ Continue(todo \ {p})
    /\ UNCHANGED <<seq, cancelled, ticker, world>>

\* The first Echo Response of the peer that comes.
ReadResponse(p) ==
    /\ at = "read" /\ peer = p
    /\ late[p] > 0
    /\ late' = [late EXCEPT ![p] = @ - 1]
    /\ seq' = [seq EXCEPT ![p] = (@ + 1) % SeqMod]
    /\ Continue(todo)
    /\ UNCHANGED <<cancelled, ticker, alive, since>>

\* Another message or a TEID other than 0, which a peer may send at any time; or an
\* ICMP error for a peer that is down.
ReadError ==
    /\ at = "read"
    /\ Continue(todo)
    /\ UNCHANGED <<seq, cancelled, ticker, world, since>>

\* Mutants of ReadTimeout: there is no deadline; it is taken for an answer.
ReadForever ==
    /\ FALSE
    /\ UNCHANGED vars

ReadTimeoutCounts ==
    /\ at = "read" /\ waited = ReadDeadline
    /\ Continue(todo)
    /\ seq' = [seq EXCEPT ![peer] = (@ + 1) % SeqMod]
    /\ UNCHANGED <<cancelled, ticker, world, since>>

ReadTimeout ==
    /\ at = "read" /\ waited = ReadDeadline
    /\ Continue(todo)
    /\ UNCHANGED <<seq, cancelled, ticker, world, since>>

RangeDone ==
    /\ at = "range" /\ todo = {}
    /\ at' = "select"
    /\ UNCHANGED <<seq, cancelled, todo, peer, waited, ticker, world, since>>

-----------------------------------------------------------------------------
Stop ==
    /\ cancelled' = TRUE
    /\ UNCHANGED <<seq, at, todo, peer, waited, ticker, world, since>>

\* The peers and the network.  An answer that comes when no attempt at its peer is
\* reading is dropped too.
GoDown(p) ==
    /\ alive' = alive \ {p}
    /\ UNCHANGED <<seq, cancelled, at, todo, peer, waited, ticker, late, since>>

ComeUp(p) ==
    /\ alive' = alive \cup {p}
    /\ UNCHANGED <<seq, cancelled, at, todo, peer, waited, ticker, late, since>>

Drop(p) ==
    /\ late[p] > 0
    /\ late' = [late EXCEPT ![p] = @ - 1]
    /\ UNCHANGED <<seq, cancelled, at, todo, peer, waited, ticker, alive, since>>

-----------------------------------------------------------------------------
Next ==
    \/ Elapse
    \/ SelectDone
    \/ SelectTick
    \/ \E p \in Peer :
         \/ Resolve(p)
         \/ \E answered \in BOOLEAN : SendEcho(p, answered)
         \/ SendFails(p)
         \/ ReadResponse(p)
         \/ GoDown(p) \/ ComeUp(p) \/ Drop(p)
    \/ ReadError
    \/ ReadTimeout
    \/ RangeDone
    \/ Stop

\* The goroutine runs and time passes; select is fair between its cases; a resolver,
\* sockets and a network that keep being asked work some day.
Fairness ==
    /\ WF_vars(Elapse) /\ WF_vars(SelectTick) /\ WF_vars(RangeDone) /\ WF_vars(ReadTimeout)
    /\ WF_vars(\E p \in Peer : Resolve(p))
    /\ SF_vars(SelectDone)
    /\ \A p \in Peer :
         /\ SF_vars(\E answered \in BOOLEAN : SendEcho(p, answered))
         /\ SF_vars(SendEcho(p, TRUE))
         /\ SF_vars(ReadResponse(p))

Spec == Init /\ [][Next]_vars /\ Fairness

-----------------------------------------------------------------------------
(* Properties *)

\* No peer waits longer than Bound seconds until it is tried again, that is sent an
\* Echo Request or given up for this round because it cannot be resolved or reached,
\* however many of the others are silent, as long as every lookup is over within
\* ResolveTime, and in whatever order the map is walked through.
ProbeGap == at # "returned" => \A p \in Peer : since[p] <= Bound

\* Once Stop was called the goroutine returns, also when rounds take so long that
\* there is always a tick waiting.
StopReturns == cancelled ~> at = "returned"

\* The sequence number of a peer that is down for good stands still some day: the
\* answers still on their way are the last that count.
DeadPeerNoticed ==
    \A p \in Peer : <>[](p \notin alive) => <>[][seq'[p] = seq[p]]_seq

\* A peer that is up for good is found alive again and again, though others are
\* silent.
AlivePeerSeen ==
    \A p \in Peer :
        <>[](p \in alive) => []<><<seq'[p] # seq[p]>>_seq \/ <>cancelled
=============================================================================
