----------------------------- MODULE GtpPathProofs -----------------------------
(***************************************************************************)
(* Proofs about GtpPath, for any peers, any interval and deadline, and any *)
(* width of the sequence numbers.                                          *)
(***************************************************************************)
EXTENDS GtpPath, FiniteSetTheorems, TLAPS

\* The time a round of silent peers takes, and the longest time between the
\* starts of two rounds.
Round == Attempt * Cardinality(Peer)
Spacing == Max({CheckInterval, Round})

\* The time that attempts of this round may have taken: those that are over
\* Attempt each, the one under way what it has waited, and a whole lookup before.
Spent(a, r, w) ==
    IF a = "read"
    THEN Attempt * (Cardinality(Peer) - Cardinality(r) - 1) + (ResolveTime + w)
    ELSE Attempt * (Cardinality(Peer) - Cardinality(r)) + w

\* Where the goroutine is between two selects, and how long it may stay there.
Rounds == {"range", "resolve", "read"}
Limit(a) == CASE a = "resolve" -> ResolveTime [] a = "read" -> ReadDeadline [] OTHER -> 0

\* e seconds ago the last round began (or the manager started).  Peers it has tried
\* were tried since, the others in the round before; no tick has come since it
\* began unless the channel holds it.
Began(e) ==
    /\ ~tick => e <= phase
    /\ at = "select" => e <= Spacing /\ \A p \in Peer : since[p] <= e
    /\ at \in Rounds => /\ e <= Spent(at, todo, waited)
                        /\ \A p \in Peer \ todo : since[p] <= e
                        /\ \A p \in todo : since[p] <= Spacing + e

Inv == TypeOK /\ (at # "returned" => \E e \in 0 .. Spacing : Began(e))
-----------------------------------------------------------------------------
(* Arithmetic *)

LEMMA Distribute ==
    ASSUME NEW d \in Nat, NEW k \in Int
    PROVE  /\ d * k \in Int
           /\ d * (k + 1) = d * k + d
           /\ d * (k - 1) = d * k - d
  OBVIOUS

LEMMA Monotone ==
    ASSUME NEW d \in Nat, NEW k \in Int, NEW l \in Int, k <= l
    PROVE  d * k <= d * l
  OBVIOUS

\* The larger of two numbers.
LEMMA MaxOfTwo ==
    ASSUME NEW x \in Nat, NEW y \in Nat
    PROVE  Max({x, y}) \in Nat /\ x <= Max({x, y}) /\ y <= Max({x, y})
<1>1. \E z \in {x, y} : \A w \in {x, y} : z >= w
  <2>1. CASE x >= y
    BY <2>1
  <2>2. CASE y >= x
    BY <2>2
  <2> QED  BY <2>1, <2>2
<1> QED  BY <1>1 DEF Max

\* The constants of the bound.
LEMMA Numbers ==
    /\ Cardinality(Peer) \in Nat
    /\ Round \in Nat
    /\ Spacing \in Nat /\ CheckInterval <= Spacing /\ Round <= Spacing
    /\ Attempt \in Nat /\ ReadDeadline <= Attempt
    /\ Bound = Spacing + (Round - ReadDeadline)
<1>1. Cardinality(Peer) \in Nat
  BY GtpAssumption, FS_CardinalityType
<1>2. Attempt \in Nat /\ ReadDeadline <= Attempt /\ Round \in Nat
  BY <1>1, GtpAssumption DEF Round, Attempt
<1>3. Spacing \in Nat /\ CheckInterval <= Spacing /\ Round <= Spacing
  BY <1>2, GtpAssumption, MaxOfTwo DEF Spacing
<1>4. Bound = Spacing + (Round - ReadDeadline)
  BY DEF Bound, Spacing, Round
<1> QED  BY <1>1, <1>2, <1>3, <1>4

\* Peers still to come to.
LEMMA Todo ==
    ASSUME NEW s \in SUBSET Peer
    PROVE  /\ Cardinality(s) \in Nat /\ Cardinality(s) <= Cardinality(Peer)
           /\ s = {} <=> Cardinality(s) = 0
           /\ \A p \in s : Cardinality(s \ {p}) = Cardinality(s) - 1
           /\ Cardinality(Peer \ s) = Cardinality(Peer) - Cardinality(s)
<1>1. IsFiniteSet(s) /\ Cardinality(s) <= Cardinality(Peer)
  BY GtpAssumption, FS_Subset
<1>2. Cardinality(s) \in Nat /\ (s = {} <=> Cardinality(s) = 0)
  BY <1>1, FS_CardinalityType, FS_EmptySet
<1>3. \A p \in s : Cardinality(s \ {p}) = Cardinality(s) - 1
  BY <1>1, FS_RemoveElement
<1>4. Cardinality(Peer \ s) = Cardinality(Peer) - Cardinality(s)
  <2>1. Peer \cap s = s
    OBVIOUS
  <2> QED  BY <2>1, GtpAssumption, FS_Difference
<1> QED  BY <1>1, <1>2, <1>3, <1>4

-----------------------------------------------------------------------------
(* Types *)

\* The manager starts in its select, with nothing under way.
LEMMA TypesInit == Init => TypeOK
<1> SUFFICES ASSUME Init PROVE TypeOK
  OBVIOUS
<1>1. 0 \in 0 .. SeqMod - 1 /\ 0 \in 0 .. MaxLate /\ 0 \in 0 .. CheckInterval - 1
  BY GtpAssumption
<1>2. seq \in [Peer -> 0 .. SeqMod - 1] /\ late \in [Peer -> 0 .. MaxLate] /\ since \in [Peer -> Nat]
  BY <1>1 DEF Init
<1>3. at = "select" /\ peer = NoPeer /\ waited = 0 /\ phase = 0
  BY DEF Init
<1>4. /\ peer \in CASE at = "resolve" -> todo [] at = "read" -> Peer \ todo [] OTHER -> {NoPeer}
      /\ waited \in 0 .. CASE at = "resolve" -> ResolveTime [] at = "read" -> ReadDeadline
                           [] OTHER -> 0
  BY <1>3
<1>5. /\ cancelled \in BOOLEAN /\ tick \in BOOLEAN /\ todo \subseteq Peer /\ alive \subseteq Peer
      /\ at \in {"select", "range", "resolve", "read", "returned"}
  BY DEF Init
<1> QED  BY <1>1, <1>2, <1>3, <1>4, <1>5 DEF TypeOK

\* What TypeOK says of the attempt, position by position.
LEMMA Position ==
    ASSUME TypeOK
    PROVE  /\ at = "resolve" => peer \in todo /\ waited \in 0 .. ResolveTime
           /\ at = "read" => peer \in Peer \ todo /\ waited \in 0 .. ReadDeadline
           /\ at \notin {"resolve", "read"} => peer = NoPeer /\ waited = 0
  BY DEF TypeOK

\* Every step keeps the types.
LEMMA TypesStep == TypeOK /\ [Next]_vars => TypeOK'
<1> SUFFICES ASSUME TypeOK, [Next]_vars PROVE TypeOK'
  OBVIOUS
<1>p. /\ at = "resolve" => peer \in todo /\ waited \in 0 .. ResolveTime
      /\ at = "read" => peer \in Peer \ todo /\ waited \in 0 .. ReadDeadline
      /\ at \notin {"resolve", "read"} => peer = NoPeer /\ waited = 0
  BY Position
<1> USE GtpAssumption DEF TypeOK, ticker, world
<1>c. ASSUME NEW rest \in SUBSET Peer, Continue(rest), cancelled' \in BOOLEAN, tick' \in BOOLEAN,
             seq' \in [Peer -> 0 .. SeqMod - 1], phase' \in 0 .. CheckInterval - 1,
             alive' \subseteq Peer, late' \in [Peer -> 0 .. MaxLate], since' \in [Peer -> Nat]
      PROVE  TypeOK'
  BY <1>c DEF Continue
<1>1. CASE Elapse
  <2>1. (phase + 1) % CheckInterval \in 0 .. CheckInterval - 1
    OBVIOUS
  <2>2. phase' \in 0 .. CheckInterval - 1 /\ tick' \in BOOLEAN
    BY <1>1, <2>1 DEF Elapse
  <2>3. /\ at = "resolve" => waited' \in 0 .. ResolveTime
        /\ at = "read" => waited' \in 0 .. ReadDeadline
        /\ at \notin {"resolve", "read"} => waited' = 0
    BY <1>1, <1>p DEF Elapse
  <2>4. since' \in [Peer -> Nat]
    BY <1>1 DEF Elapse
  <2>5. UNCHANGED <<seq, cancelled, at, todo, peer, alive, late>>
    BY <1>1 DEF Elapse
  <2> QED  BY <2>2, <2>3, <2>4, <2>5
<1>2. CASE SelectDone
  BY <1>2, <1>p DEF SelectDone
<1>3. CASE SelectTick
  BY <1>3, <1>p DEF SelectTick
<1>13. ASSUME NEW p \in Peer, Resolve(p) PROVE TypeOK'
  BY <1>13, <1>p DEF Resolve
<1>4. ASSUME NEW p \in Peer, NEW answered \in BOOLEAN, SendEcho(p, answered)
      PROVE  TypeOK'
  <2>1. late' \in [Peer -> 0 .. MaxLate]
    <3>1. answered => late[p] + 1 \in 0 .. MaxLate
      BY <1>4 DEF SendEcho
    <3> QED  BY <1>4, <3>1 DEF SendEcho
  <2>2. since' \in [Peer -> Nat]
    BY <1>4 DEF SendEcho
  <2>3. /\ todo' \subseteq Peer /\ peer' = p /\ p \in Peer \ todo' /\ waited' = 0
        /\ at' = "read" /\ UNCHANGED <<seq, cancelled, tick, phase, alive>>
    BY <1>4 DEF SendEcho
  <2> QED  BY <2>1, <2>2, <2>3
<1>5. ASSUME NEW p \in Peer, SendFails(p) PROVE TypeOK'
  <2>1. /\ Continue(todo \ {p}) /\ since' \in [Peer -> Nat]
        /\ UNCHANGED <<seq, cancelled, tick, phase, alive, late>>
    BY <1>5 DEF SendFails
  <2> QED  BY <1>c, <2>1
<1>6. ASSUME NEW p \in Peer, ReadResponse(p) PROVE TypeOK'
  <2>1. (seq[p] + 1) % SeqMod \in 0 .. SeqMod - 1 /\ late[p] - 1 \in 0 .. MaxLate
    BY <1>6 DEF ReadResponse
  <2>2. late' \in [Peer -> 0 .. MaxLate] /\ seq' \in [Peer -> 0 .. SeqMod - 1]
    BY <1>6, <2>1 DEF ReadResponse
  <2>3. Continue(todo) /\ UNCHANGED <<cancelled, tick, phase, alive, since>>
    BY <1>6 DEF ReadResponse
  <2> QED  BY <1>c, <2>2, <2>3
<1>7. ASSUME NEW p \in Peer, GoDown(p) \/ ComeUp(p) PROVE TypeOK'
  BY <1>7, <1>p DEF GoDown, ComeUp
<1>8. ASSUME NEW p \in Peer, Drop(p) PROVE TypeOK'
  <2>1. late[p] - 1 \in 0 .. MaxLate
    BY <1>8 DEF Drop
  <2> QED  BY <1>8, <1>p, <2>1 DEF Drop
<1>9. CASE ReadError \/ ReadTimeout
  <2>1. Continue(todo) /\ UNCHANGED <<seq, cancelled, tick, phase, alive, late, since>>
    BY <1>9 DEF ReadError, ReadTimeout
  <2> QED  BY <1>c, <2>1
<1>10. CASE RangeDone
  BY <1>10, <1>p DEF RangeDone
<1>11. CASE Stop
  BY <1>11, <1>p DEF Stop
<1>12. CASE UNCHANGED vars
  BY <1>12, <1>p DEF vars
<1> QED
  BY <1>1, <1>2, <1>3, <1>4, <1>5, <1>6, <1>7, <1>8, <1>9, <1>10, <1>11, <1>12, <1>13 DEF Next

\* Types and bounds hold in every state: sequence numbers stay within 16 bits, no
\* peer is looked up that was tried in this round, and no lookup or read outlasts
\* its limit.
THEOREM PathTypes == Spec => []TypeOK
  BY TypesInit, TypesStep, PTL DEF Spec

-----------------------------------------------------------------------------
(* The gap *)

\* Spent in terms of the attempts that are over.
LEMMA SpentTypes ==
    ASSUME NEW a \in Rounds, NEW r \in SUBSET Peer, NEW w \in 0 .. Limit(a)
    PROVE  /\ Spent(a, r, w) \in Int
           /\ Attempt * (Cardinality(Peer) - Cardinality(r)) \in Int
           /\ a = "range" => Spent(a, r, w) = Attempt * (Cardinality(Peer) - Cardinality(r))
           /\ a = "resolve" =>
                Spent(a, r, w) = Attempt * (Cardinality(Peer) - Cardinality(r)) + w
           /\ a = "read" =>
                Spent(a, r, w) = Attempt * (Cardinality(Peer) - Cardinality(r)) - ReadDeadline + w
           /\ r # {} => Spent(a, r, w) <= Round - ReadDeadline
           /\ a # "resolve" \/ r # {} => Spent(a, r, w) <= Round
<1> DEFINE k == Cardinality(Peer) - Cardinality(r)
<1>p. /\ a = "resolve" => w \in 0 .. ResolveTime
      /\ a = "read" => w \in 0 .. ReadDeadline
      /\ a = "range" => w = 0
  BY DEF Limit
<1>0. /\ Cardinality(Peer) \in Nat /\ Cardinality(r) \in Nat
      /\ r # {} => Cardinality(r) # 0
  BY Numbers, Todo
<1>1. k \in Int /\ k <= Cardinality(Peer) /\ (r # {} => k <= Cardinality(Peer) - 1)
  BY <1>0
<1>2. /\ ReadDeadline \in Nat /\ Round \in Nat /\ ResolveTime \in Nat /\ Attempt \in Nat
      /\ Attempt = ResolveTime + ReadDeadline /\ w \in Nat
  BY GtpAssumption, Numbers, <1>p DEF Attempt, Rounds
<1>3. /\ Attempt * k \in Int /\ Attempt * (k - 1) = Attempt * k - Attempt
      /\ Attempt * (Cardinality(Peer) - 1) = Round - Attempt
  BY <1>0, <1>1, <1>2, Distribute DEF Round
<1>4. /\ Attempt * k <= Round
      /\ r # {} => Attempt * k <= Round - Attempt
  BY <1>0, <1>1, <1>2, <1>3, Monotone DEF Round
<1>5. ASSUME a # "read" PROVE Spent(a, r, w) = Attempt * k + w
  BY <1>5 DEF Spent
<1>6. ASSUME a = "read" PROVE Spent(a, r, w) = Attempt * (k - 1) + (ResolveTime + w)
  BY <1>6 DEF Spent
<1> HIDE DEF k
<1>7. /\ Spent(a, r, w) \in Int
      /\ a = "range" => Spent(a, r, w) = Attempt * k
      /\ a = "resolve" => Spent(a, r, w) = Attempt * k + w
      /\ a = "read" => Spent(a, r, w) = Attempt * k - ReadDeadline + w
  BY <1>2, <1>3, <1>5, <1>6, <1>p
<1>8. CASE a = "range"
  BY <1>2, <1>3, <1>4, <1>7, <1>8 DEF k
<1>9. CASE a = "resolve"
  BY <1>2, <1>3, <1>4, <1>7, <1>9, <1>p DEF k
<1>10. CASE a = "read"
  BY <1>2, <1>3, <1>4, <1>7, <1>10, <1>p DEF k
<1> QED  BY <1>8, <1>9, <1>10 DEF Rounds

\* At the start all peers count as tried.
LEMMA BeganInit == Init => Began(0) /\ 0 \in 0 .. Spacing /\ at = "select"
  BY Numbers, GtpAssumption DEF Init, Began, Rounds

\* A step of the peers or of the network, or a stutter: nothing the invariant
\* speaks of changes.
LEMMA BeganStays ==
    ASSUME NEW e, Began(e), UNCHANGED <<at, todo, waited, tick, phase, since>>
    PROVE  Began(e)'
  BY DEF Began

\* Every step moves the beginning of the round along, or begins a new one.
LEMMA BeganStep ==
    ASSUME TypeOK, TypeOK', [Next]_vars, at' # "returned",
           at # "returned" => \E e \in 0 .. Spacing : Began(e)
    PROVE  \E e \in 0 .. Spacing : Began(e)'
<1> USE DEF ticker, world
<1>n. /\ Spacing \in Nat /\ CheckInterval <= Spacing /\ Round <= Spacing /\ Round \in Nat
      /\ ReadDeadline \in Nat /\ CheckInterval \in Nat \ {0} /\ ResolveTime \in Nat
      /\ Attempt \in Nat /\ Attempt = ResolveTime + ReadDeadline
  BY Numbers, GtpAssumption DEF Attempt
<1>t. /\ phase \in 0 .. CheckInterval - 1 /\ tick \in BOOLEAN
      /\ \A p \in Peer : since[p] \in Nat /\ since'[p] \in Nat
      /\ todo \in SUBSET Peer /\ todo' \in SUBSET Peer
      /\ waited \in 0 .. Limit(at) /\ waited' \in 0 .. Limit(at')
  BY DEF TypeOK, Limit
<1>p. /\ at = "resolve" => peer \in todo /\ waited \in 0 .. ResolveTime
      /\ at = "read" => peer \in Peer \ todo /\ waited \in 0 .. ReadDeadline
      /\ at \notin {"resolve", "read"} => peer = NoPeer /\ waited = 0
  BY Position
<1>s. at \in Rounds =>
        /\ Spent(at, todo, waited) \in Int
        /\ Attempt * (Cardinality(Peer) - Cardinality(todo)) \in Int
        /\ Spent(at, todo, waited) <= Round
  BY <1>t, <1>p, SpentTypes
<1>r. at # "returned"
  BY DEF Next, vars, Elapse, SelectDone, SelectTick, Resolve, SendEcho, SendFails, ReadResponse,
         GoDown, ComeUp, Drop, ReadError, ReadTimeout, RangeDone, Stop
<1>e. PICK e \in 0 .. Spacing : Began(e)
  BY <1>r
<1>1. CASE Elapse
  <2>1. /\ UNCHANGED <<at, todo, peer>>
        /\ phase' = (phase + 1) % CheckInterval
        /\ tick' = (tick \/ phase' = 0)
        /\ \A p \in Peer : since'[p] = since[p] + 1
    BY <1>1 DEF Elapse
  <2>2. phase' = IF phase + 1 = CheckInterval THEN 0 ELSE phase + 1
    BY <1>e, <1>n, <1>t, <2>1
  <2>3. ~tick' => e + 1 <= phase'
    <3>1. ASSUME ~tick' PROVE ~tick /\ phase' = phase + 1
      BY <2>1, <2>2, <3>1
    <3> QED  BY <1>e, <1>t, <3>1 DEF Began
  <2>4. CASE at = "select"
    <3>1. ~tick
      BY <1>1, <2>4 DEF Elapse
    <3>2. e <= phase /\ e + 1 <= Spacing
      BY <1>e, <1>n, <1>t, <3>1 DEF Began
    <3>3. \A p \in Peer : since'[p] <= e + 1
      BY <1>e, <1>t, <2>1, <2>4 DEF Began
    <3> QED  BY <1>e, <2>1, <2>3, <2>4, <3>2, <3>3 DEF Began, Rounds
  <2>5. CASE at \in {"resolve", "read"}
    <3>1. waited' = waited + 1 /\ waited \in Nat
      BY <1>1, <1>p, <2>5, GtpAssumption DEF Elapse, TypeOK
    <3>2. Spent(at', todo', waited') = Spent(at, todo, waited) + 1 /\ Spent(at, todo, waited) \in Int
      <4> DEFINE k == Attempt * (Cardinality(Peer) - Cardinality(todo))
      <4>1. /\ at = "resolve" => Spent(at, todo, waited) = k + waited
            /\ at = "read" => Spent(at, todo, waited) = k - ReadDeadline + waited
            /\ k \in Int
        BY <1>s, <1>t, <2>5, SpentTypes DEF Rounds
      <4>2. /\ at = "resolve" => Spent(at', todo', waited') = k + waited'
            /\ at = "read" => Spent(at', todo', waited') = k - ReadDeadline + waited'
        BY <1>t, <2>1, <2>5, SpentTypes DEF Rounds
      <4> HIDE DEF k
      <4> QED  BY <1>n, <2>5, <3>1, <4>1, <4>2
    <3>3. e + 1 <= Spent(at', todo', waited') /\ Spent(at', todo', waited') <= Round
      <4>1. e <= Spent(at, todo, waited)
        BY <1>e, <2>5 DEF Began, Rounds
      <4>2. Spent(at', todo', waited') <= Round
        BY <1>p, <1>t, <2>1, <2>5, SpentTypes DEF Rounds
      <4> QED  BY <1>e, <3>2, <4>1, <4>2
    <3>4. /\ \A p \in Peer \ todo : since'[p] <= e + 1
          /\ \A p \in todo : since'[p] <= Spacing + (e + 1)
      BY <1>e, <1>n, <1>t, <2>1, <2>5 DEF Began, Rounds
    <3>5. e + 1 \in 0 .. Spacing
      BY <1>n, <3>2, <3>3
    <3> QED  BY <1>e, <2>1, <2>3, <2>5, <3>3, <3>4, <3>5 DEF Began
  <2> QED  BY <1>1, <2>4, <2>5 DEF Elapse
<1>2. CASE SelectTick
  <2>1. /\ at = "select" /\ at' = "range" /\ todo' = Peer /\ ~tick'
        /\ UNCHANGED <<peer, waited, phase, since>>
    BY <1>2 DEF SelectTick
  <2>2. \A p \in Peer : since'[p] <= Spacing + 0
    BY <1>e, <1>n, <1>t, <2>1 DEF Began
  <2>3. 0 <= Spent(at', todo', waited')
    <3>1. Spent(at', todo', waited') = Attempt * (Cardinality(Peer) - Cardinality(Peer))
      BY <1>t, <2>1, SpentTypes DEF Rounds
    <3> QED  BY <1>n, <3>1, Numbers
  <2>4. Began(0)'
    BY <1>e, <1>t, <2>1, <2>2, <2>3 DEF Began
  <2> QED  BY <1>n, <2>4
<1>10. ASSUME NEW p \in Peer, Resolve(p) PROVE Began(e)'
  <2>1. /\ at = "range" /\ at' = "resolve" /\ UNCHANGED <<todo, waited, tick, phase, since>>
    BY <1>10 DEF Resolve
  <2>2. Spent(at', todo', waited') = Spent(at, todo, waited)
    BY <2>1 DEF Spent
  <2> QED  BY <1>e, <2>1, <2>2 DEF Began, Rounds
<1>3. ASSUME NEW p \in Peer, NEW answered \in BOOLEAN, SendEcho(p, answered) \/ SendFails(p)
      PROVE  Began(e)'
  <2>1. /\ at = "resolve" /\ peer = p /\ p \in todo /\ todo' = todo \ {p} /\ waited' = 0
        /\ at' \in {"read", "range"}
        /\ since' = [since EXCEPT ![p] = 0]
        /\ UNCHANGED <<tick, phase>>
    BY <1>3, <1>p DEF SendEcho, SendFails, Continue
  <2> DEFINE k == Cardinality(Peer) - Cardinality(todo)
  <2>2. Cardinality(Peer) - Cardinality(todo') = k + 1 /\ k \in Int
    <3>1. Cardinality(todo \ {p}) = Cardinality(todo) - 1 /\ Cardinality(todo) \in Nat
      BY <1>t, <2>1, Todo
    <3> QED  BY <2>1, <3>1, Numbers
  <2>3. Spent(at, todo, waited) = Attempt * k + waited /\ waited \in 0 .. ResolveTime
    BY <1>p, <1>t, <2>1, SpentTypes DEF Rounds
  <2>4. /\ Spent(at', todo', waited') \in Int
        /\ Spent(at', todo', waited') >= Attempt * (k + 1) - ReadDeadline
    <3>1. /\ at' = "range" => Spent(at', todo', waited') = Attempt * (Cardinality(Peer) - Cardinality(todo'))
          /\ at' = "read" => Spent(at', todo', waited') = Attempt * (Cardinality(Peer) - Cardinality(todo'))
                                         - ReadDeadline + waited'
      BY <1>t, <2>1, SpentTypes DEF Rounds
    <3>2. Attempt * (k + 1) \in Int
      BY <1>n, <2>2, Distribute
    <3> HIDE DEF k
    <3> QED  BY <1>n, <2>1, <2>2, <3>1, <3>2
  <2>5. Spent(at, todo, waited) <= Spent(at', todo', waited')
    <3>1. Attempt * (k + 1) = Attempt * k + Attempt /\ Attempt * k \in Int
      BY <1>n, <2>2, Distribute
    <3> HIDE DEF k
    <3> QED  BY <1>n, <2>3, <2>4, <3>1
  <2>6. /\ since'[p] = 0 /\ \A q \in Peer \ {p} : since'[q] = since[q]
    BY <2>1 DEF TypeOK
  <2>7. e <= Spent(at', todo', waited')
    <3>1. e <= Spent(at, todo, waited) /\ Spent(at, todo, waited) \in Int
      BY <1>e, <1>s, <2>1 DEF Began, Rounds
    <3> QED  BY <1>e, <2>4, <2>5, <3>1
  <2>8. ASSUME NEW q \in Peer \ todo' PROVE since'[q] <= e
    BY <1>e, <2>1, <2>6 DEF Began, Rounds
  <2>9. ASSUME NEW q \in todo' PROVE since'[q] <= Spacing + e
    BY <1>e, <1>t, <2>1, <2>6 DEF Began, Rounds
  <2> QED  BY <1>e, <2>1, <2>7, <2>8, <2>9 DEF Began
<1>4. ASSUME at = "read", Continue(todo), UNCHANGED <<tick, phase, since>>
      PROVE  Began(e)'
  <2>1. at' = "range" /\ todo' = todo
    BY <1>4 DEF Continue
  <2>2. /\ Spent(at', todo', waited') = Attempt * (Cardinality(Peer) - Cardinality(todo))
        /\ Spent(at, todo, waited) = Attempt * (Cardinality(Peer) - Cardinality(todo)) - ReadDeadline + waited
    BY <1>t, <1>4, <2>1, SpentTypes DEF Rounds
  <2>3. e <= Spent(at', todo', waited')
    <3>1. e <= Spent(at, todo, waited) /\ Attempt * (Cardinality(Peer) - Cardinality(todo)) \in Int
      BY <1>e, <1>s, <1>4 DEF Began, Rounds
    <3> QED  BY <1>e, <1>n, <1>p, <1>4, <2>2, <3>1
  <2> QED  BY <1>e, <1>4, <2>1, <2>3 DEF Began, Rounds
<1>5. ASSUME NEW p \in Peer, ReadResponse(p) PROVE Began(e)'
  BY <1>4, <1>5 DEF ReadResponse
<1>6. CASE ReadError \/ ReadTimeout
  BY <1>4, <1>6 DEF ReadError, ReadTimeout
<1>7. CASE RangeDone
  <2>1. /\ at = "range" /\ at' = "select" /\ todo = {}
        /\ UNCHANGED <<todo, waited, tick, phase, since>>
    BY <1>7 DEF RangeDone
  <2>2. \A p \in Peer : since'[p] <= e
    BY <1>e, <2>1 DEF Began, Rounds
  <2> QED  BY <1>e, <2>1, <2>2 DEF Began, Rounds
<1>8. CASE Stop \/ (\E p \in Peer : GoDown(p) \/ ComeUp(p) \/ Drop(p)) \/ UNCHANGED vars
  BY <1>e, <1>8, BeganStays DEF Stop, GoDown, ComeUp, Drop, vars
<1>9. ~SelectDone
  BY DEF SelectDone
<1> QED  BY <1>e, <1>1, <1>2, <1>3, <1>5, <1>6, <1>7, <1>8, <1>9, <1>10 DEF Next

\* However many peers are silent, whichever lookups fail and in whatever order the
\* map is walked: no peer waits longer than Bound seconds until it is tried again,
\* for any number of peers, any interval, deadline and time that a lookup may take.
THEOREM PeersAreProbed == Spec => []ProbeGap
<1>1. Init => Inv
  BY TypesInit, BeganInit DEF Inv
<1>2. Inv /\ [Next]_vars => Inv'
  BY TypesStep, BeganStep DEF Inv
<1>3. Inv => ProbeGap
  <2> SUFFICES ASSUME Inv, at # "returned", NEW p \in Peer PROVE since[p] <= Bound
    BY DEF ProbeGap
  <2>1. PICK e \in 0 .. Spacing : Began(e)
    BY DEF Inv
  <2>2. /\ Spacing \in Nat /\ Round \in Nat /\ Bound = Spacing + (Round - ReadDeadline)
        /\ Round <= Spacing /\ since[p] \in Nat /\ ReadDeadline \in Nat
        /\ Attempt \in Nat /\ ReadDeadline <= Attempt
    BY Numbers, GtpAssumption DEF Inv, TypeOK
  <2>3. Round >= ReadDeadline
    <3>1. Cardinality(Peer) >= 1
      <4>1. Cardinality(Peer) # 0 /\ Cardinality(Peer) \in Nat
        BY Todo, Numbers
      <4> QED  BY <4>1
    <3>2. Attempt * 1 <= Attempt * Cardinality(Peer)
      BY <2>2, <3>1, Numbers, Monotone
    <3> QED  BY <2>2, <3>2 DEF Round
  <2>5. CASE since[p] <= e
    BY <2>1, <2>2, <2>3, <2>5
  <2>6. CASE at \in Rounds /\ p \in todo
    <3>1. since[p] <= Spacing + e /\ e <= Spent(at, todo, waited)
      BY <2>1, <2>6 DEF Began
    <3>2. todo \in SUBSET Peer /\ waited \in 0 .. Limit(at)
      BY DEF Inv, TypeOK, Limit
    <3>3. Spent(at, todo, waited) \in Int /\ Spent(at, todo, waited) <= Round - ReadDeadline
      BY <2>6, <3>2, SpentTypes
    <3> QED  BY <2>1, <2>2, <3>1, <3>3
  <2> QED  BY <2>1, <2>5, <2>6 DEF Began, Inv, TypeOK, Rounds
<1> QED  BY <1>1, <1>2, <1>3, PTL DEF Spec
=============================================================================
