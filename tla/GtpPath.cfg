\* Two peers, a ticker faster than a round of silent peers.
SPECIFICATION Spec
CONSTANTS
    Peer = {p1, p2}
    NoPeer = NoPeer
    CheckInterval = 2
    ReadDeadline = 1
    ResolveTime = 1
    SeqMod = 2
    MaxLate = 1
INVARIANTS
    TypeOK
    ProbeGap
PROPERTIES
    StopReturns
    DeadPeerNoticed
    AlivePeerSeen
CHECK_DEADLOCK FALSE
