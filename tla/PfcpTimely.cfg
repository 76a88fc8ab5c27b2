CONSTANTS
    Node = {"smf1", "smf2"}
    Remote = {"smf1"}
    Copies = {1}
    NoObj = NoObj
    Retries = 2
    CounterMod = 3
    WireMod = 2
    MaxLoss = 2
    MaxDup = 0
    MaxNet = 4
    Late = FALSE
SPECIFICATION FairSpec
INVARIANT RunNotHeldUp
PROPERTIES PrunedOnlyUnanswered HeartbeatsPaced SilentPeerPruned ConfiguredPeersJoin
