CONSTANTS
    Node = {"smf1", "smf2"}
    Remote = {"smf1"}
    Copies = {1, 2}
    NoObj = NoObj
    Retries = 1
    CounterMod = 3
    WireMod = 2
    MaxLoss = 1
    MaxDup = 1
    MaxNet = 2
    Late = TRUE
SPECIFICATION Spec
INVARIANTS TypeOK OneScheduler
CHECK_DEADLOCK FALSE
