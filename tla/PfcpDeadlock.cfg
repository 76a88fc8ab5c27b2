CONSTANTS
    Node = {"smf1"}
    Remote = {"smf1"}
    Copies = {1}
    NoObj = NoObj
    Retries = 2
    CounterMod = 4
    WireMod = 3
    MaxLoss = 0
    MaxDup = 0
    MaxNet = 4
    Late = TRUE
SPECIFICATION FairSpec
PROPERTY LimitReachedPrunes
CHECK_DEADLOCK FALSE
