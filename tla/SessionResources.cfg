CONSTANTS
    TeidRange = 2
    IpRange = 1
    SeId = {2, 3, 7}
    PdrId = {1, 2, 3}
    Node = {"smf1"}
    MaxSeid = 3
    MaxStored = 2
    RemoteSeid = {2, 7}
    UplinkPdr = {1, 2}
    DownlinkPdr = {3}
    GivenTeid = {100}
    ChooseId = {1}
    Stress = {"rechoose", "reseid", "badIE"}
SPECIFICATION ResSpec
INVARIANTS ResTypeOK NoDoubleHandout ResourcesExclusive
PROPERTIES PoolsKeepPromise OrphanedOnlyWhereKnown
