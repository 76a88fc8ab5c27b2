CONSTANTS
    Node = {"smf1"}
    MaxSeid = 3
    RuleId <- FarUrr
    PdrId = {1}
    Teid = {1}
    UeIp4 = {}
    UeIp6 = {}
    Sdf = {TRUE}
    Info = {"i"}
    PoolSize <- SmallPool
    PdrMapSize = 1
    Stress = {"badIE", "noAddr", "reuse", "shared", "rekey", "dangle", "sdfUpdate"}
SPECIFICATION Spec
INVARIANTS TypeOK NoSharedRule SlotsMirrorSessions
PROPERTIES LeaksOnlyWhereKnown SlotsAreAPool
