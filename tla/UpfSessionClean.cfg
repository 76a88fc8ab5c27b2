CONSTANTS
    Node = {"smf1"}
    MaxSeid = 3
    RuleId <- FarQer
    PdrId = {1, 2}
    Teid = {1}
    UeIp4 = {"a"}
    UeIp6 = {}
    Sdf = {FALSE, TRUE}
    Info = {"i"}
    PoolSize <- AmplePool
    PdrMapSize = 2
    Stress = {}
SPECIFICATION Spec
INVARIANTS IsolatedForwarding MapsMatchSessions DeletionAnswered
