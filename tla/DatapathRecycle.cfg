CONSTANTS
    Node = {"smf1"}
    MaxSeid = 2
    RuleId <- TwoFarsAndQer
    PdrId = {1}
    Teid = {1}
    UeIp4 = {"a"}
    UeIp6 = {}
    Sdf = {FALSE, TRUE}
    Info = {"rule"}
    PoolSize <- TightPool
    PdrMapSize = 2
    Stress = {}
    Cpu = {"c1"}
    Forw = {"rule"}
    Gtp = {"rule"}
    Closed = {}
SPECIFICATION DpSpec
INVARIANT NoRecycledRule
