CONSTANTS
    Node = {"smf1"}
    MaxSeid = 3
    RuleId <- FarAndQer
    PdrId = {1}
    Teid = {}
    UeIp4 = {ue1, ue2}
    UeIp6 = {}
    Sdf = {FALSE}
    Info = {"rule", "other"}
    PoolSize <- TightPool
    PdrMapSize = 2
    Stress = {}
    Cpu = {"c1"}
    Forw = {"rule", "other"}
    Gtp = {"rule", "other"}
    Closed = {"other"}
SPECIFICATION DpSpec
SYMMETRY Addresses
VIEW SessionsView
INVARIANTS DpTypeOK UndisturbedForwarding
