SPECIFICATION EdgeSpec
CONSTANTS
    v1 = v1
    v2 = v2
    VipNode = {v1, v2}
    Namings <- MCNamings
    NoLeader = NoLeader
    ObsBuffer = 1
    MaxElections = 2
    MaxVipFaults = 1
    EdgeNode = {e1, e2}
    GameServer = {g1}
    BadNode = {e2}
    NoConfig = NoConfig
    MaxEdgeChanges = 3
    MaxEdgeFaults = 2
    IP = {i1}
    BlockTTL = 2
    Unlisted = Unlisted
    MaxFloods = 3
    MaxIptFaults = 2
    FwServer = {f1, f2}
    FwPort = {p1}
    FwIP = {b1}
    MaxRules = 3
    MaxFwFaults = 1
INVARIANTS
    VipFollowsLeader
    OnlyValidated
    RulesMatchMap
    BlocksFirst
PROPERTIES
    VipSettles
    HAProxyCatchesUp
    FloodUnblocked
CHECK_DEADLOCK FALSE
