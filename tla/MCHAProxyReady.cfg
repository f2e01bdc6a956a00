SPECIFICATION HAProxySpec
CONSTANTS
    EdgeNode = {e1}
    GameServer = {g1}
    BadNode = {}
    NoConfig = NoConfig
    MaxEdgeChanges = 3
    MaxEdgeFaults = 1
PROPERTIES
    OnlyReadyServed
CHECK_DEADLOCK FALSE
