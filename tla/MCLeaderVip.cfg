SPECIFICATION VipSpec
CONSTANTS
    VipNode = {v1, v2}
    Namings = {{}}
    NoLeader = NoLeader
    ObsBuffer = 1
    MaxElections = 2
    MaxVipFaults = 1
INVARIANTS
    VipOnLeader
CHECK_DEADLOCK FALSE
