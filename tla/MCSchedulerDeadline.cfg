SPECIFICATION Spec
CONSTANTS
    Node = {n1, n2, n3}
    Server = {s1, s2}
    Group = {}
    Template = {t1}
    None = None
    Deadline = 1
    Grace = 1
    Rooms = {TRUE}
    InitServers = {s1}
    InitGroups = {}
    MaxElections = 1
    MaxCrashes = 1
    MaxLeaderless = 1
    MaxRequests = 0
    MaxFailures = 0
    n1 = n1
    n2 = n2
    n3 = n3
    s1 = s1
    s2 = s2
    t1 = t1
    GroupSpecs <- MCGroupSpecs
    MinMax <- NoBounds
INVARIANT DownAtDeadline
CHECK_DEADLOCK FALSE
