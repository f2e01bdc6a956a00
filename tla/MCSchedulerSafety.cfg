SPECIFICATION Spec
CONSTANTS
    Node = {n1, n2, n3}
    Server = {s1}
    Group = {}
    Template = {t1}
    None = None
    Deadline = 1
    Grace = 1
    Rooms = {TRUE}
    InitServers = {s1}
    InitGroups = {}
    MaxElections = 1
    MaxCrashes = 1
    MaxLeaderless = 3
    MaxRequests = 1
    MaxFailures = 1
    n1 = n1
    n2 = n2
    n3 = n3
    s1 = s1
    t1 = t1
    GroupSpecs <- MCGroupSpecs
    MinMax <- NoBounds
SYMMETRY Symmetry
INVARIANTS DetectionBound PlacedOnUp
PROPERTY NonHAPinned
CHECK_DEADLOCK FALSE
