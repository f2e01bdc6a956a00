SPECIFICATION FairSpec
CONSTANTS
    Node = {n1}
    Server = {s1, s2, s3, s4}
    Group = {g1}
    Template = {t1}
    None = None
    Deadline = 1
    Grace = 1
    Rooms = {TRUE}
    InitServers = {}
    InitGroups = {g1}
    MaxElections = 0
    MaxCrashes = 0
    MaxLeaderless = 0
    MaxRequests = 1
    MaxFailures = 0
    g1 = g1
    n1 = n1
    s1 = s1
    s2 = s2
    s3 = s3
    s4 = s4
    t1 = t1
    GroupSpecs <- MCGroupSpecs
    MinMax <- ExactlyOne
PROPERTY LiveCountKept
CHECK_DEADLOCK FALSE
