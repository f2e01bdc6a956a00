SPECIFICATION FairSpec
CONSTANTS
    Node = {n1, n2, n3}
    Server = {s1, s2, s3, s4, s5, s6}
    Group = {g1}
    Template = {t1}
    None = None
    Deadline = 1
    Grace = 1
    Rooms = {TRUE}
    InitServers = {s1, s2}
    InitGroups = {g1}
    MaxElections = 1
    MaxCrashes = 1
    MaxLeaderless = 1
    MaxRequests = 1
    MaxFailures = 0
    g1 = g1
    n1 = n1
    n2 = n2
    n3 = n3
    s1 = s1
    s2 = s2
    s3 = s3
    s4 = s4
    s5 = s5
    s6 = s6
    t1 = t1
    GroupSpecs <- MCGroupSpecs
    MinMax <- ExactlyOne
CONSTRAINT OneTrouble
INVARIANT TypeOK
PROPERTIES RehostedInTerm GroupReachesMin
CHECK_DEADLOCK FALSE
