SPECIFICATION RoutingFairSpec
CONSTANTS
    Server = {s1, s2, s3}
    s3 = s3
    n1 = n1
    n2 = n2
    Name = {n1, n2}
    NameOf <- MCNameOf
    InputState = {"Ready", "Stopping", "Stopped"}
    Addr = {a1, a2}
    None = None
    Buffer = 2
    Window = 2
    MaxChanges = 3
    MaxBreaks = 1
INVARIANTS FollowsRecords CollectorSurvives
PROPERTIES ReadyRouted ImplementsRouteTable
CHECK_DEADLOCK FALSE
