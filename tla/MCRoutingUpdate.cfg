SPECIFICATION RoutingSpec
CONSTANTS
    Server = {s3}
    s3 = s3
    n1 = n1
    n2 = n2
    Name = {n1, n2}
    NameOf <- MCNameOf
    InputState = {"Starting", "Ready"}
    Addr = {a1, a2}
    None = None
    Buffer = 2
    Window = 2
    MaxChanges = 3
    MaxBreaks = 0
INVARIANT ReadyUpdates
CHECK_DEADLOCK FALSE
