SPECIFICATION ContainersSpec
CONSTANTS
    StartCall = {k1}
    Box = {x1}
    HostPort = {p1}
    NoPort = NoPort
    DynamicBox = {x1}
    MaxContainerFaults = 0
INVARIANTS
    CloneIsFresh
CHECK_DEADLOCK FALSE
