CONSTANTS
    n1 = n1
    n2 = n2
    s1 = s1
    k1 = k1
    none = none
    Node = {n1, n2}
    ID = {s1}
    Key = {k1}
    None = none
    Row <- MCRow
    Input <- MCInputKinds
    BufSize = 1
    MaxProposals = 2
    MaxRestarts = 0
    MaxSubs = 1
SPECIFICATION FairSpec
CHECK_DEADLOCK FALSE
PROPERTY
    Convergence
