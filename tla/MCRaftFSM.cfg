CONSTANTS
    n1 = n1
    n2 = n2
    s1 = s1
    k1 = k1
    none = none
    Node = {n1, n2}
    ID = {s1}
    Key = {k1}
    None = none
    Row <- MCRow
    Input <- MCInput
    BufSize = 2
    MaxProposals = 3
    MaxRestarts = 1
    MaxSubs = 1
SYMMETRY Symmetry
SPECIFICATION Spec
CONSTRAINT OneQuestion
CHECK_DEADLOCK FALSE
INVARIANTS
    TypeOK
    ReplicaAgreement
    AckedCommitted
    EventsFaithful
PROPERTY
    RetryHasNoEffect
