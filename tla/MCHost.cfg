SPECIFICATION HostSpec
CONSTANTS
    Backups = {b1, b2}
    Chunks = 2
    MaxSaves = 1
    MaxSeconds = 2
    MaxBackupFaults = 1
    StartCall = {k1, k2}
    Box = {x1, x2}
    HostPort = {p1, p2}
    NoPort = NoPort
    DynamicBox = {x1}
    MaxContainerFaults = 1
    CreateCall = {c1, c2}
    NoUser = NoUser
    MaxDrops = 2
    MaxSqlFaults = 2
    Publisher = {q1, q2}
    SignServer = {g1, g2}
    Sign = {"open", "full"}
    NoSign = NoSign
    MaxPublishes = 4
    MaxSignFaults = 1
    Jar = {j1, j2, j3, j4}
    NoMetadata = {j3}
    Unidentified = {j4}
    Capacity = 3
    MaxReleases = 3
    MaxApiFaults = 2
    TokenNode = {n1, n2}
    Tok = {t1}
    MaxTokenFaults = 3
    Rpc = {r1, r2}
    Stream = {r2}
    Http = {h1}
INVARIANTS
    AckedExecuted
    KeyNamesArchive
    ConsistentArchive
    ReturnedPortServes
    CredentialsWork
    SignsFollow
    QuiescentAtClose
PROPERTIES
    SavingResumes
    UpdatesScheduled
    TokensTakeHold
    SignalExits
CHECK_DEADLOCK FALSE
