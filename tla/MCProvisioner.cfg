SPECIFICATION ProvisionerSpec
CONSTANTS
    CreateCall = {c1, c2}
    NoUser = NoUser
    MaxDrops = 0
    MaxSqlFaults = 1
INVARIANTS
    PasswordOpens
CHECK_DEADLOCK FALSE
