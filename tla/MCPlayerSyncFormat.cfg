SPECIFICATION Spec
CONSTANTS
    GameServer = {a, b}
    Paper = {b}
    NoDatabase = {}
    a = a
    b = b
    None = None
    MaxVersion = 1
    MaxLogins = 2
    MaxMisfortunes = 0
INVARIANT ProfileTransferred
CHECK_DEADLOCK FALSE
