SPECIFICATION Spec
CONSTANTS
    GameServer = {a, b}
    Paper = {}
    NoDatabase = {}
    a = a
    b = b
    None = None
    MaxVersion = 2
    MaxLogins = 3
    MaxMisfortunes = 0
CONSTRAINT FirstQuitOver
INVARIANT ReadsPostQuit
CHECK_DEADLOCK FALSE
