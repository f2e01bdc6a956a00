SPECIFICATION PluginsSpec
CONSTANTS
    GameServer = {a, b, c, d}
    Paper = {c, d}
    NoDatabase = {b}
    a = a
    b = b
    c = c
    d = d
    None = None
    MaxVersion = 2
    MaxLogins = 3
    MaxMisfortunes = 2
INVARIANTS TypeOK FreshWhenCalm IndexWhenCalm
PROPERTY LockFreed
CHECK_DEADLOCK FALSE
