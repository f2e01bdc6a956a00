SPECIFICATION RateLimiterFairSpec
CONSTANTS
    IP = {i1}
    BlockTTL = 2
    Unlisted = Unlisted
    MaxFloods = 2
    MaxIptFaults = 0
PROPERTIES
    UnblockedAfterTTL
CHECK_DEADLOCK FALSE
