SPECIFICATION UpdaterFairSpec
CONSTANTS
    Jar = {j1, j2}
    NoMetadata = {}
    Unidentified = {}
    Capacity = 3
    MaxReleases = 2
    MaxApiFaults = 0
PROPERTIES
    EveryUpdateScheduled
CHECK_DEADLOCK FALSE
