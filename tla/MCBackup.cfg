SPECIFICATION BackupSpec
CONSTANTS
    Backups = {b1, b2}
    Chunks = 2
    MaxSaves = 1
    MaxSeconds = 2
    MaxBackupFaults = 0
INVARIANTS
    NoDirtyReads
CHECK_DEADLOCK FALSE
