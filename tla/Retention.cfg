SPECIFICATION FairSpec
CONSTANTS
    Backups = {b1, b2, b3}
    MinBackupsToKeep = 1
    DeleteBackupsAfter = 1
    IgnoreForManualBackups = TRUE
    Manual = {b1}
    Waiting = {b3}
    Incremental = {}
    UserDeletes = TRUE
    MaxTime = 3
    MaxFailures = 1
INVARIANT SweepInv
PROPERTIES EnoughKept NewestKept OldBackupsGo
CHECK_DEADLOCK FALSE
