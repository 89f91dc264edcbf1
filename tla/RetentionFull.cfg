SPECIFICATION FairSpec
CONSTANTS
    Backups = {b1, b2, b3}
    MinBackupsToKeep = 2
    DeleteBackupsAfter = 1
    IgnoreForManualBackups = FALSE
    Manual = {}
    Waiting = {}
    Incremental = {b3}
    UserDeletes = FALSE
    MaxTime = 3
    MaxFailures = 0
PROPERTIES FullBackupsKept
CHECK_DEADLOCK FALSE
