SPECIFICATION ChainSpec
CONSTANTS
    Backups <- backups2
    Chain <- chain1
    Manual = {}
    Config = "config"
    NoBase = "none"
    QueueCap = 2
    MaxFailures = 0
    Recreate = FALSE
    EagerResync = TRUE
    MayBeUnwritable = FALSE
    ConfigDeletable = FALSE
    IgnoreForBackupDeletion = FALSE
    IgnoreForBackupConfigDeletion = FALSE
PROPERTIES LiveDataKept
CHECK_DEADLOCK FALSE
