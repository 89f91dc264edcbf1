SPECIFICATION FairChainSpec
CONSTANTS
    Backups <- backups2
    Chain <- chain2
    Manual = {"b2"}
    Config = "config"
    NoBase = "none"
    QueueCap = 1
    MaxFailures = 1
    Recreate = FALSE
    EagerResync = FALSE
    MayBeUnwritable = TRUE
    ConfigDeletable = TRUE
    IgnoreForBackupDeletion = FALSE
    IgnoreForBackupConfigDeletion = FALSE
PROPERTIES KeepsPromise DeletionCompletes ConfigDeletionCompletes
CHECK_DEADLOCK FALSE
