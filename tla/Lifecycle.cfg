SPECIFICATION ChainSpec
CONSTANTS
    Backups <- backups2
    Chain <- chain1
    Manual = {"b2"}
    Config = "config"
    NoBase = "none"
    QueueCap = 1
    MaxFailures = 1
    Recreate = FALSE
    EagerResync = TRUE
    MayBeUnwritable = FALSE
    ConfigDeletable = TRUE
    IgnoreForBackupDeletion = FALSE
    IgnoreForBackupConfigDeletion = FALSE
INVARIANTS TypeOK DeletionInv
PROPERTIES OnlyDeletedRemoved FinalizerGuardsData DependentsNotForgotten KeepsPromise
CHECK_DEADLOCK FALSE
