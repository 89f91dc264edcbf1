SPECIFICATION FairSpec
CONSTANTS
    Nil = Nil
    Clusters <- clusters
    Configs <- configs
    ArchiveOf <- archiveOf
    RecoveryOf <- recoveryOf
    Own <- own
    Specs <- specs
    Start <- start
    Targets <- targets
    Finish <- finish
    FinishLSN <- finishLSN
    MaxEvents = 1
INVARIANTS TypeOK BestBackupRestored KeysFit RecoversFromSource
PROPERTIES ClustersRecover
CHECK_DEADLOCK FALSE
