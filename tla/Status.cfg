CONSTANTS
    k1 = k1  k2 = k2  w1 = w1  w2 = w2  none = none
    Configs = {k1, k2}
    Present = {k1}
    NoKey = none
    Workers = {w1, w2}
    QueueSize = 1
    Versions = {16}
    MaxSecret = 2
    MaxChanges = 1
    MaxFailures = 1
SPECIFICATION FairSpec
INVARIANTS TypeOK OneWorkerPerConfig
PROPERTIES OnlyOwnResults CredentialsShown ArchiveChecked
CHECK_DEADLOCK FALSE
