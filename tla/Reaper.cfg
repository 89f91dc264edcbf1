SPECIFICATION FairSpec
CONSTANTS
    Commands <- commands
    Orphans <- orphans
    Pids <- pids
    None = None
INVARIANTS OwnStatus StatusOnItsWay SubscriptionsLive
PROPERTIES RunReturns ZombiesCollected
CHECK_DEADLOCK FALSE
