CONSTANTS
    g1 = g1  g2 = g2  w1 = w1  w2 = w2  none = none
    Getters = {g1, g2}
    Watches = {w1, w2}
    NoWatch = none
    MaxVersion = 3
    MaxFaults = 1
SPECIFICATION FairSpec
INVARIANTS TypeOK EntryWatched
PROPERTIES CacheCatchesUp
CHECK_DEADLOCK FALSE
