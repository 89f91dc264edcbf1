SPECIFICATION FairSpec
CONSTANTS
    NoBase = 0
    MaxWal = 4
    Names <- names
INVARIANTS SearchCorrect
PROPERTIES SearchEnds
CHECK_DEADLOCK FALSE
