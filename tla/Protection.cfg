CONSTANTS
    c1 = c1  Nil = Nil
    Configs = {c1}
    Objects <- objects
    Specs <- specs
    Own <- own
    MaxEvents = 3
SPECIFICATION FairSpec
INVARIANTS TypeOK AddedFinalizersHold
PROPERTIES DyingObjectsGo ReferencedGetProtected
CHECK_DEADLOCK FALSE
