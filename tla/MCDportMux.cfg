SPECIFICATION FairSpec
CONSTANTS
    Ids = {id1, id2}
    SideDepth = 2
    CacheOpTargets = {"tcm"}
INVARIANTS
    PendingCounts
PROPERTIES
    ImplementsMemPort
    NothingStuck
