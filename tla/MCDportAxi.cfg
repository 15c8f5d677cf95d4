SPECIFICATION FairRingsSpec
CONSTANTS
    Ids = {id1, id2}
    Depth = 2
    Data = {id1, id2}
INVARIANTS
    RingInPlace
    QueuesInStep
    WritesPaired
    AckMatches
PROPERTIES
    HandshakesStable
    ImplementsMemPort
    NothingStuck
