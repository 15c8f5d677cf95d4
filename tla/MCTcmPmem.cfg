SPECIFICATION FairSpec
CONSTANTS
    Bursts <- ShortBursts
    FifoDepth = 3
INVARIANTS
    FlowInv
PROPERTIES
    ImplementsBursts
    NothingStuck
