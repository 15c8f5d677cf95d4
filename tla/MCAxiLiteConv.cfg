SPECIFICATION FairSpec
CONSTANTS
    Bursts <- AllTypes
INVARIANT BurstInv
PROPERTIES
    ImplementsPorts
    BurstsEnd
