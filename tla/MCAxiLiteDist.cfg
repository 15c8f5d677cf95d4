SPECIFICATION FairSpec
CONSTANTS
    Ports <- TwoPorts
    Request <- Requests
PROPERTIES
    InOrder
    Answered
