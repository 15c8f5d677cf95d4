SPECIFICATION RegsSpec
CONSTANTS
    a = a
    b = b
    Octets <- TwoBytes
    RxSize = 2
    TxSize = 2
SYMMETRY Symmetry
INVARIANT StrobeInv
PROPERTIES
    ImplementsEthDevice
