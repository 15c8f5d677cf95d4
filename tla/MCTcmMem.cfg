SPECIFICATION MemSpec
CONSTANTS
    Words = {w0, w1}
    Data = {d0, d1}
    Ids = {id1, id2}
SYMMETRY Symmetry
PROPERTIES
    ImplementsSharedRam
