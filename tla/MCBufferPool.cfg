SPECIFICATION Spec
CONSTANTS
    b1 = b1
    b2 = b2
    u1 = u1
    u2 = u2
    none = none
    Buffers <- MCBuffers
    Units <- MCUnits
    Empty = none
    Sectors = {1, 2}
    IgnoreSectors = {2}
    Runs = {{1}, {1, 2}}
    Values = {0, 1}
    Zero = 0
VIEW MCView
SYMMETRY Symmetry
INVARIANTS TypeOK UniqueBuffer DirectReadCoherent
PROPERTY StoreSpec
