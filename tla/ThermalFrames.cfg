SPECIFICATION Spec
CONSTANTS
    Widths = {1, 2, 4}
    Heights = {1, 2}
    T_SIZE = 5
    MaxBlocks = 3
    NULL = NULL
INVARIANTS
    TypeOK
    WritesFit
    PointersMatchHeap
