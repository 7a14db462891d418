SPECIFICATION FairSpec
CONSTANTS
    Counts = {0, 1}
    Settings = {0, 1}
    CHECKSTART = 9423434
    CHECKEND = 342134
    Absent = Absent
INVARIANTS
    TypeOK
    CopyTellsTheFile
PROPERTIES
    StoreIsRegister
    BootsAtLast
CHECK_DEADLOCK FALSE
