SPECIFICATION FairSpec
CONSTANTS
    MaxBufs = 3
    MaxPictures = 5
INVARIANTS
    TypeOK
    CopyIsOfTheFrame
    NothingLeftOver
    SentInOrder
PROPERTY
    EveryPictureIsSent
CHECK_DEADLOCK FALSE
