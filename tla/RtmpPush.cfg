SPECIFICATION FairSpec
CONSTANTS
    Writers = {audio, video}
    Handles = {h1, h2}
    NULL = NULL
    StopAllowed = TRUE
INVARIANTS
    TypeOK
    OneHandle
    NoUseAfterDestroy
PROPERTIES
    ErrorLeadsToReconnect
    StopTakesEffect
