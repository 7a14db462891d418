SPECIFICATION FairSpec
CONSTANTS
    DefaultModes <- MCModes
    Files <- MCFiles
    MaxRead = 1
INVARIANTS
    TypeOK
    CallbacksFindTheirServer
    ReadsAsWritten
    SettingsAsWritten
PROPERTY
    StreamsAtLast
CHECK_DEADLOCK FALSE
