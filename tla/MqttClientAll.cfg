SPECIFICATION FairSpec
CONSTANTS
    Client = client
    Publishers = {pub}
    Reporters = {r1, r2}
    MaxBacklog = 2
    SpuriousWakeups = TRUE
    None = None
INVARIANTS
    TypeOK
    OneCallerOfTheLibrary
    LossWillBeReported
    PublishOnValidHandle
    ReportIsCurrent
    ConnTellsTheTruth
PROPERTIES
    NoHandleLeak
    TearDownNeedsLoss
    ReconnectsUnlessLeaked
CHECK_DEADLOCK FALSE
