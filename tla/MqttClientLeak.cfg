SPECIFICATION FairSpec
CONSTANTS
    Client = client
    Publishers = {pub}
    Reporters = {r1, r2}
    MaxBacklog = 2
    SpuriousWakeups = FALSE
    None = None
PROPERTY
    LossLeadsToReconnect
CHECK_DEADLOCK FALSE
