SPECIFICATION Spec
CONSTANTS
    Client = client
    Publishers = {pub}
    Reporters = {r1, r2}
    MaxBacklog = 2
    SpuriousWakeups = TRUE
    None = None
PROPERTY
    TearDownOnlyAfterLoss
CHECK_DEADLOCK FALSE
