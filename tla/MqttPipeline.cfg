SPECIFICATION SettledSpec
CONSTANTS
    Receiver = receiver
    Consumer = consumer
    Client = client
    Reporters = {r1}
    Items = {d1, d2, d3, d4}
    Cap = 2
    SpuriousWakeups = TRUE
    None = None
INVARIANT
    ObjectsAreMessages
PROPERTIES
    CycleEndsInLeak
    EveryMessageProcessed
CHECK_DEADLOCK FALSE
