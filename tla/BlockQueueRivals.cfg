SPECIFICATION FairSpec
CONSTANTS
    Producers = {p1, p2}
    Consumers = {c1, c2}
    Items = {d1, d2, d3, d4, d5, d6}
    Cap = 2
    None = None
INVARIANTS
    TypeOK
    OneOwner
    WakeupsSuffice
PROPERTY ImplementsFairFifo
