SPECIFICATION FairSpec
CONSTANTS
    p1 = p1
    p2 = p2
    c1 = c1
    c2 = c2
    d1 = d1
    d2 = d2
    Producers <- MCProducers
    Consumers <- MCConsumers
    Data <- MCData
    Capacity = 2
    Free = Free
    NoData = NoData
INVARIANTS
    TypeOK
    PermitsAccountForElements
    MutualExclusion
    NeverPopsEmptyNorOverflows
PROPERTIES
    ImplementsChannel
    HandsOver
    LetsThrough
