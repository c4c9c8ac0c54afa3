SPECIFICATION Spec
CONSTANTS
    h1 = h1
    h2 = h2
    c1 = c1
    c2 = c2
    k1 = k1
    w1 = w1
    w2 = w2
    r0 = r0
    r1 = r1
    r2 = r2
    Handlers <- OneHandler
    Calculators <- OneCalculator
    WorkerHandlers <- OneWorkerHandler
    Workers <- TwoWorkers
    Unreliable <- TwoWorkers
    Requests <- BigRequest
    Queries <- NumbersOfBig
    QueueCapacity = 1
    ConnectionsLimit = 1
    Client = Client
    Stop = Stop
    Nothing = Nothing
CHECK_DEADLOCK FALSE
INVARIANTS
    TypeOK
    NoUnitTwice
    NoDanglingPointer
    PendingCountsUnits
    AnswersAreComplete
    StopsOvertakeNothing
    ServedWorkersArePooled
