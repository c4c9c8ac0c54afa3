SPECIFICATION Spec
CONSTANTS
    h1 = h1
    h2 = h2
    c1 = c1
    c2 = c2
    k1 = k1
    w1 = w1
    w2 = w2
    r0 = r0
    r1 = r1
    r2 = r2
    Handlers <- TwoHandlers
    Calculators <- TwoCalculators
    WorkerHandlers <- NoWorker
    Workers <- NoWorker
    Unreliable <- NoWorker
    Requests <- Calculations
    Queries <- NumbersOfCalculations
    QueueCapacity = 1
    ConnectionsLimit = 2
    Client = Client
    Stop = Stop
    Nothing = Nothing
INVARIANTS
    NoDanglingPointer
    AnswersAreComplete
    StopsOvertakeNothing
