SPECIFICATION FairSpec
CONSTANTS
    c1 = c1
    c2 = c2
    u1 = u1
    u2 = u2
    u3 = u3
    u4 = u4
    u5 = u5
    Calculators <- TwoCalculators
    Units <- FourUnits
    QueueCapacity = 1
    Stop = Stop
    Nothing = Nothing
    Self = Self
INVARIANT
    TypeOK
PROPERTIES
    ImplementsRemote
    EveryUnitAnswered
    StopEndsWorker
