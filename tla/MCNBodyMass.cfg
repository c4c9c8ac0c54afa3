SPECIFICATION FairSpec
CONSTANTS
    BadLine = BadLine
    Size = 2
    Universes <- ThreeBodies
    MaxTimes = {2}
    DeltaTime = 1
CHECK_DEADLOCK FALSE
INVARIANT
    MassIsKept
