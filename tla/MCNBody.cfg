SPECIFICATION FairSpec
CONSTANTS
    BadLine = BadLine
    Size = 3
    Universes <- AllUniverses
    MaxTimes = {0, 2}
    DeltaTime = 1
CHECK_DEADLOCK FALSE
INVARIANTS
    TypeOK
    CollectivesMatch
    ReportOnlyOfWholeUniverse
    OnlyShortFilesLeaveNoBodies
    SavedFileReloads
    CountIsActive
    PullsComplete
    EachPairOnce

    
