SPECIFICATION FairSpec
CONSTANTS
    Scripts <- AllScripts
    Manners <- AllManners
CHECK_DEADLOCK FALSE
INVARIANTS
    TypeOK
    AnswersInOrder
    AstrayOnlyByClose
PROPERTY
    Answered
