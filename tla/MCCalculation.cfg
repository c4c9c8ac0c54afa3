SPECIFICATION Spec
CONSTANTS
    IntLimit = 512
    URIs <- AllURIs
    Apps <- AllApps
    Slash = Slash
    Equals = Equals
    Comma = Comma
    Plus = Plus
    Space = Space
    EscapedComma = EscapedComma
    Letters = Letters
    Address = Address
CHECK_DEADLOCK FALSE
INVARIANTS
    TypeOK
    ResultsAreRight
    PageIsRight
