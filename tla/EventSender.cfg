SPECIFICATION Spec
CONSTANTS
    Words <- MCWords
    Length <- MCLength
    Pieces <- MCPieces
    Terminated <- MCTerminated
    Booleans = {"true"}
    CommandLines <- MCCommandLines
    MaxLen <- MCMaxLen
    DataSize <- MCMaxLen
    LongLen = 24
    MaxStray = 1
    ShortSize <- MCShortSize
INVARIANTS
    TypeOK
    BusReleased
    NothingUnsaid
    ArgumentsTyped
    AbbreviationSurvives
    FormsComplete
    SentAsInUsage
CHECK_DEADLOCK FALSE
