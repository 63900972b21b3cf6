SPECIFICATION Spec
CONSTANTS
    Words <- MCWords
    Length <- MCLength
    Pieces <- MCPieces
    Terminated <- MCTerminated
    Booleans = {"true"}
    CommandLines <- MCCommandLines
    MaxLen <- MCMaxLen
    DataSize <- MCMaxLen
    LongLen = 24
    MaxStray = 1
    ShortSize <- MCShortSize
INVARIANTS
    OverflowTerminated
CHECK_DEADLOCK FALSE
