SPECIFICATION McpSpec
CONSTANTS
    Files <- MCFiles
    Lines = {1, 2}
    Limit = 2
    MaxItems = 3
    Foreign = Foreign
    Empty = Empty
    None = None
    MaxSnippetLines = 3
    MaxInt = 7
    LineArgs <- AllInts
    FileLengths = {1, 2, 5, 7}
INVARIANTS
    McpTypeOK
    CompactionExact
    EmptyAnswersHint
    UnsupportedDegrades
    LostSessionFails
    SnippetExact
    DeadNotCalledSlow
CHECK_DEADLOCK FALSE
