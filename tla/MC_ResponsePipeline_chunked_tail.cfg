CONSTANTS
    BufLen = 3
    RecvSizes = {1, 3}
    Chars <- MCChars
    StatusPrefix <- MCStatusPrefix
    CLName <- MCCLName
    TEName <- MCTEName
    ChunkedName <- MCChunkedName
    Responses <- MCChunkedResponses
    Framed <- MCChunkedResponses
    ShortSends = FALSE

SPECIFICATION Spec

INVARIANT SuccessMeansComplete
