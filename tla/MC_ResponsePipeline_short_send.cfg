CONSTANTS
    BufLen = 3
    RecvSizes = {1, 3}
    Chars <- MCChars
    StatusPrefix <- MCStatusPrefix
    CLName <- MCCLName
    TEName <- MCTEName
    ChunkedName <- MCChunkedName
    Responses <- MCFramedResponses
    Framed <- MCFramedResponses
    ShortSends = TRUE

SPECIFICATION Spec

INVARIANT ClientBytesInOrder
