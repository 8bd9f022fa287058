CONSTANTS
    BufLen = 3
    RecvSizes = {1, 3}
    Chars <- MCChars
    StatusPrefix <- MCStatusPrefix
    CLName <- MCCLName
    TEName <- MCTEName
    ChunkedName <- MCChunkedName
    Responses <- MCUnframedResponses
    Framed <- MCFramedResponses
    ShortSends = FALSE

SPECIFICATION Spec

INVARIANT DeliveredWhenOriginDone
