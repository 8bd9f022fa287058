CONSTANTS
    BufLen = 3
    RecvSizes = {1, 3}
    Chars <- MCChars
    StatusPrefix <- MCStatusPrefix
    CLName <- MCCLName
    TEName <- MCTEName
    ChunkedName <- MCChunkedName
    Responses <- MCAllResponses
    Framed <- MCFramedResponses
    ShortSends = FALSE

SPECIFICATION Spec

INVARIANT TypeOK
INVARIANT ClientBytesInOrder
INVARIANT SuccessMeansComplete
PROPERTY Terminates
PROPERTY RelayRefined
