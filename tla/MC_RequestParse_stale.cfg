CONSTANTS
    Requests <- MCRequests
    BufCells = 18
    RecvSizes = {3}
    GarbageChars = {"x", "LF", "NUL"}
    MaxClients = 3
SPECIFICATION Spec
INVARIANT ParseMatchesRequest
