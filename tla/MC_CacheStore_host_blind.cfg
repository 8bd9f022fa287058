CONSTANTS
    t1 = t1
    t2 = t2
    h1 = h1
    h2 = h2
    Threads <- MCThreads
    Hosts <- MCHosts
    Resources <- MCResources
    Ascii <- MCAscii
    Chunks <- MCChunks
    ShortWrites = FALSE
    MaxInodes = 3
    MaxRequests = 2
SYMMETRY MCSymmetry
SPECIFICATION Spec
INVARIANT HitIsRequestedHost
