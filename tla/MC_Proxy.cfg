CONSTANTS
    t1 = t1
    t2 = t2
    c1 = c1
    c2 = c2
    c3 = c3
    Threads <- MCThreads
    Clients <- MCClients
    Requests <- MCRequests
    FilterFiles <- MCFilterFiles
    ToLower <- MCToLower
    Key <- MCKey
    FgetsCap = 4
    Stdio = 3
    MaxFds = 8
SPECIFICATION Spec
INVARIANT TypeOK
INVARIANT OriginOnlyForAllowed
PROPERTY EveryClientServed
