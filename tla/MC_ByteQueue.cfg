CONSTANTS
    t1 = t1
    t2 = t2
    Threads <- MCThreads
    MaxAddr = 16
    MaxChunks = 2
    MaxResponses = 2

SYMMETRY MCSymmetry

SPECIFICATION Spec

INVARIANT TypeOK
INVARIANT HeapSafe
INVARIANT LeakBounded
PROPERTY QueueRefined
