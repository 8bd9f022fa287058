---------------------------- MODULE MC_ByteQueue ----------------------------
EXTENDS ByteQueue, TLC

CONSTANTS t1, t2

MCThreads == {t1, t2}

\* No property names a thread: the threads are interchangeable.
MCSymmetry == Permutations(MCThreads)

=============================================================================
