------------------------------ MODULE MCPthread ------------------------------
\* Threads are interchangeable and every property is an invariant.
EXTENDS Pthread, TLC

CONSTANTS t1, t2, t3

MCThreads == {t1, t2, t3}
MCSymmetry == Permutations(MCThreads)
=============================================================================
