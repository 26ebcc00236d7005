------------------------------ MODULE MCThreads ------------------------------
EXTENDS Threads

CONSTANTS c1, c2

MCThreads == {c1, c2}
=============================================================================
