--------------------------- MODULE MCSemaphoreFifo ---------------------------
\* Instances of SemaphoreFifo: which calls the guest makes differs from run to run.
EXTENDS SemaphoreFifo

CONSTANTS t1, t2, t3

MCThreads2 == {t1, t2}
MCThreads3 == {t1, t2, t3}
MCUntimed == {FALSE}
MCTimed == {TRUE}
==============================================================================
