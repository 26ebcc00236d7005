---------------------------- MODULE MCEventQueue ----------------------------
\* Three threads and two keys: one waiter may take what the other was woken for.
EXTENDS EventQueue, TLC

CONSTANTS t1, t2, t3, k1, k2

MCThreads == {t1, t2, t3}
MCKeys == {k1, k2}
=============================================================================
