------------------------------ MODULE MCMemory ------------------------------
\* Two threads, one row of pages that device and host addresses share.
EXTENDS MemoryManager

CONSTANTS t1, t2

MCThreads == {t1, t2}
MCPages == 0..3
MCDevicePages == 0..2
=============================================================================
