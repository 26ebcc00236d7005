--------------------------- MODULE MCImageHandler ---------------------------
\* Three threads: one holds the image, one has its turn next, one queues behind.
EXTENDS ImageHandler, TLC

CONSTANTS t1, t2, t3

MCThreads == {t1, t2, t3}
=============================================================================
