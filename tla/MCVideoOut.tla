------------------------------ MODULE MCVideoOut ------------------------------
\* Two guest threads: they and the SDL thread are the three parties of every race.
EXTENDS VideoOut, TLC

CONSTANTS t1, t2

MCThreads == {t1, t2}
=============================================================================
