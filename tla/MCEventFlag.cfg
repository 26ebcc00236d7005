SPECIFICATION FlagFairSpec
CONSTANTS
    t1 = t1
    t2 = t2
    t3 = t3
    Threads <- MCThreads
    Bits <- MCBits
    BitArgs <- MCBitArgs
    WaitArgs <- MCWaitArgs
\* Nothing is left to run once the flag has been deleted.
CHECK_DEADLOCK FALSE
INVARIANTS
    TypeOK
    WaitersCounted
    NoLostWakeup
    NoWaiterAfterDelete
PROPERTIES
    CancelledWaitersSeeIt
    DrainEnds
