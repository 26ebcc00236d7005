SPECIFICATION FairSpec
CONSTANTS
    t1 = t1
    t2 = t2
    t3 = t3
    k1 = k1
    k2 = k2
    Threads <- MCThreads
    Keys <- MCKeys
    Nums = {1, 2}
    MaxTriggers = 2
\* Nothing is left to run once the queue has been deleted.
CHECK_DEADLOCK FALSE
INVARIANTS
    NoLostWakeup
PROPERTIES
    WaiterServed
