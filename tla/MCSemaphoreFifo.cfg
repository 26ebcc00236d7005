SPECIFICATION FairSpec
CONSTANTS
    t1 = t1
    t2 = t2
    t3 = t3
    Null = Null
    Threads <- MCThreads3
    InitCounts = {0}
    Needs = {1, 2}
    Signals = {1, 2}
    CancelCounts = {}
    Timed <- MCUntimed
    Destroyers = {}
    m_maxCount = 3
    MaxValue = 2
    MaxWaiters = 4
\* All threads may end up waiting, and a deleted semaphore is not used again.
CHECK_DEADLOCK FALSE
INVARIANTS
    HeadIsWoken
PROPERTIES
    Refines
