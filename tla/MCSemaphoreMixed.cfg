SPECIFICATION Spec
CONSTANTS
    t1 = t1
    t2 = t2
    t3 = t3
    Null = Null
    Threads <- MCThreads2
    InitCounts = {0, 1}
    Needs = {1, 2}
    Signals = {1, 2}
    CancelCounts = {1, 2}
    Timed <- MCTimed
    Destroyers = {t1}
    m_maxCount = 3
    MaxValue = 2
    MaxWaiters = 3
\* All threads may end up waiting, and a deleted semaphore is not used again.
CHECK_DEADLOCK FALSE
INVARIANTS
    NoOverdraw

    
