SPECIFICATION Spec
CONSTANTS
    t1 = t1
    t2 = t2
    t3 = t3
    NoThread = NoThread
    Threads <- MCThreads
    MaxCalls = 5
SYMMETRY MCSymmetry
\* The calls are bounded.
CHECK_DEADLOCK FALSE
INVARIANTS
    HeldAsTold
    RwHeldAsTold
    OnceRunsOnce
    NoLostBroadcast
