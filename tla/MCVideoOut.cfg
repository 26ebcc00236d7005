SPECIFICATION FairVideoSpec
CONSTANTS
    Threads <- MCThreads
    t1 = t1
    t2 = t2
    m_maxImages = 1
    Results = {"ERROR", "SUBOPTIMAL"}
    SwapImages = 1
    MayStop = FALSE
    MaxTicket = 3
    WindowsMAX = 2
    Ops = {"flip", "open", "close", "subsystem", "event"}
    MaxCalls = 3
INVARIANTS
    SubmitsBalanced
    PendingNeverOverstated
    FlipsQueuedBounded
    ImagesOwned
PROPERTIES
    SubmitReturns
\* The calls are bounded, and some wait for ever.
CHECK_DEADLOCK FALSE
