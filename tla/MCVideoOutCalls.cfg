SPECIFICATION FairVideoSpec
CONSTANTS
    Threads <- MCThreads
    t1 = t1
    t2 = t2
    m_maxImages = 1
    Results = {}
    SwapImages = 2
    MayStop = FALSE
    MaxTicket = 3
    WindowsMAX = 2
    Ops = {"open", "close", "subsystem"}
    MaxCalls = 3
PROPERTIES
    CallsReturn
\* The calls are bounded, and some wait for ever.
CHECK_DEADLOCK FALSE
