SPECIFICATION FairSpec
CONSTANTS
    t1 = t1
    t2 = t2
    t3 = t3
    Threads <- MCThreads
    m_maxImages = 2
    Results = {"SUBOPTIMAL", "OUT_OF_DATE", "ERROR", "TIMEOUT"}
    SwapImages = 2
    MayStop = TRUE
    MaxTicket = 4
INVARIANTS
    TypeOK
    OneInFlight
    NoTicketLost
    StopStrandsOneAtMost
PROPERTIES
    InTicketOrder
    RequestReturns
\* Leaked images and a missed stop() leave threads asleep.
CHECK_DEADLOCK FALSE
