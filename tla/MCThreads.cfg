SPECIFICATION FairSpec
CONSTANTS
    c1 = c1
    c2 = c2
    Main = Main
    NoThread = NoThread
    Threads <- MCThreads
    m_countcreatePrograms = 1
    DTV_MAX_KEYS = 4
    MaxCalls = 5
\* The calls are bounded, and undefined behaviour ends the run.
CHECK_DEADLOCK FALSE
INVARIANTS
    NoUseAfterFree
PROPERTIES
    ThreadEnds
    CreateReturnsUnlessLate
