SPECIFICATION FairSpec
CONSTANTS
    t1 = t1
    t2 = t2
    t3 = t3
    a = a
    b = b
    NoThread = NoThread
    Threads <- MCThreads
    Names <- MCNames
    OpenFlags <- MCOpenFlags
    Calls <- MCCalls
    Others <- MCOthers
    MaxHandle = 4
    MaxItems = 2
    MaxCalls = 4
\* The calls are bounded, and undefined behaviour ends the run.
CHECK_DEADLOCK FALSE
INVARIANTS
    UsesItsFile
    SecondExclTruncates
PROPERTIES
    FileCallsReturn
