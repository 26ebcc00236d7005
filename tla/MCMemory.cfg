SPECIFICATION FairSpec
CONSTANTS
    t1 = t1
    t2 = t2
    NoThread = NoThread
    Threads <- MCThreads
    Pages <- MCPages
    DevicePages <- MCDevicePages
    Lens = {1, 2}
    Prots = {1, 2}
    m_configuresSize = 3
    MaxCalls = 4
\* The calls are bounded, and undefined behaviour ends the run.
CHECK_DEADLOCK FALSE
INVARIANTS
    MappingsApart
    SizesCounted
PROPERTIES
    UsesDirectMemory
    CallReturns
