SPECIFICATION FairSpec
CONSTANTS
    c1 = c1
    c2 = c2
    NoClient = NoClient
    Clients <- MCClients
    Movies <- MCMovies
    Stream0 = "v"
    Capacity = 1
    MaxCalls = 6
\* The calls are bounded, and undefined behaviour ends the run.
CHECK_DEADLOCK FALSE
INVARIANTS
    NoFrameLost
    PendingHasFrame
PROPERTIES
    ClientServed
