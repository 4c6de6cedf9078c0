SPECIFICATION FairSpec
CONSTANTS
    t1 = t1
    t2 = t2
    t3 = t3
    p1 = p1
    p2 = p2
    NoThread = NoThread
    Threads <- MCThreads
    Processes <- MCProcesses
    ProcessOf <- MCProcessOf
    MaxPolls = 1
    MaxFiles = 2
INVARIANTS
    KeyHasOneOwner
PROPERTIES
    ConfirmedSavesAreSerial
    AcquireReturns
    ImplementsMutex
CHECK_DEADLOCK TRUE
