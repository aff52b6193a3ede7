CONSTANTS
    a1 = a1
    a2 = a2
    a3 = a3
    MCNoThread = MCNoThread
    NoThread <- MCNoThread
    Threads <- MCThreads
SPECIFICATION Spec
INVARIANT TypeOK
INVARIANT AllocatedOnce
CHECK_DEADLOCK FALSE
PROPERTY EveryTouchReturns
PROPERTY ImplementsOnce
