CONSTANTS
    m = m
    t1 = t1
    t2 = t2
    t3 = t3
    Threads <- MCThreads4
    Main = m
    MaxThreadPool = 3
    MaxDetached = 0
    MaxQueue = 2
    MaxSubmits = 1
    InitialEvents <- MCInitialMixed
    NewThreadBootstrap = TRUE
    ContextSwitch = TRUE
    NONE = NONE
SPECIFICATION Spec
INVARIANT ThreadsWithinPool
CHECK_DEADLOCK FALSE
