CONSTANTS
    m = m
    t1 = t1
    t2 = t2
    t3 = t3
    Threads <- MCThreads
    Main = m
    MaxThreadPool = 2
    MaxDetached = 1
    MaxQueue = 2
    MaxSubmits = 1
    InitialEvents <- MCInitialMixed
    NewThreadBootstrap = TRUE
    ContextSwitch = TRUE
    NONE = NONE
SPECIFICATION FairSpec
INVARIANTS TypeOK DetachedAccounted NoStall
PROPERTY ShutdownQuiesces WaitToRunReturns
CHECK_DEADLOCK FALSE
