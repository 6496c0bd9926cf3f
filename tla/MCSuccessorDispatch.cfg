CONSTANTS
    S = S
    I = I
    T = T
    Y = Y
    Z = Z
    E = E
    o1 = o1
    o2 = o2
    g1 = g1
    g2 = g2
    d1 = d1
    d2 = d2
    Pools = {g2}
    PoolInit <- MCPoolInitA
    Pooled = {1, 2, 3}
    NONE = NONE
    NoNode = NoNode
    Nodes <- MCNodesA
    SourceSeq <- MCSourceSeqA
    Outputs = {o1, o2}
    Guards = {g1, g2}
    SuccList <- MCSuccListA
    ErrorHandler <- MCErrorHandlerA
    GuardRefs <- MCGuardRefsA
    Magic <- MCMagic
    MaxEvents = 5
    MaxSplay = 2
    ErrCode = 7
    Lifo = FALSE
SPECIFICATION Spec
INVARIANTS
    TypeOK
    InputOwnedWhileLive
    
    PoolResourceConserved
    PoolIdleOnlyWithoutWaiters
    NoStall
    SourceSustained
    DispatchMatchesCases
