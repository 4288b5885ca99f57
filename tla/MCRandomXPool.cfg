SPECIFICATION FairSpec
CONSTANTS
    t1 = t1
    t2 = t2
    t3 = t3
    t4 = t4
    Threads = {t1, t2, t3, t4}
    priority <- MCPriority
    Keys = {k1, k2}
    Null = Null
    m_max_contexts = 2
    MaxRequests = 4
CHECK_DEADLOCK FALSE
INVARIANTS
    ExclusiveUse
    NeverWrongKey
    WaitingExact
PROPERTIES
    AcquireReturns
