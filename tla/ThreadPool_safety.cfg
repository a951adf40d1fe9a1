CONSTANTS
    c1 = c1
    c2 = c2
    c3 = c3
    c4 = c4
    Calls <- FourCalls
    PoolSizes <- NoneToTwo
    maxQueueSize = 2
    SizeModulus = 8
SPECIFICATION FairSpec
INVARIANTS
    TypeOK
    CounterExact
    BoundRespected
PROPERTIES
    AcceptedFinish
    StopEnds
CHECK_DEADLOCK FALSE
