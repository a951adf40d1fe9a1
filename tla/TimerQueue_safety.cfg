CONSTANTS
    Kinds <- TwoKinds
    PerTick = 2
    MaxTimers = 6
    MaxTime = 2
SPECIFICATION FairSpec
INVARIANTS
    TypeOK
    HeapOrdered
    IndexExact
    FrontArmed
PROPERTIES
    DueTimersRun
    ImplementsTimerService
CHECK_DEADLOCK FALSE
