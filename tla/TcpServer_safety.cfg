CONSTANTS
    c1 = c1
    c2 = c2
    None = None
    Conns <- TwoConns
    Settings <- AllSettings
    MaxQueue = 1
    MaxSignals = 2
SPECIFICATION Spec
SYMMETRY AnyOrder
INVARIANTS
    TypeOK
    CountsAgree
    LoopsOutliveCallers
    DrainOwesNothing
    BacklogHasEdge
    TeardownCanEnd
CHECK_DEADLOCK FALSE
