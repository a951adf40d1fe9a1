CONSTANTS
    c1 = c1
    c2 = c2
    None = None
    Conns <- TwoConns
    Settings <- JustOne
    MaxQueue = 1
    MaxSignals = 1
SPECIFICATION Spec
INVARIANTS
    AllClosedAtReturn
CHECK_DEADLOCK FALSE
