CONSTANTS
    loop = loop
    main = main
    io = io
    f1 = f1
    f2 = f2
    Threads <- ThreeThreads
    Runner = loop
    None = None
    ThreadId = loop
    Functors <- TwoFunctors
    Quitters <- MainAndLoopQuit
SPECIFICATION FairSpec
INVARIANTS
    TypeOK
    NoLostWakeup
    NoLostQuit
PROPERTIES
    ImplementsExecutor
    FunctorsServed
    QuitEndsLoop
CHECK_DEADLOCK FALSE
