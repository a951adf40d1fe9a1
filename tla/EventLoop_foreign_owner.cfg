CONSTANTS
    loop = loop
    main = main
    io = io
    f1 = f1
    f2 = f2
    Threads <- ThreeThreads
    Runner = loop
    None = None
    ThreadId = main
    Functors <- TwoFunctors
    Quitters <- NoQuitter
SPECIFICATION Spec
INVARIANTS
    NoLostWakeup
