CONSTANTS
    Junk = Junk
    kPrependSize = 2
    ExtraSize = 3
    Size <- TheSize
    LengthOf <- TheLengths
    MaxHeaderLine = 4
    MaxHeaderBytes = 5
    MaxBodyBytes = 4
    MaxInflight = 1
    Scripts <- TheScripts
SPECIFICATION Spec
INVARIANTS
    TypeOK
    BufferHolds
    SameRequests
    ContinueExact
CHECK_DEADLOCK FALSE
