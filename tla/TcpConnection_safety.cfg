CONSTANTS
    kMaxInflight = 2
    Kinds <- AllKinds
    Leftovers <- AllLeftovers
    MaxRequests = 2
    FilesShrink = TRUE
SPECIFICATION Spec
INVARIANTS
    TypeOK
    RequestsAccounted
    BlockedOutputHasWaker
    EventsOutliveClose
    HalfCloseKeepsAnswers
PROPERTIES
    ImplementsPipeline
CHECK_DEADLOCK FALSE
