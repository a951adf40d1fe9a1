CONSTANTS
    kMaxInflight = 2
    Kinds <- Plain
    Leftovers <- NoLeftovers
    MaxRequests = 3
    FilesShrink = FALSE
SPECIFICATION Spec
INVARIANTS
    UnansweredBounded
CHECK_DEADLOCK FALSE
