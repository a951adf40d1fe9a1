CONSTANTS
    kMaxInflight = 1
    Kinds <- PlainAndBad
    Leftovers <- NoLeftovers
    MaxRequests = 2
    FilesShrink = FALSE
SPECIFICATION FairSpec
INVARIANTS
    NoStrandedRequest
    DrainedMeansServed
PROPERTIES
    RequestsAnswered
    HalfCloseEnds
CHECK_DEADLOCK FALSE
