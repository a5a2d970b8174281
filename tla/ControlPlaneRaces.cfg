CONSTANTS
    Project = {p1}
    Key = {k1}
    Body = {b1, b2}
    NoKey = NoKey
    Handler = {h1, h2}
    Backend = "postgres"
    MaxRetries = 1
    MaxRequests = 5
    Requests <- RacingRequests
SYMMETRY Symmetry
SPECIFICATION Spec
INVARIANTS
    NoOlderThanArrival
PROPERTIES
    HistoryIsImmutable
    AtomicSpec
