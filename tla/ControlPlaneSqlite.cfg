CONSTANTS
    Project = {p1}
    Key = {k1}
    Body = {b1, b2}
    NoKey = NoKey
    Handler = {h1, h2}
    Backend = "sqlite"
    MaxRetries = 1
    MaxRequests = 4
    Requests <- AllRequests
SPECIFICATION FairSpec
INVARIANTS
    SqliteVersionsNeverConflict
PROPERTIES
    RequestsAreAnswered
