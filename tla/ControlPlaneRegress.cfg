CONSTANTS
    Project = {p1}
    Key = {k1}
    Body = {b1, b2}
    NoKey = NoKey
    Handler = {h1, h2}
    Backend = "postgres"
    MaxRetries = 1
    MaxRequests = 6
    Requests <- SnapshotRequests
SYMMETRY Symmetry
SPECIFICATION Spec
INVARIANTS
    SnapshotsNeverRegress
