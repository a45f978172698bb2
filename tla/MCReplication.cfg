SPECIFICATION Spec
SYMMETRY Symmetry
ACTION_CONSTRAINTS
    PromptFirst
    HalfFirst
    MisreadLate
\* Every put may be stored and copied, and nothing left to do.
CHECK_DEADLOCK FALSE
CONSTANTS
    k1 = k1
    k2 = k2
    Workers = {w1, w2}
    Puts = {p1, p2}
    Keys <- MCKeys
    Buckets = 2
    BucketOf <- MCBucketOf
    Buffer = 1
    MaxStops = 1
    None = None
INVARIANTS
    TypeOK
    NothingSkipped
    ExportComplete
PROPERTIES
    PeerDataKept
