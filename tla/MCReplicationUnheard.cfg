SPECIFICATION FairSpec
CHECK_DEADLOCK FALSE
CONSTANTS
    k1 = k1
    Workers = {w1, w2, w3}
    Puts = {p1}
    Keys <- MCKeys
    Buckets = 1
    BucketOf <- MCBucketOf
    Buffer = 1
    MaxStops = 0
    None = None
ACTION_CONSTRAINTS
    Narrowed
    PutLast
PROPERTY PeersHeard
