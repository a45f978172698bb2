SPECIFICATION FairSpec
\* Every request may be settled and every worker gone.
CHECK_DEADLOCK FALSE
CONSTANTS
    Requests = {r1, r2}
    Workers = {w1, w2, w3}
    QueueCapacity = 2
    ResponseCapacity = 1
    None = None
ACTION_CONSTRAINT
    JoinInOrder
INVARIANTS
    TypeOK
    EachRequestOnce
    LossExplained
PROPERTIES
    AcceptedSettled
