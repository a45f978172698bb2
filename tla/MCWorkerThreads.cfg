SPECIFICATION FairSpec
\* The process ends: main = "cleaned" has no successor.
CHECK_DEADLOCK FALSE
CONSTANTS
    Targets = {w1, w2, w3}
    MaxWorkers = 2
INVARIANTS
    TypeOK
    PermitsSuffice
    SignalsMatchRequests
PROPERTIES
    QueuedExportServed
    WorkerStops
