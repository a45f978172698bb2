SPECIFICATION FairShutdownSpec
\* The process ends: main = "cleaned" has no successor.
CHECK_DEADLOCK FALSE
CONSTANTS
    clientListener = clientListener
    workerListener = workerListener
    requestDispatcher = requestDispatcher
    responseDispatcher = responseDispatcher
    Pollers <- MCPollers
    Listeners <- MCListeners
    Connections = {c1}
INVARIANTS
    ShutdownTypeOK
    PermitsSuffice
PROPERTIES
    QuitStops
