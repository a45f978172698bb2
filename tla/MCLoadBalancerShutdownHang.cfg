SPECIFICATION FairShutdownSpec
\* The process may end; a main that waits for ever is what QuitStops excludes.
CHECK_DEADLOCK FALSE
CONSTANTS
    clientListener = clientListener
    workerListener = workerListener
    requestDispatcher = requestDispatcher
    responseDispatcher = responseDispatcher
    Pollers <- MCPollers
    Listeners <- MCListeners
    Connections = {c1, c2}
PROPERTIES
    QuitStops
