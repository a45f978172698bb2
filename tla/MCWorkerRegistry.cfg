SPECIFICATION Spec
CONSTANTS
    Workers = {w1, w2, w3, w4}
    MaxWorkers = 2
    Dispatcher = Dispatcher
    None = None
SYMMETRY Symmetric
INVARIANTS
    TypeOK
    ListWellFormed
    RemovalsBacked
    StaleNodesExplained
    RegisteredWorkersMeet
    NewcomersSeeded
PROPERTIES
    RoundRobinFair
