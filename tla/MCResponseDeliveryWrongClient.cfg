SPECIFICATION Spec
CONSTANTS
    NumClients = 3
    MaxClients = 2
    MaxRequests = 1
    QueueCapacity = 2
    None = None
INVARIANTS
    ResponseToItsClient
