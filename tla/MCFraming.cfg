SPECIFICATION FairSpec
\* Every message may be sent and the connection closed.
CHECK_DEADLOCK FALSE
CONSTANTS
    w1 = w1
    w2 = w2
    m1 = m1
    m2 = m2
    m3 = m3
    Writers <- MCWriters
    Messages <- MCMessages
    WriterOf <- MCWriterOf
    PayloadSize <- MCPayloadSize
    Locks = {l1, l2}
    Capacity = 2
    MaxRetries = 1
    Garbled = Garbled
    MaxKeySize = 2
    MaxValueSize = 2
    MaxTextSize = 2
    MaxErrorSize = 3
    Chars = {1, 255}
    Ids = {1, 258, 16909060}
    Ports = {6000, 6999}
    Stale <- MCStale
INVARIANTS
    TypeOK
    MessagesWhole
PROPERTY MessagesArrive
