\* A native and an AMQP connection, the second with two consumers.
CONSTANTS
    BitsPerWord = 2
    WordsPerBlock = 1
    MaxSeq = 2
    Consumers = {c1, c2, c3}
    Prefetches = {1}
    MaxTag = 2
    Handles = {}
    MaxPerCall = 1
    MaxPasses = 2
    AckBatches <- MCAckBatches
    NackBatches = {}
    RejectBatches = {}
    Durable = FALSE
    Connections = {a, b}
    Amqp = {b}
    IdsOf <- MCIdsOf
    a = a
    b = b
    c1 = c1
    c2 = c2
    c3 = c3
SPECIFICATION FairServiceSpec
INVARIANTS
    DeliveredOnce
    
    
PROPERTY
    DeliveryArrives
CHECK_DEADLOCK FALSE
