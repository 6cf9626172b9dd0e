\* One consumer, one restart, any append may fail.
CONSTANTS
    BitsPerWord = 3
    WordsPerBlock = 1
    MaxSeq = 3
    Consumers = {c1}
    Prefetches = {2}
    MaxTag = 3
    Handles = {}
    MaxPerCall = 2
    MaxPasses = 2
    AckBatches <- MCAckBatches
    NackBatches <- MCNackBatches
    RejectBatches <- MCRejectBatches
    Durable = TRUE
    MaxRestarts = 1
    c1 = c1
SPECIFICATION DurableSpec
INVARIANTS
    UnackedSurvives
    DiskCoversQueue
    ConfirmedAckIsFinal
    WorkConserving
