\* Two consumers in memory; one message per call, so that the loops turn.
CONSTANTS
    BitsPerWord = 2
    WordsPerBlock = 1
    MaxSeq = 2
    Consumers = {c1, c2}
    Prefetches = {0, 1}
    MaxTag = 4
    Handles = {7}
    MaxPerCall = 1
    MaxPasses = 2
    AckBatches <- MCAckBatches
    NackBatches <- MCNackBatches
    RejectBatches <- MCRejectBatches
    Durable = FALSE
    c1 = c1
    c2 = c2
SPECIFICATION ShardSpec
SYMMETRY Symmetry
INVARIANTS
    WorkConserving
    RegistriesAgree
    SessionsStayValid
    EventsMatchWindows
    NackMaskSettlesItsBits
