\* Two consumers of one queue, each limited to two messages or unlimited.
CONSTANTS
    BitsPerWord = 3
    WordsPerBlock = 1
    MaxSeq = 3
    Consumers = {c1, c2}
    Prefetches = {0, 2}
    MaxTag = 3
    c1 = c1
    c2 = c2
SPECIFICATION SSpec
SYMMETRY Symmetry
INVARIANTS
    CreditMatchesWindow
    QueueStaysValid
    WindowsPartitionInflight
PROPERTY ImplementsLedger
