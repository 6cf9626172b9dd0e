\* Two-bit words, two words per block: five messages span two blocks.
CONSTANTS
    BitsPerWord = 2
    WordsPerBlock = 2
    MaxSeq = 5
SPECIFICATION Spec
INVARIANTS
    TypeOK
    ValidateInvariants
    Conservation
    RedeliveryIsFlagged
    DeliverLoopAgrees
    RetryLoopsAgree
PROPERTIES
    AckedIsFinal
    ImplementsLifecycle
