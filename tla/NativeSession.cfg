\* Frames without a body and with one, good or not; two consumers.
CONSTANTS
    BodyLens = {0, 1}
    BadLens = {1}
    MaxFrames = 3
    HeaderLen = 2
    TrailerLen = 0
    MaxId = 2
    MaxTag = 2
    MaxU64 = 3
    Prefetches = {0, 1}
    OpBatches <- Batches
SPECIFICATION Spec
INVARIANTS
    FramesInOrder
    NoFrameWaits
    WindowTold
    ConsumerOkIsTrue
CHECK_DEADLOCK FALSE
