\* Two writes cut short among five.
CONSTANTS
    MaxSeq = 3
    MaxRecords = 5
    MaxTears = 2
SPECIFICATION Spec
INVARIANTS
    TornTailIsHarmless
    IndexedHasPayload
    ScanNeverInvents
CHECK_DEADLOCK FALSE
