SPECIFICATION Spec
CONSTANTS
    BufferSize = 5
    Sizes <- MCSizes
    MaxBytes = 14
    MaxOutput = 11
INVARIANTS
    BytesInOrder
    ClosedComplete
CHECK_DEADLOCK FALSE
