SPECIFICATION Spec
CONSTANTS
    Block = {1, 2}
    Size = {1, 2}
    Url = {u1, u2, u3, u4, u5}
    Offset = {0, 3}
    Width = 4
    Skipped = {}
    MaxFrames = 2
    MaxCalls = 3
SYMMETRY Symmetric
INVARIANTS
    WasmBlocksRecorded
    ResolvedInOwnUrl
CHECK_DEADLOCK FALSE
