SPECIFICATION Spec
CONSTANTS
    Block = {1}
    Size = {8}
    MaxPage = 1
    PageSize = 4
    MemorySettings <- MCMemory
    SnapshotSettings <- MCSnapshot
    Threshold = 13
    MaxLag = 1
    MaxTime = 5
    MaxRecords = 6
    TimeModulus = 64
    SizeModulus = 256
INVARIANTS
    MemoryIsCurrent
    SnapshotsSpaced
    SnapshotsAddUp
    ListIsPageSet
CHECK_DEADLOCK FALSE
