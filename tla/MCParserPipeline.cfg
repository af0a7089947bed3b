SPECIFICATION FairSpec
CONSTANTS
    p1 = p1
    s1 = s1
    s2 = s2
    a1 = a1
    a2 = a2
    a3 = a3
    Block <- MCBlock
    Stack <- MCStack
    Address <- MCAddress
    Frames <- MCFrames
    Mapped <- MCMapped
    MaxEventCount = 3
    Threshold = 2
INVARIANTS
    PacketsInOrder
    AddressesInOrder
    WrittenOnce
    SnapshotsComplete
    ResolvedBeforeFinal
PROPERTIES
    ImplementsSink
    EveryPacketParsed
    CleanupReturns
