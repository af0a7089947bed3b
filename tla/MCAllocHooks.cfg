SPECIFICATION Spec
CONSTANTS
    t1 = t1
    t2 = t2
    b1 = b1
    b2 = b2
    l1 = l1
    Thread <- MCThread
    Block <- MCBlock
    Size = {1, 2}
    Library <- MCLibrary
    PipeSize = 1
    MaxCalls = 3
SYMMETRY Symmetry
CONSTRAINT MCBound
INVARIANTS
    NoFalseLeak
    LiveBlocksRecorded
    TotalCoversRecorded
    ModulesListed
