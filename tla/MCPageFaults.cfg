SPECIFICATION Spec
CONSTANTS
    t1 = t1
    t2 = t2
    p1 = p1
    p2 = p2
    Thread <- MCThread
    Page <- MCPage
    Ranges <- MCRanges
    PipeSize = 1
    MaxCalls = 3
SYMMETRY Symmetry
INVARIANTS
    NoMissedPage
    NoFalsePage
    WritableIsRegistered
    MappingsAgree
    GivesUpOnlyIfPulled
CHECK_DEADLOCK FALSE
