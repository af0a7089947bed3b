SPECIFICATION LiveSpec
CONSTANTS
    t1 = t1
    t2 = t2
    p1 = p1
    p2 = p2
    Thread <- MCThread
    Page <- MCPage
    Ranges <- MCNested
    PipeSize = 1
    MaxCalls = 2
PROPERTY
    FaultsAreAnswered
CHECK_DEADLOCK FALSE
