SPECIFICATION LiveSpec
CONSTANTS
    t1 = t1
    t2 = t2
    s1 = s1
    s2 = s2
    none = none
    Thread <- Threads
    Slot <- Slots
    NoThread = none
    MaxFaults = 2
    MaxOutsiders = 1
INVARIANTS
    StackOfThisFault
    HandlerFindsSlot
    SlotsGivenBack
PROPERTY
    CaptureEnds
CHECK_DEADLOCK FALSE
