SPECIFICATION Spec
CONSTANTS
    Library = {"a", "b", "vdso"}
    Skipped = {"vdso"}
    Base = {1, 4}
    HeadersOf <- MCHeaders
    Symbols <- MCSymbols
    NoString = ""
    Stack <- MCStack
    Elsewhere = {2}
    MaxMoves = 3
    MaxListings = 2
    MaxCaptures = 2
    MaxSnapshots = 1
INVARIANTS
    FramesFilled
    StringsKnown
    SymbolsRight
PROPERTY
    ListedIsResolved
CHECK_DEADLOCK FALSE
