SPECIFICATION Spec
CONSTANTS
    MaxAddr = 4
    MaxItems = 3
    Mappings <- MCMappings
INVARIANTS
    Sorted
    ReturnsExact
PROPERTY
    ImplementsPageMap
