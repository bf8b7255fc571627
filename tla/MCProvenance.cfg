SPECIFICATION FairSpec
CONSTANTS
    Presentations <- MCPresentations
INVARIANTS
    TypeOK
    CyclesAreCountedOut
PROPERTIES
    ImplementsPath
    AlwaysDecides
CHECK_DEADLOCK FALSE
