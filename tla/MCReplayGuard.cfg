SPECIFICATION FairSpec
CONSTANTS
    Anchors <- MCAnchors
    Presentable <- MCPresentable
    Workers = {w1, w2}
    MaxCrashes = 1
INVARIANTS
    TypeOK
    ActsAccountedFor
    RefusedWasActed
PROPERTIES
    ActedIsRecorded
