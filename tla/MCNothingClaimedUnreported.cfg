SPECIFICATION FairSpec
CONSTANTS
    KnownCodes <- MCKnownCodes
    Anchors <- MCAnchors
    Inputs <- MCNearInputs
INVARIANTS
    NothingClaimedUnreported
CHECK_DEADLOCK FALSE
