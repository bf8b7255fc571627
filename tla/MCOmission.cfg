SPECIFICATION PairSpec
CONSTANTS
    KnownCodes <- MCKnownCodes
    Anchors <- MCAnchors
    Inputs <- MCNearInputs
    Withholdings <- MCWithholdings
INVARIANTS
    OmissionOnlyDegrades
CHECK_DEADLOCK FALSE
