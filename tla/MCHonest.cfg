SPECIFICATION HonestSpec
CONSTANTS
    KnownCodes <- MCKnownCodes
    Anchors <- MCAnchors
    Occasions <- MCOccasions
    Inputs <- MCHonestInputs
INVARIANT HonestNeverRefuted
CHECK_DEADLOCK FALSE
