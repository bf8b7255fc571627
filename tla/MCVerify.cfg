SPECIFICATION FairSpec
CONSTANTS
    KnownCodes <- MCKnownCodes
    Anchors <- MCAnchors
    Inputs <- MCInputSet
INVARIANTS
    TypeOK
    NothingGoesMissing
    WithinTheCatalogue
    VouchedPermitIsAuthorised
    CommitmentNarrowsItsMAT
PROPERTIES
    ImplementsVerdict
    AlwaysReturns
CHECK_DEADLOCK FALSE
