SPECIFICATION FairSpec
CONSTANTS
    Anchors <- MCAnchors
    KnownCodes <- MCKnownCodes
    Kid = "ke"
    Headers = {"h1", "h2"}
    MaxIssued = 3
    MaxChanges = 2
INVARIANTS
    TypeOK
    StretchOfTheChain
    SettlesSpeculation
    RefusedForCause
PROPERTY
    WalkCatchesUp
CHECK_DEADLOCK FALSE
