SPECIFICATION Spec
CONSTANTS
    Manifests <- MCManifests
    Disk <- MCDisk
    Anchors <- MCAnchors
    KnownCodes <- MCKnownCodes
    Reported <- MCReported
INVARIANTS
    TypeOK
    PinnedIsCovered
    PassesRestOnArtifacts
    ReachedByArtifacts
CHECK_DEADLOCK FALSE
