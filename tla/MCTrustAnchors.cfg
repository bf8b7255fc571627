SPECIFICATION SetSpec
CONSTANTS
    Kids <- MCKids
    Subjects <- MCSubjects
    Slices <- MCSlices
    RoleLists <- MCRoleLists
    Ed25519Keys <- MCEd25519Keys
    ECDSAKeys <- MCECDSAKeys
    MLDSAKeys <- MCMLDSAKeys
    Manifests <- MCManifests
INVARIANTS
    TypeOK
    RegisteredCanVerify
    ConfiguredAsStated
PROPERTIES
    VerdictsStand
CHECK_DEADLOCK FALSE
