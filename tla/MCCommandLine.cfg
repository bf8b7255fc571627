SPECIFICATION Spec
CONSTANTS
    CommandLines <- MCCommandLines
    Disk <- MCDisk
    AnchorsOf <- MCAnchorsOf
    Reported <- MCReported
    KnownCodes <- MCKnownCodes
    MaxArgs = 2
INVARIANTS
    TypeOK
    InputAsStated
    SuccessRestsOnEveryFile
CHECK_DEADLOCK FALSE
