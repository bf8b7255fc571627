SPECIFICATION FairSpec
CONSTANTS
    Chains <- MCChains
    Operations <- MCOperations
    Contexts <- MCContexts
INVARIANTS
    TypeOK
    LeafOperationsNarrow
    LeafLimitsNarrow
    LeafConstraintsNarrow
    AcceptedChainIsPath
    FirstFaultReported
PROPERTY AlwaysDecides
CHECK_DEADLOCK FALSE
