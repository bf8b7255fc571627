SPECIFICATION Spec
CONSTANTS
    Chains <- MCChains
    Operations <- MCOperations
    Contexts <- MCContexts
INVARIANT AcceptedWindowWithin
CHECK_DEADLOCK FALSE
