SPECIFICATION Spec
CONSTANTS
    order = order
    retry = retry
    other = other
    key1 = key1
    key2 = key2
    del1 = del1
    del2 = del2
    Request <- MCRequest
    Client <- MCClient
    Quantity <- MCQuantity
    Delete <- MCDelete
    Targets <- MCTargets
    Excess = 1
    MaxFaults = 1
INVARIANTS
    OneOrderPerKey
    OpenIsFunded
    AppliedOnce
    NoLeak
PROPERTIES
    TerminalStays
    FundsFreed
CHECK_DEADLOCK FALSE
