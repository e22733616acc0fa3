SPECIFICATION ServiceSpec
CONSTANTS
    Programs = {"ledger", "orderingest", "matching", "risk", "fee", "auth", "user", "template"}
    N = 2
    Poison <- MCPoison
    MaxAttempts = 2
    MaxFaults = 100
    MaxInjected = 3
INVARIANTS
    ConsumesWithResources
    NoneUnseen
PROPERTIES
    ShutdownEnds
    OnlyFailuresLag
CHECK_DEADLOCK FALSE
