SPECIFICATION Spec
CONSTANTS
    ann = ann
    bea = bea
    ask1 = ask1
    ask2 = ask2
    ask3 = ask3
    ask4 = ask4
    bid1 = bid1
    bid2 = bid2
    fok = fok
    ioc = ioc
    mkt = mkt
    NoAccount = NoAccount
    NoOrder = NoOrder
    Account <- MCAccount
    Order <- MCOrder
    Info <- MCInfo
INVARIANTS
    NotCrossed
PROPERTIES
    PriceTimePriority
    Returns
