SPECIFICATION Spec
CONSTANTS
    ann = ann
    bea = bea
    ask = ask
    ask2 = ask2
    bid = bid
    NoAccount = NoAccount
    Account <- MCAccount
    Order <- MCOrder
    Info <- MCInfo
    DedupMax = 1
    OrderDedupMax = 2
    MaxLag = 2
    Budgets <- SafetyBudgets
INVARIANTS
    MatchedOnce
    BookAgreesWithTape
    NoGaps
PROPERTIES
    NeverReturns
CHECK_DEADLOCK FALSE
