SPECIFICATION ExchangeSpec
CONSTANTS
    ann = ann
    bea = bea
    fees = fees
    ask = ask
    bid = bid
    bid2 = bid2
    NoAccount = fees
    Base = Base
    Quote = Quote
    NilOrder = NilOrder
    FeeAccount = fees
    Account <- MCAccount
    Order <- MCOrder
    Info <- MCInfo
    Trade <- MCTrade
    Event <- MCTrade
    Opening <- MCOpening
    ReserveRequests = {}
    Settlements = {}
    FeeAmounts = {0}
    Deletes <- MCDeletes
INVARIANTS
    Reconciled
    BookAgreesWithTable
    UnpaidWasReleased
PROPERTIES
    ComesToRest
CHECK_DEADLOCK FALSE
