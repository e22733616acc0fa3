SPECIFICATION Spec
CONSTANTS
    alice = alice
    bob = bob
    fees = fees
    bid1 = bid1
    bid2 = bid2
    ask = ask
    t1 = t1
    t2 = t2
    e1 = e1
    e2 = e2
    Base = Base
    Quote = Quote
    NilOrder = NilOrder
    FeeAccount = fees
    Account <- MCAccount
    Order <- MCOrder
    Trade <- MCTrade
    Event <- MCEvent
    Opening <- MCOpening
    ReserveRequests <- MCReserveRequests
    Settlements <- MCSettlements
    FeeAmounts = {0, 1}
INVARIANTS
    JournalExplainsBalances
    ProcessedImpliesSettled
PROPERTIES
    SettledExactlyOnce
    LockedBacksReservations
CHECK_DEADLOCK FALSE
