SPECIFICATION TxSpec
CONSTANTS
    alice = alice
    bob = bob
    fees = fees
    bid1 = bid1
    bid2 = bid2
    ask1 = ask1
    ask2 = ask2
    t1 = t1
    t2 = t2
    e1 = e1
    e2 = e2
    reserve1 = reserve1
    reserve1Again = reserve1Again
    reserve2 = reserve2
    reserve3 = reserve3
    reserve4 = reserve4
    settle1 = settle1
    settle1Twice = settle1Twice
    settle1Again = settle1Again
    settle2 = settle2
    release1 = release1
    Base = Base
    Quote = Quote
    NilOrder = NilOrder
    FeeAccount = fees
    Account <- MCAccount
    Order <- MCOrder
    Trade <- MCTrade
    Event <- MCEvent
    Opening <- MCOpening
    ReserveRequests <- MCReserveRequests
    Settlements <- MCSettlements
    FeeAmounts = {0, 1}
    Call <- MCCall
    Tx <- MCTx
    Batches <- MCBatches
INVARIANTS
    NoDeadlock
PROPERTIES
    Serializable
CHECK_DEADLOCK FALSE
