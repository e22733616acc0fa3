SPECIFICATION SettlementSpec
CONSTANTS
    alice = alice
    bob = bob
    fees = fees
    t1 = t1
    t2 = t2
    t3 = t3
    btc = btc
    eth = eth
    Account <- MCAccount
    Trade <- MCTrade
    Accounts <- MCAccounts
    Partition <- MCPartition
    Log <- MCLog
    MaxEvents = 2
INVARIANTS
    UpdateIncludesTrade
PROPERTY
    SettledIsPublished
CHECK_DEADLOCK FALSE
