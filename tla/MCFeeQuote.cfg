SPECIFICATION QuoteSpec
CONSTANTS
    Caller = {c1, c2}
    Volume = {0, 1}
    Rate = {10, 20}
    DefaultMin = 1
    MaxChanges = 2
    Clients = {"ledger", "others"}
CONSTRAINT Bounded
INVARIANTS
    SearchIsQuery
    QuotingIsBounded
PROPERTIES
    CacheConverges
    OldRatesDieOut
CHECK_DEADLOCK FALSE
