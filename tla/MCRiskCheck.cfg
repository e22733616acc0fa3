SPECIFICATION Spec
CONSTANTS
    Caller = {c1, c2}
    Market = {btc}
    Threshold = 2
    Cooldown = 2
PROPERTIES
    BreakerRecovers
    ClosedMarketIsDenied
