SPECIFICATION Spec
CONSTANTS
    Request = {r1, r2, r3, r4}
    Address = {ip}
    User = {ann, bea}
    Token = {t1, t2, t3, t4}
    NoToken = NoToken
    Limit = 1
    Window = 2
    RefreshTTL = 1
    MaxStale = 1
    MaxTime = 3
    MaxFaults = 1
    Limiters = {"memory", "redis"}
SYMMETRY Symmetry
INVARIANTS
    OneLivePerSession
    AtMostTwiceTheLimit
PROPERTIES
    EndedStaysEnded
CHECK_DEADLOCK FALSE
