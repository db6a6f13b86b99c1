SPECIFICATION Spec
CONSTANTS
    Ssids = {home, long}
    LongSsids = {long}
    Passwords = {p1, p2}
    NoValue = NoValue
    sta_max_retry = 2
    MaxEvents = 2
INVARIANTS
    TypeOK
    QuietMeansAgreed
    PromiseKept
    NobodyStuck
PROPERTIES
    StatusSettles
    WorkRunsOut
