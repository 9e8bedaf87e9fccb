\* One connection: lost, late, repeated and reordered packets, a clock, and a
\* duration field of one bit.
SPECIFICATION Spec
CONSTANTS
    cl1 = cl1
    cl2 = cl2
    srv = srv
    CPU = {p1}
    Sock <- MCSock
    SockIp <- MCSockIp
    Conn <- MCOneConn
    Elem = {e1, e2}
    None = None
    MAX_MAP_CONN = 1
    RING_CAP = 1
    DurationMod = 2
    MaxReq = 2
    MaxPackets = 4
    MaxTime = 2
    Serial = TRUE
    Abandons = TRUE
SYMMETRY MCSymmetry
INVARIANTS
    TypeOK
    MatchedPairs
    ReportedOnce
    DurationIsDifference
    PendingIsLatest
    NoSilentLoss
PROPERTIES
    PairsInOneStep
