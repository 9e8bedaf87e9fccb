\* Two connections compete for a request_map of one entry.
SPECIFICATION Spec
CONSTANTS
    cl1 = cl1
    cl2 = cl2
    srv = srv
    CPU = {p1, p2}
    Sock <- MCSock
    SockIp <- MCSockIp
    Conn <- MCConn
    Elem = {e1, e2}
    None = None
    MAX_MAP_CONN = 1
    RING_CAP = 1
    DurationMod = 2
    MaxReq = 1
    MaxPackets = 3
    MaxTime = 0
    Serial = TRUE
    Abandons = TRUE
SYMMETRY MCSymmetry
INVARIANTS
    NoSilentLoss
    MapWellFormed
