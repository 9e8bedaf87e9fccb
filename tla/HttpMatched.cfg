\* Clients that wait for every response, connections that retransmit, and CPUs that
\* filter packets of one connection at the same time.
SPECIFICATION Spec
CONSTANTS
    cl1 = cl1
    cl2 = cl2
    srv = srv
    CPU = {p1, p2}
    Sock <- MCSock
    SockIp <- MCSockIp
    Conn <- MCConn
    Elem = {e1, e2}
    None = None
    MAX_MAP_CONN = 1
    RING_CAP = 1
    DurationMod = 2
    MaxReq = 2
    MaxPackets = 4
    MaxTime = 0
    Serial = FALSE
    Abandons = FALSE
SYMMETRY MCSymmetry
INVARIANTS
    AlwaysMatched
