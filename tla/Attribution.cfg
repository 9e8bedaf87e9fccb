\* Accesses whose records wait while addresses are given to other pods.
SPECIFICATION AttrSpec
CONSTANTS
    sa = sa
    sb = sb
    i1 = i1
    i2 = i2
    p1 = p1
    p2 = p2
    p3 = p3
    Service <- MCService
    Ip <- MCIp
    IpOf <- MCIpOf
    Port <- MCPort
    Pod <- MCPod
    None = None
    Absent = Absent
    Objects <- MCReused
    MaxChange = 2
    MaxRelist = 1
    MaxCrash = 0
    RING_CAP = 1
CHECK_DEADLOCK FALSE
INVARIANTS
    NeverEarlierOwner
    SettledAttributed
