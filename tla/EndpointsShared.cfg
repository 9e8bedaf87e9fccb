\* One pod behind two services.
SPECIFICATION Spec
CONSTANTS
    sa = sa
    sb = sb
    i1 = i1
    i2 = i2
    p1 = p1
    p2 = p2
    p3 = p3
    Service <- MCService
    Ip <- MCIp
    IpOf <- MCIpOf
    Port <- MCPort
    Pod <- MCPod
    None = None
    Absent = Absent
    Objects <- MCShared
    MaxChange = 1
    MaxRelist = 0
    MaxCrash = 0
CHECK_DEADLOCK FALSE
INVARIANTS
    MatchedWhenQuiescent
