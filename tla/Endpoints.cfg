\* Shared endpoints, broken watches, crashes.
SPECIFICATION Spec
CONSTANTS
    sa = sa
    sb = sb
    i1 = i1
    i2 = i2
    p1 = p1
    p2 = p2
    p3 = p3
    Service <- MCService
    Ip <- MCIp
    IpOf <- MCIpOf
    Port <- MCPort
    Pod <- MCPod
    None = None
    Absent = Absent
    Objects <- MCMoving
    MaxChange = 2
    MaxRelist = 1
    MaxCrash = 1
CHECK_DEADLOCK FALSE
INVARIANTS
    TypeOK
    NoStaleProvider
    AgreedWhenQuiescent
PROPERTIES
    Converges
