\* Two pods of one name, a pid used twice, one event in all, a broken watch and
\* a crash.
SPECIFICATION Spec
CONSTANTS
    u1 = u1
    u2 = u2
    Name = {n1}
    Uid <- MCUid
    Absent = Absent
    NoPod = NoPod
    Pid = {p1}
    Burstable <- MCBurstable
    RING_CAP = 1
    MaxChange = 3
    MaxRelist = 1
    MaxProc = 2
    MaxEvent = 1
    MaxCrash = 1
CHECK_DEADLOCK FALSE
INVARIANTS
    TypeOK
    CoveredWhenQuiescent
    GoneOnlyIfReplaced
    OomNamesVictim
PROPERTIES
    PodsConverge
    EventReported
