\* Two CPUs, backlogs of none, one and two connections.
SPECIFICATION Spec
CONSTANTS
    CPU = {p1, p2}
    Backlogs = {0, 1, 2}
    Pid = {pid}
    None = None
    RING_CAP = 2
    MaxQueue = 6
SYMMETRY MCSymmetry
INVARIANTS
    TypeOK
    WarnedInTime
