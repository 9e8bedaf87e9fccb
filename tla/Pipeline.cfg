\* Two plugins, stages of capacity one, a failure, a stop signal at any time.
SPECIFICATION Spec
CONSTANTS
    Plugin <- MCPlugin
    Fatal <- MCFatal
    Lossy <- MCHttp
    None = None
    MaxEvent <- MCMaxEvent
    RING_CAP = 1
    CHAN_CAP = 1
    MaxFail = 2
CHECK_DEADLOCK FALSE
INVARIANTS
    TypeOK
    NothingLost
    InOrder
    BoundedDuplicates
PROPERTIES
    EventuallyStored
    SignalStops
