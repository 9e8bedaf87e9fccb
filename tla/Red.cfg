\* Pods of one name in two name spaces, two windows of traffic.
SPECIFICATION Spec
CONSTANTS
    Pod <- MCPod
    None = None
    Durations <- MCDurations
    MaxReq = 3
INVARIANTS
    TypeOK
    CountsConserved
    DurationWithinMs
PROPERTIES
    ReportedEventually
