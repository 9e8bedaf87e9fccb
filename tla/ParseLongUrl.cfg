\* URLs that take more than one chunk.
SPECIFICATION Spec
CONSTANTS
    UrlLen <- MCUrlLen
    Rest <- MCLongRest
CHECK_DEADLOCK FALSE
INVARIANTS
    UrlExact
