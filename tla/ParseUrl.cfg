\* All methods, URL lengths around the chunk boundaries and the buffer's end.
SPECIFICATION Spec
CONSTANTS
    UrlLen <- MCUrlLen
    Rest <- MCRest
CHECK_DEADLOCK FALSE
INVARIANTS
    TypeOK
    OnlyUrlBytes
    NoHole
    ShortUrlExact
