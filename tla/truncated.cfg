SPECIFICATION Spec
CONSTANTS
    r1 = r1
    r2 = r2
    Request = {r1}
    NoCode = NoCode
    NoMedia = NoMedia
    SniffLen = 2
    MaxSize = 2
    Calls <- MediaCalls
INVARIANTS
    ErrorsKept
CHECK_DEADLOCK FALSE
