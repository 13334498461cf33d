SPECIFICATION FairSpec
CONSTANTS
    r1 = r1
    r2 = r2
    Request = {r1, r2}
    NoCode = NoCode
    NoMedia = NoMedia
    SniffLen = 2
    MaxSize = 3
    Calls <- AllCalls
INVARIANTS
    TypeOK
    ExpandsAsRfc
    WholeMedia
    LengthsAgree
PROPERTIES
    LoginEnds
    WriterEnds
CHECK_DEADLOCK FALSE
