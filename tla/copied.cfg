SPECIFICATION Spec
CONSTANTS
    c1 = c1
    c2 = c2
    c3 = c3
    Conn = {c1, c2}
    IdMod = 4
    Faults = {"reorder"}
    MaxCopies = 1
    NoChunk = NoChunk
    MaxResend = 1
    MaxChunks = 0
    MaxLocalChunks = 0
    Content <- Distinct
    NoClient = NoClient
    Acl <- NoList
    Address <- Addresses
    NoSocket = {}
    MaxHello = 4
SYMMETRY Interchangeable
INVARIANTS
    OnlyOwnMessages
    NoneLeaked
CHECK_DEADLOCK FALSE
