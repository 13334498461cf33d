SPECIFICATION Spec
CONSTANTS
    c1 = c1
    c2 = c2
    c3 = c3
    Conn = {c1, c2}
    IdMod = 3
    Faults = {"reorder"}
    MaxCopies = 0
    NoChunk = NoChunk
    MaxResend = 1
    MaxChunks = 3
    MaxLocalChunks = 1
    Content <- Distinct
    NoClient = NoClient
    Acl <- NoList
    Address <- Addresses
    NoSocket = {}
    MaxHello = 3
SYMMETRY Interchangeable
INVARIANTS
    Isolation
    LocalStream
CHECK_DEADLOCK FALSE
