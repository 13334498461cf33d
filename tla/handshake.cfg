SPECIFICATION FairSpec
CONSTANTS
    c1 = c1
    c2 = c2
    c3 = c3
    Conn = {c1, c2, c3}
    IdMod = 6
    Faults = {"delay", "reorder"}
    MaxCopies = 0
    NoChunk = NoChunk
    MaxResend = 2
    MaxChunks = 0
    MaxLocalChunks = 0
    Content <- Distinct
    NoClient = NoClient
    Acl <- Mixed
    Address <- Addresses
    NoSocket = {c1}
    MaxHello = 4
INVARIANTS
    DeniedNeverConnected
PROPERTIES
    HandshakeEnds
CHECK_DEADLOCK FALSE
