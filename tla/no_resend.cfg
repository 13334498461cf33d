SPECIFICATION Spec
CONSTANTS
    c1 = c1
    c2 = c2
    c3 = c3
    Conn = {c1}
    IdMod = 4
    Faults = {"loss"}
    MaxCopies = 0
    NoChunk = NoChunk
    MaxResend = 2
    MaxChunks = 2
    MaxLocalChunks = 2
    Content <- Distinct
    NoClient = NoClient
    Acl <- NoList
    Address <- Addresses
    NoSocket = {}
    MaxHello = 3
PROPERTIES
    TimeoutResends
CHECK_DEADLOCK FALSE
