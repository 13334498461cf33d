SPECIFICATION FairSpec
CONSTANTS
    c1 = c1
    c2 = c2
    c3 = c3
    Conn = {c1}
    IdMod = 3
    Faults = {"loss", "delay"}
    MaxCopies = 0
    NoChunk = NoChunk
    MaxResend = 2
    MaxChunks = 3
    MaxLocalChunks = 3
    Content <- Distinct
    NoClient = NoClient
    Acl <- NoList
    Address <- Addresses
    NoSocket = {}
    MaxHello = 2
INVARIANTS
    Quiescent
    RemoteStream
    InFlightHead
    AckedIsWritten
PROPERTIES
    InFlightEnds
    PipeSpec
CHECK_DEADLOCK FALSE
