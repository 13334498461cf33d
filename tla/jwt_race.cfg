SPECIFICATION Spec
CONSTANTS
    g1 = g1
    g2 = g2
    t1 = t1
    t2 = t2
    Caller = {g1, g2}
    Transport = {t1}
    NoToken = NoToken
    Free = Free
    NoCache = NoCache
    Unreadable = Unreadable
    Lifetime = 1
    MaxTime = 2
    MaxGranted <- Grants
    Sharing <- JwtOnly
INVARIANTS
    JwtReady
CHECK_DEADLOCK FALSE
