SPECIFICATION FairSpec
CONSTANTS
    g1 = g1
    g2 = g2
    t1 = t1
    t2 = t2
    Caller = {g1, g2}
    Transport = {t1, t2}
    NoToken = NoToken
    Free = Free
    NoCache = NoCache
    Unreadable = Unreadable
    Lifetime = 1
    MaxTime = 2
    MaxGranted <- Grants
    Sharing <- All
INVARIANTS
    TypeOK
    NoNeedlessRefresh
    RefreshTokenSaved
    NeverPanics
PROPERTIES
    BearerSpec
    CallsReturn
CHECK_DEADLOCK FALSE
