CONSTANTS
    SipSurfaces = {"register", "invite"}
    ApiSurfaces = {"login"}
    Users = {u1}
    NoUser = NoUser
    Tasks = {t1, t2}
    Window = 1
    IpThreshold = 3
    UserThreshold = 2
    BlockSecs = 2
    PersistBans = TRUE
    BanPriority = 2
    Priorities = {1}
    DefaultAllow = TRUE
    MaxTime = 3
    MaxRequests = 3
    MaxAdmin = 1
    MaxFaults = 1
SPECIFICATION Spec
INVARIANTS
    BlockMatchesLog
    BlockHasRule

    
CHECK_DEADLOCK FALSE
