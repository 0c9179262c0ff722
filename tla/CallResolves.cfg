CONSTANTS
    c1 = c1
    c2 = c2
    t3 = t3
    t4 = t4
    c3 = c3
    b1 = b1
    Calls = {c1, c2, c3}
    Boxes = {b1}
    Tasks = {t1, t2, t3, t4}
    Timers = {m1}
    Sessions <- MCSessions
    Closers <- MCSessions
    CallOf <- MCCallOf
    BoxOf <- MCBoxOf
    MaxMessages = 1
    Faults = FALSE
    NoSession = NoSession
    NoTimer = NoTimer
    Registered = {c1}
    HasBox = {c1, c2}
    CalleeFinals = {"ok", "err"}
    MaxInvites = 1
SPECIFICATION CallSpec
CHECK_DEADLOCK FALSE
PROPERTIES
    ImplementsDelivery
    
