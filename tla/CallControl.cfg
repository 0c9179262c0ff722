CONSTANTS
    c1 = c1
    b1 = b1
    Calls = {c1}
    Boxes = {b1}
    Tasks = {t1, t2, t3}
    Timers = {m1, m2}
    Sessions <- MCSessions
    Closers <- MCSessions
    CallOf <- MCCallOf
    BoxOf <- MCBoxOf
    MaxMessages = 1
    Faults = FALSE
    NoSession = NoSession
    NoTimer = NoTimer
    Registered = {c1}
    HasBox = {c1}
    CalleeFinals = {"ok", "err", "busy"}
    MaxInvites = 2
SPECIFICATION CallSpec
CHECK_DEADLOCK FALSE
SYMMETRY Symmetry
INVARIANTS
    RingingEntryHasSleeper
    VoicemailReplacesProxiedCall
