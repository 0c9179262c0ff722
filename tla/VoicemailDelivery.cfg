CONSTANTS
    c1 = c1
    b1 = b1
    Calls = {c1}
    Sessions = {s1, s2}
    Closers = {k1, k2}
    Boxes = {b1}
    CallOf <- MCCallOf
    BoxOf <- MCBoxOf
    MaxMessages = 1
    Faults = TRUE
    NoSession = NoSession
SPECIFICATION Spec
INVARIANTS
    OneRecordingPerCall
    CanceledNeverStored
    
PROPERTIES
    RecordingEnds
CHECK_DEADLOCK FALSE
