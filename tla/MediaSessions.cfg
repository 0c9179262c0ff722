CONSTANTS
    c1 = c1
    s1 = s1
    Calls = {c1}
    Setups = {s1, s2}
    Removers = {r1}
    Answers = {a1}
    CallOf <- MCCallOf
    Wants <- MCWants
    None = None
SPECIFICATION Spec
CHECK_DEADLOCK FALSE
INVARIANTS
    LoopsAccounted
    BridgeReady
PROPERTY SessionsEnd
