CONSTANTS
    Calls = {c1}
    Tasks = {t1, t2}
    MaxMessages = 2
    MaxFiles = 2
    Pins <- MCPins
    Digits = {"3"}
    MaxDigits = 2
    MaxOps = 5
    MaxFaults = 1
    NoCall = NoCall
    NoKey = NoKey
SPECIFICATION Spec
SYMMETRY Symmetry
INVARIANTS
    NothingLeaks
    CursorOnMessage
    OwnDeletesLast
    
    GreetingExists
CHECK_DEADLOCK FALSE
