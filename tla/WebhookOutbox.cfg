CONSTANTS
    e1 = e1
    Hooks = {h1, h2}
    Types = {e1}
    Producers = {p1}
    TypeOf <- MCTypeOf
    Ids = {1, 2}
    MAX_ATTEMPTS = 2
    Limit = 1
    MaxFaults = 1
    MaxAdmin = 2
    NoHook = NoHook
    NoId = NoId
SPECIFICATION Spec
CHECK_DEADLOCK FALSE
INVARIANTS
    RepetitionExplained
    DeadAfterAllAttempts
PROPERTIES
    ImplementsQueue
    DeliveriesSettle
