CONSTANTS
    Tls = {c1}
    Ws = {c2}
    NoConn = NoConn
    Senders = {s1}
    MaxMessages <- MCMaxMessages
    MaxOutbound = 2
    MaxFailures = 1
SPECIFICATION StreamsSpec
INVARIANTS
    RegistryFollows
    
PROPERTIES
    AcceptedIsWritten
    ClosedIsForgotten
CHECK_DEADLOCK FALSE
