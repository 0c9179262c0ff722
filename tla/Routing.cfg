SPECIFICATION Spec
CONSTANTS
    alice = alice
    bob = bob
    Users <- MCUsers
    Sources <- MCSources
    Left <- MCLeft
    Calls = {c1}
    NoCall = NoCall
    Tasks = {t1, t2}
    MaxOps = 3
    MaxFaults = 1
    NoSource = NoSource
    NoDialog = NoDialog
    NoRow = NoRow
INVARIANTS
    NewestSource
    RequestsReachPeer
    DialogIsCounted
    DeliveredWasSent
PROPERTY RecordsClose
CHECK_DEADLOCK FALSE
