CONSTANTS
    c1 = c1
    c2 = c2
    r1 = r1
    t1 = t1
    t2 = t2
    t3 = t3
    t4 = t4
    Rooms = {r1}
    Calls = {c1, c2}
    Tasks <- MCTasks
    RoomOf <- MCRoomOf
    CallOf <- MCCallOf
    Capacity = 1
    MaxInvites = 2
    Faults = {c2}
    RtpKeys = {c2}
    None = None
SPECIFICATION Spec
CHECK_DEADLOCK FALSE
INVARIANTS
    RoomHasOneMixer
    CapacityWithoutOverlap
    
PROPERTY EveryoneIsHeard
