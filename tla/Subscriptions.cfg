SPECIFICATION Spec
CONSTANTS
    Watchers = {w1}
    Phones = {p1}
    Tasks = {t1, t2, t3}
    Contents = {m0, m1}
    NoMessages = m0
    MaxFaults = 2
    NoRow = NoRow
SYMMETRY Symmetry
INVARIANTS
    NewestIsTrue
    NewestCountsAreTrue
    
CHECK_DEADLOCK FALSE
