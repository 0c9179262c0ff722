SPECIFICATION PortsSpec
CONSTANTS
    a1 = a1
    a2 = a2
    a3 = a3
    Allocs <- MCAllocs
    PortMin <- MinPorts
    PortMax <- EvenMax
    CounterMod = 6
CHECK_DEADLOCK FALSE
SYMMETRY Symmetry
INVARIANTS
    NoFalseExhaustion
