SPECIFICATION Spec
CONSTANTS
    D = 2
    F = 1
    M = 16
    FirstBlock = 3
    MaxBlock = 9
    Late = 1
    Outage = 2
    Patience = 2
    Uneven = {}
INVARIANTS
    GivenUpIsShort
CHECK_DEADLOCK FALSE
