SPECIFICATION Spec
CONSTANTS
    MaxGeneration = 2
    Advertising = {TRUE, FALSE}
    StoredCaps = {TRUE, FALSE}
INVARIANTS ReconnectStartsClean
CHECK_DEADLOCK FALSE
