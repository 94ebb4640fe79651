SPECIFICATION FairSpec
CONSTANTS
    MaxGeneration = 3
    Advertising = {TRUE, FALSE}
    StoredCaps = {TRUE, FALSE}
INVARIANTS
    TypeOK
    DisconnectSticks
    IdleHoldsNothing
    OneRepetition
PROPERTIES
    RelearnsAfterDeath
    DownReleases
CHECK_DEADLOCK FALSE
