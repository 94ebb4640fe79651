SPECIFICATION Spec
CONSTANTS
    D = 2
    F = 1
    M = 40
    FirstBlock = 15
    MaxBlock = 21
    Late = 1
    Outage = 2
    Patience = 2
    Uneven = {17}
INVARIANTS
    QueueIsSound
    FreshIsTaken
    HeadIsRecent
PROPERTIES
    PlayedInOrder
    NothingStoredIsLost
CHECK_DEADLOCK FALSE
