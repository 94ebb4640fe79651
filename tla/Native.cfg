SPECIFICATION FairSpec
CONSTANTS
    MaxConn = 2
    MaxGeneration = 2
    MaxTasks = 2
    Thread = {t1, t2}
    t1 = t1
    t2 = t2
INVARIANTS
    TypeOK
    StartsFromScratch
    CallbacksReachOwner
    NothingLeftBehind
    AttemptIsServed
PROPERTIES
    DroppedIsStopped
    LossIsNoticed
    ConnectingEnds
CHECK_DEADLOCK FALSE
