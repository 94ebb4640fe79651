SPECIFICATION FairSpec
CONSTANTS
    QueueBound = 2
    AsyncBound = 1
INVARIANTS
    TypeOK
    LifetimesNest
    NoSleeperForgotten
PROPERTIES
    CallsReturn
    LossIsReported
CHECK_DEADLOCK FALSE
