SPECIFICATION Spec
CONSTANTS
    QueueBound = 1
    AsyncBound = 1
PROPERTY SingleCallback
CHECK_DEADLOCK FALSE
