SPECIFICATION Spec
CONSTANTS
    MaxConn = 1
    MaxGeneration = 2
    MaxTasks = 1
    Thread = {t1, t2}
    t1 = t1
    t2 = t2
PROPERTIES ReportEndsOwnAttempt
CHECK_DEADLOCK FALSE
