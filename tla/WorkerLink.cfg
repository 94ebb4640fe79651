SPECIFICATION FairSpec
CONSTANTS
    MaxAttempt = 2
    MaxCommands = 3
INVARIANTS
    SourcesAreOwned
    ReportedOnce
    StopLeavesNothing
PROPERTIES
    EndIsReported
    StopGetsThrough
CHECK_DEADLOCK FALSE
