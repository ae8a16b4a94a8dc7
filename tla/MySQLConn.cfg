SPECIFICATION Spec
CONSTANTS
    MaxCalls = 2
    Columns = 25
INVARIANTS
    InSync
    OwnAnswers
    RetryIsSafeOtherwise
    ConnectIsAccepted
PROPERTIES
    CancelReleases
    WatcherStops
CHECK_DEADLOCK FALSE
