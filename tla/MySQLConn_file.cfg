SPECIFICATION Spec
CONSTANTS
    MaxCalls = 2
    Columns = 2
INVARIANTS
    RetryIsSafeUnlessRefused
CHECK_DEADLOCK FALSE
