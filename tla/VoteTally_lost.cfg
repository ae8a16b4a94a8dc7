SPECIFICATION Spec
CONSTANTS
    Replica = {n1, n2, n3, n4}
INVARIANTS
    NoLostEntry
CHECK_DEADLOCK FALSE
