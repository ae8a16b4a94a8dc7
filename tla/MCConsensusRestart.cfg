SPECIFICATION RestartSpec
CONSTANTS
    n1 = n1
    n2 = n2
    n3 = n3
    Replica <- MCReplica2
    Urls <- MCUrls2
    Leader = n1
    TransInBlock = 1
    MaxTransInBlock = 3
    TransChangeStep = 1
    Rounds = 1
    Lossy = TRUE
    MaxStarts = 1
    MaxRestarts = 3
INVARIANTS
    Agreement
    ChainLinked
    CountedOnce
CHECK_DEADLOCK FALSE
