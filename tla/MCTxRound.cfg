SPECIFICATION TxSpec
CONSTANTS
    n1 = n1
    n2 = n2
    Replica <- MCReplica
    Urls <- MCUrls
    Leader = n1
    TransInBlock = 1
    MaxTransInBlock = 2
    TransChangeStep = 1
    Rounds = 1
    Lossy = FALSE
    MaxStarts = 1
    PoolSize = 3
INVARIANTS
    BlockIsFull
    PullFits
PROPERTIES
    ImplementsRound
CHECK_DEADLOCK FALSE
