SPECIFICATION FairSpec
CONSTANTS
    n1 = n1
    n2 = n2
    n3 = n3
    Replica <- MCReplica
    Urls <- MCUrls
    Leader = n1
    TransInBlock = 1
    MaxTransInBlock = 2
    TransChangeStep = 1
    Rounds = 1
    Lossy = FALSE
    MaxStarts = 1
INVARIANTS
    CInv
    StoredIsHeldByAll
    SkewAtMostOne
    NoDissent
PROPERTIES
    ImplementsLedger
    LaggardCatchesUp
    FirstBlockStored
CHECK_DEADLOCK FALSE
