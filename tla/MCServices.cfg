SPECIFICATION ServicesSpec
CONSTANTS
    n1 = n1
    n2 = n2
    n3 = n3
    n4 = n4
    Replica <- MCReplica
    Caller <- MCCaller
    MaxStarts = 2
    Polls = 2
    Call <- MCCall
    Urls = 2
    Pages = 2
    Capacity = 1
    MaxFound = 2
    c1 = c1
    c2 = c2
    k1 = k1
INVARIANTS
    ActedOnAll
    StopMeetsItsServer
    PortIsServed
    NothingIsLeft
PROPERTIES
    CompleteIsActedOn
    StartReturns
    KeepsPromise
    OnlyUpdateHangs
    ProgramsEnd
CHECK_DEADLOCK FALSE
