CONSTANTS
    MaxConnections = 3
    SOCKET_LIST_SIZE = 2
    Abrupt = {1}

SPECIFICATION FairSpec

INVARIANTS
    
    EveryClientAsked

PROPERTY
    StopReturns

CHECK_DEADLOCK FALSE
