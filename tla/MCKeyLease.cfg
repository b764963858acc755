SPECIFICATION Spec
CONSTANTS
    c1 = c1
    c2 = c2
    c3 = c3
    Contexts <- MCContexts
    Nobody = Nobody
    Ttl = 3
    RenewEvery = 1
    AcquireTimeout = 3
    Lag = 1
INVARIANTS
    TypeOK
    
    RunningOwns
PROPERTIES
    WaitEnds
    OrphanLapses
