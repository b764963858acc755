SPECIFICATION FairSpec
CONSTANTS
    d1 = d1
    d2 = d2
    p1 = p1
    p2 = p2
    m1 = m1
    Devices <- OneDevice
    Proofs <- OneProof
    Melts <- OneMelt
    Tasks <- Settling
    LateRequests = FALSE
    MaxCrashes = 1
INVARIANTS
    HeldIsRecorded
PROPERTIES
    HeldReturns
    MeltCloses
    Delivered
    SpentCloses
