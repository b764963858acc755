SPECIFICATION Spec
CONSTANTS
    d1 = d1
    d2 = d2
    p1 = p1
    p2 = p2
    m1 = m1
    Devices <- OneDevice
    Proofs <- TwoProofs
    Melts <- OneMelt
    Tasks <- LeasedAndState
    LateRequests = FALSE
    MaxCrashes = 1
INVARIANTS
    UnpaidIsUnpaid

    
