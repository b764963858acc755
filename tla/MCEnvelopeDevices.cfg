SPECIFICATION Spec
CONSTANTS
    d1 = d1
    d2 = d2
    p1 = p1
    p2 = p2
    m1 = m1
    Devices <- TwoDevices
    Proofs <- OneProof
    Melts <- OneMelt
    Tasks <- PayingAndHelping
    LateRequests = TRUE
    MaxCrashes = 0
INVARIANTS
    TypeOK
    
    
