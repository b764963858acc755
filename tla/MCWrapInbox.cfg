SPECIFICATION Spec
CONSTANTS
    ra = ra
    rb = rb
    w1 = w1
    w2 = w2
    w3 = w3
    Relays <- TwoRelays
    Wraps <- ThreeWraps
    Reach <- Spread
    MaxTime = 2
    Margin = 1
    MaxAge = 4
    PageLimit = 1
    MaxFailed = 1
    Cap = 1
    Backdate = 1
    Ahead = 1
    Outage = 0
    MaxBreaks = 1
CHECK_DEADLOCK FALSE
INVARIANTS
    TypeOK

    
SYMMETRY SymmetrySpread
