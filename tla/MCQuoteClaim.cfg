SPECIFICATION FairSpec
CONSTANTS
    c1 = c1
    c2 = c2
    d1 = d1
    d2 = d2
    Context = {c1, c2}
    Device = {d1}
    Home <- OneDevice
    Quote = {q1, q2}
    q1 = q1
    q2 = q2
    Autoswap = {q2}
    Overdue = {q2}
    NoQuote = NoQuote
    Watches <- OneWatcher
    Block = 3
    Outputs = 2
    ProbeWindow = 4
    MaxAttempts = 2
    MaxSlot = 24
    MaxSwapSlot = 1
    Nobody = Nobody
    Idle = Idle
    Unsigned = Unsigned
    Swapped = Swapped
INVARIANTS TypeOK  
 
CHECK_DEADLOCK FALSE
