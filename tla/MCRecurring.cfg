SPECIFICATION Spec
CONSTANTS
    d1 = d1
    d2 = d2
    Device = {d1, d2}
    Knows = {d1, d2}
    Rail = "lightning"
    Period = 1
    FirstDue = 1
    MaxTime = 1
    MaxRun = 1
    UserOps = {"edit", "delete"}
    EditTimes = {0, 1}
    MaxUser = 1
    NoPass = NoPass
SYMMETRY DeviceSym
INVARIANTS TypeOK OncePerPeriod NothingStranded
CHECK_DEADLOCK FALSE
