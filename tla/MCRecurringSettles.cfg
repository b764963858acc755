SPECIFICATION FairSpec
CONSTANTS
    d1 = d1
    d2 = d2
    Device = {d1, d2}
    Knows = {d1}
    Rail = "cashu"
    Period = 1
    FirstDue = 0
    MaxTime = 0
    MaxRun = 0
    UserOps = {"delete", "pause"}
    EditTimes = {}
    MaxUser = 1
    NoPass = NoPass
INVARIANT CountedIsPaid
PROPERTIES EveryRunPaysOnce EveryRunEnds
CHECK_DEADLOCK FALSE
