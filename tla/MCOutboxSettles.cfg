SPECIFICATION FairSpec
CONSTANTS
    r1 = r1
    r2 = r2
    j1 = j1
    j2 = j2
    tele = tele
    alice = alice
    bob = bob
    Runtimes <- OneRuntime
    Jobs <- WithReport
    Telemetry <- OneTelemetry
    Keys <- OneKey
    MaxTime = 0
    ClockStepsBack = FALSE
PROPERTIES
    Delivered
    Settles
