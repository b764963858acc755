SPECIFICATION Spec
CONSTANTS
    r1 = r1
    r2 = r2
    j1 = j1
    j2 = j2
    tele = tele
    alice = alice
    bob = bob
    Runtimes <- OneRuntime
    Jobs <- TwoJobs
    Telemetry <- NoTelemetry
    Keys <- TwoKeys
    MaxTime = 1
    ClockStepsBack = FALSE
INVARIANTS
    TypeOK
    OwnKey
PROPERTIES
    InOrder
    EndsOnce
