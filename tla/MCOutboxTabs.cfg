SPECIFICATION Spec
CONSTANTS
    r1 = r1
    r2 = r2
    j1 = j1
    j2 = j2
    tele = tele
    alice = alice
    bob = bob
    Runtimes <- TwoRuntimes
    Jobs <- TwoJobs
    Telemetry <- NoTelemetry
    Keys <- OneKey
    MaxTime = 0
    ClockStepsBack = FALSE
INVARIANTS
    HonestSuccess
    RemovedIsHandled
PROPERTIES
    InOrder
SYMMETRY Symmetry
