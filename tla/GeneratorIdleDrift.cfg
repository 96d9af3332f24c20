SPECIFICATION Spec
CONSTANTS
    Callers = {c1}
    WorkerIDs = {0}
    MaxSequence = 1
    CacheSizes = {0}
    ClockDriftActions = {"error"}
    MaxClockDrift = 1
    MaxClockBackwardWait = 1
    MaxIgnoreBackwardDrift = 1
    WaitBudget = 1
    ClockValues = {0, 1, 2}
    MaxCalls = 5
INVARIANTS
    DriftErrorMeansBackwardClock
