SPECIFICATION FairSpec
CONSTANTS
    Callers = {c1, c2}
    WorkerIDs = {0}
    MaxSequence = 3
    CacheSizes = {0, 2, 4}
    ClockDriftActions = {"wait", "error", "ignore"}
    MaxClockDrift = 1
    MaxClockBackwardWait = 1
    MaxIgnoreBackwardDrift = 1
    WaitBudget = 2
    ClockValues = {0, 1, 2}
    MaxCalls = 5
INVARIANTS
    TypeOK
    OrderedUnlessOverflowed
    IssuedNearClock
    NoSequenceGaps
    IInv
PROPERTIES
    CallsReturn
    SyntheticAdvanceOnlyWhenExhausted
    NoIDAfterShutdown
    ImplementsIdSource
