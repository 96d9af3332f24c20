SPECIFICATION Spec
CONSTANTS
    DatacenterIDs = {0, 31, 32}
    ConfWorkerIDs = {0, 1, 31, 32, 255}
    WorkerIDBits = {0, 5, 8}
    SequenceBits = {0, 6, 9, 14}
    CacheSizes = {0, 9, 512, 513}
    ClockDriftActions = {"", "wait", "sometimes"}
    MaxClockDrifts = {99, 100}
    EpochAges = {50, 51}
    Timestamps = {0, 1, 511}
    WorkerIdTtls = {0, 500, 9999, 10000, 10900, 29999, 30000, 30001, 86400000}
    HeartbeatIntervals = {0, 999, 1000, 3333, 3334, 3633, 10000, 3600000}
    MaxLostBeats = 1
CHECK_DEADLOCK FALSE
INVARIANTS
    TypeOK
    StampsLeasedID
    IDsFaithful
    
    BeatsInTime
    
    ResolversAgree
