SPECIFICATION Spec
CONSTANTS
    Instances = {i1, i2}
    MaxWorkerID = 0
    Loops = {l1, l2}
    TTL = 3
    HeartbeatInterval = 1
    CallTimeout = 1
    MaxConsecutiveFailures = 2
    SyncAttempts = 1
    MaxTokens = 4
    ConfiguredIDs = {0}
    Timely = TRUE
    MayStop = FALSE
    MayCrash = TRUE
    StartAgainFrom = {}
    MayList = TRUE
    NoToken = NoToken
    NoLoop = NoLoop
SYMMETRY InstanceSymmetry
INVARIANTS
    TypeOK
    GeneratesWithOwnID
    LeaseBoundedByKey
    NeverBricked
    PromptInv
PROPERTIES
    ImplementsLeaseService
