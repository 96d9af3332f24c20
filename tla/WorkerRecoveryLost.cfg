SPECIFICATION Spec
CONSTANTS
    Instances = {i1}
    MaxWorkerID = 0
    Loops = {l1, l2}
    TTL = 1
    HeartbeatInterval = 1
    CallTimeout = 1
    MaxConsecutiveFailures = 1
    SyncAttempts = 1
    MaxTokens = 6
    ConfiguredIDs = {0}
    Timely = FALSE
    MayStop = FALSE
    MayCrash = FALSE
    StartAgainFrom = {}
    MayList = FALSE
    NoToken = NoToken
    NoLoop = NoLoop
INVARIANTS
    NeverBricked
