SPECIFICATION FairSpec
CONSTANTS
    Instances = {i1}
    MaxWorkerID = 1
    Loops = {l1, l2}
    TTL = 2
    HeartbeatInterval = 1
    CallTimeout = 1
    MaxConsecutiveFailures = 1
    SyncAttempts = 1
    MaxTokens = 4
    ConfiguredIDs = {1}
    Timely = TRUE
    MayStop = TRUE
    MayCrash = FALSE
    StartAgainFrom = {"failed"}
    MayList = FALSE
    NoToken = NoToken
    NoLoop = NoLoop
PROPERTIES
    Recovers
    FreesWorkerID
