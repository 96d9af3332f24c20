SPECIFICATION FairSpec
CONSTANTS
    Clients = {c1}
    Requests = {r1, r2}
    Buckets = {b1, b2, b3}
    Rates = {0, 2}
    TicksPerSecond = 2
    BucketTTL = 4
    CleanupPeriod = 2
    MaxAge = 5
    NoClient = NoClient
    NoBucket = NoBucket
    c1 = c1 r1 = r1 r2 = r2 b1 = b1 b2 = b2 b3 = b3
INVARIANTS
    TypeOK
    
PROPERTIES
    RefusedSoonAfterGrant
    IdleClientsForgotten
    CleanupGoroutineEnds
