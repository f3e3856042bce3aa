SPECIFICATION Spec
CONSTANTS
    CacheKeys = {"a", "b", "c"}
    Values = {"v1", "v2"}
    Weights = {1, 2, 3}
    Budget = 2
    Readers = {"r1"}
    CacheWorkers = {w1, w2}
    MaxVersion = 2
    ListedVersions = {}
    failureThreshold = 2
    RedisPoolSize = 1
    FiniteTtl = TRUE
    Workers = {w1, w2}
    Loops = 1
    queueLimit = 1
    kMaxFailedLogins = 1
    MaxLogins = 5
    kAuditCapacity = 2
    MaxAppends = 6
    RingSize = 2
    Readings = {0, 1, 3}
    MaxReadings = 5
INVARIANTS
    ShardWithinBudget
    NoOlderValue
    ProbeHasCarrier
    ThrottleOvershootBounded
    AuditListsRecent
    GraphShowsLastIntervals
PROPERTIES
    StaleEntryLeaves
    LoginsAnswered
    ShutdownCompletes
CHECK_DEADLOCK FALSE
