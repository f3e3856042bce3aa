SPECIFICATION RequestsSpec
CONSTANTS
    Forms <- SomeForms
    Documents <- SomeDocuments
    Secrets = 2
    Skew = 1
    MaxExpires = 1
    MaxNow = 2
    MaxEdits = 2
    MaxMishaps = 1
    MaxReads = 2
    Chunks = {"x", "y"}
    MaxSent = 2
    UploadLimit = 2
    MaxFaults = 2
    Origins <- SomeOrigins
    HeaderNames <- SomeHeaders
    CorsRules <- SomeRules
    MaxRules = 2
    MaxAge = 1
    MaxPuts = 2
    ObjectKeys <- SomeKeys
    Delimiter = 2
    QueryPrefixes <- SomePrefixes
    UploadIds = {1, 2}
    MaxKeys = 2
    MaxChanges = 1
    ObjectSizes = {0, 1, 3}
    MaxVersions = 3
    MaxSeconds = 1
    MaxGets = 3
    Slots = {"s1", "r1", "n1", "p1"}
    PartSlots = {"p1"}
    LevelOf <- SlotLevels
    ServerLevel = "relaxed"
    Payloads = {1, 2}
    Shards = {"d1"}
    ShardOf <- SomeShards
    MaxCuts = 1
INVARIANT
    StrictSurvives
CHECK_DEADLOCK FALSE
