SPECIFICATION RacingSpec
CONSTANTS
    Names = {u1, u2}
    AdminUsername = u1
    Secrets = {s1}
    KeyIds = {k1}
    Buckets <- MCBuckets
    RoleChoices = {"administrator", "operator"}
    GrantChoices <- MCGrants
    Requests = {r1, r2}
    IoThreads = 2
    IoQueueLimit = 1
    LegacyStores = TRUE
    None = None
    Revoked = Revoked
INVARIANT
    AdminRemains
SYMMETRY RequestSymmetry
