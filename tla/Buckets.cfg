SPECIFICATION BucketsSpec
SYMMETRY Symmetry
CONSTANTS
    Keys = {k1, k2}
    Workers = {w1, w2, w3}
    Sizes = {0, 1, 2}
    Quotas = {0, 2}
    Buckets = {b1, b2}
    Published = {b1}
    Contended = {b2}
    Allocations = {0, 1, 2}
    allocatable = 2
    MaxThreads = 2
    MaxCharge = 2
    NoBucket = NoBucket
    Limits = {0, 1, 2, 3}
    Ceilings = {1, 2, 4}
    Setters = {s1}
INVARIANTS
    TypeOK
    NeverOverAllocated
    StoredIsCharged
    ReservedIsClaimed
    ObjectsHaveBucket
    NotOverAllocatedAlone
    LedgerFollowsRecords
    AccessHasReason
PROPERTIES
    ChargeWithinAllocation
    RestartKeepsLimit
