SPECIFICATION FairSpec
CONSTANTS
    Keys = {k1}
    Blobs = {b1, b2}
    Workers = {w1, w2}
    Sweepers = {s1}
    Checkpointers = {c1}
    ReclaimBatch = 2
    UnlinkErrors = FALSE
    SlowUploads = FALSE
    None = None
    NoBackup = NoBackup
INVARIANTS
    TreeAccounted
PROPERTIES
    RecoveryLeavesNoResidue
    GarbageReclaimed
