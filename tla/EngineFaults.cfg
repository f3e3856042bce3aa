SPECIFICATION Spec
CONSTANTS
    Keys = {k1, k2}
    Blobs = {b1, b2, b3}
    Workers = {w1, w2}
    Sweepers = {s1}
    Checkpointers = {c1}
    ReclaimBatch = 1
    UnlinkErrors = TRUE
    SlowUploads = FALSE
    None = None
    NoBackup = NoBackup
SYMMETRY Symmetry
INVARIANTS
    TypeOK
    PayloadPresent
    LogIsGarbage
    BackupComplete
PROPERTY
    ImplementsObjectMap
